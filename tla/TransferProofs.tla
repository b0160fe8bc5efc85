--------------------------- MODULE TransferProofs ---------------------------
(***************************************************************************)
(* Proofs about what carries the data of an FTP transfer and what tells of *)
(* its progress, in three parts.                                           *)
(*                                                                         *)
(* CTransferSocket, for files of any size, buffers of any size and any     *)
(* number of turns of a loop.  The argument for the edge-triggered events  *)
(* is that the right to call read, and the right to call write, is a       *)
(* token: the handler that runs has it, or the socket thread, or a queued  *)
(* event, or the writer or reader that was waited for, or a postponed      *)
(* call, and never two of them.                                            *)
(*                                                                         *)
(* CTransferStatusManager, for any number of transfers and of updates: the *)
(* atomic counter that Update increases without the mutex loses nothing,   *)
(* and what is in it will be fetched; no notification stays in the list of *)
(* the engine with nobody to fetch it; and a poll that is told that        *)
(* nothing has changed has nothing to show.                                *)
(*                                                                         *)
(* ascii_writer and ascii_reader, for files of any length and buffers of   *)
(* any size: their loops, which see one buffer after the other, compute    *)
(* what is defined on the file as a whole.  The loops are recursive        *)
(* functions; a recursive function is shown to exist, and to be the only   *)
(* one, by induction in the form of a least number that is not in a set.   *)
(***************************************************************************)
EXTENDS TransferSocket, TransferStatus, AsciiTransfer, SequenceTheorems, WellFoundedInduction, TLAPS

-----------------------------------------------------------------------------
(* CTransferSocket. *)

(* The transfer command is sent and the user has agreed, if asked. *)
Permitted == commandSent /\ (handshake = "ask" => answered)

(* What is in the buffer. *)
InBuffer == IF buffer_ = NoBuffer THEN 0 ELSE buffer_

(* A connection that has not been made is as it was created. *)
Fresh == link \in {"none", "listening", "connecting"} /\ ~Ended =>
    /\ activity_block_ = (IF commandSent THEN 0 ELSE 1) /\ ~answered
    /\ ~m_postponedReceive /\ ~m_postponedSend /\ ~acceptedPlain
    /\ ~handler_waiting_ /\ aioEvents = 0 /\ buffer_ = NoBuffer

(* A connection there is not has no events, and nobody works on it. *)
Silent == link # "connected" =>
    readEvents = {} /\ writeEvents = NoWriteEvents /\ waiting = {} /\ again = {} /\ running = "none"

(* activity_block_ counts what is missing. *)
Blocked ==
    /\ link = "connected" => activity_block_ = (IF commandSent THEN 0 ELSE 1)
                                               + (IF handshake = "ask" /\ ~answered THEN 1 ELSE 0)
    /\ m_postponedReceive => activity_block_ > 0 /\ link \in {"connected", "gone"}
    /\ running # "none" => activity_block_ = 0
    /\ "write" \in waiting => activity_block_ = 0

EndedLinks ==
    /\ Ended => link \in {"none", "connected", "gone"}
    /\ Ended /\ link = "connected" => activity_block_ = 0
    /\ running = "send" => ~Ended /\ m_transferMode = "upload"
    /\ alsoSend => running = "receive"

(* Who may call read next: one of them at most. *)
ReadQueued == "own" \in readEvents \/ "socket" \in readEvents
ReadWaits == (handler_waiting_ \/ aioEvents > 0) /\ m_transferMode # "upload"

ReadToken ==
    /\ m_transferMode # "upload" => aioEvents = 0 \/ (aioEvents = 1 /\ ~handler_waiting_)
    /\ running = "receive" => ~ReadQueued /\ "read" \notin waiting /\ ~ReadWaits /\ ~m_postponedReceive
    /\ ReadQueued => "read" \notin waiting /\ ~ReadWaits /\ ~m_postponedReceive
    /\ "own" \in readEvents => "socket" \notin readEvents
    /\ "read" \in waiting => ~ReadWaits /\ ~m_postponedReceive
    /\ ReadWaits => ~m_postponedReceive
    /\ "read" \in again => "read" \in waiting \/ "socket" \in readEvents

(* Who may call write next: one of them at most, or two of them for an accepted
   connection without TLS. *)
One(condition) == IF condition THEN 1 ELSE 0
Sending == One(running = "send" \/ alsoSend) + One(m_postponedSend)
WriteQueued == writeEvents["own"] + writeEvents["socket"] + writeEvents["handler_set"]
WriteWaits == IF m_transferMode = "upload" THEN aioEvents + One(handler_waiting_) ELSE 0

WriteToken ==
    /\ Sending + WriteQueued + One("write" \in waiting) + WriteWaits <= 1 + One(acceptedPlain)
    /\ "write" \in again /\ ~acceptedPlain => "write" \in waiting \/ writeEvents["socket"] > 0

(* Nothing is lost between the connection, the buffer and the file. *)
Counted ==
    /\ incoming <= peerSent
    /\ ~Ended /\ link # "gone" =>
         /\ m_transferMode # "upload" => peerSent = incoming + moved
         /\ m_transferMode = "list" => handed = moved
         /\ m_transferMode = "download" => moved = handed + InBuffer
         /\ m_transferMode = "upload" => moved + InBuffer + fileLeft = Units

(* SuccessIsComplete, by cases. *)
Complete == m_transferEndReason = "successful" =>
    /\ m_transferMode \in {"list", "download"} => peerClosed /\ handed = peerSent
    /\ m_transferMode = "upload" => moved = Units
    /\ m_transferMode = "resumetest" => peerClosed /\ peerSent = 1

Ranges == Names /\ Queues /\ Counters

SocketIInv == /\ Ranges /\ Fresh /\ Silent /\ Blocked /\ EndedLinks /\ ReadToken /\ WriteToken /\ Counted
        /\ Complete /\ ConsentComesFirst

-----------------------------------------------------------------------------
(* The steps of the two loops. *)
ReceiveTurns ==
    \/ ReadsAgain \/ ReadFails \/ ReadListing \/ ReadToEnd \/ CheckGetNextWriteBuffer \/ ReadFile
    \/ FinalizeWrite \/ ReadResumeTest \/ EndResumeTest \/ ReadDuringUpload \/ Discard

SendTurns == CheckGetNextReadBuffer \/ ShutDown \/ Write \/ WritesAgain \/ WriteFails

(* The queue of write events. *)
LEMMA NoWrites ==
    /\ NoWriteEvents \in [WriteSources -> 0..2]
    /\ NoWriteEvents["own"] = 0 /\ NoWriteEvents["socket"] = 0 /\ NoWriteEvents["handler_set"] = 0
  BY DEF NoWriteEvents, WriteSources

LEMMA WriteEventConnected ==
    ASSUME Silent, NEW from \in WriteSources, OnWriteEvent(from)
    PROVE  link = "connected"
<1>1. CASE writeEvents = NoWriteEvents
  BY <1>1, NoWriteEvents[from] = 0 DEF NoWriteEvents, OnWriteEvent
<1>2. QED
  BY <1>1 DEF Silent

LEMMA HandlerSet ==
    ASSUME NEW w, w = [NoWriteEvents EXCEPT !["handler_set"] = 1]
    PROVE  w \in [WriteSources -> Nat] /\ w["own"] = 0 /\ w["socket"] = 0 /\ w["handler_set"] = 1
  BY DEF NoWriteEvents, WriteSources

LEMMA StepCases ==
    ASSUME [SocketNext]_socketVars
    PROVE  Calls \/ Handlers \/ ReceiveTurns \/ SendTurns \/ Environment \/ UNCHANGED socketVars
  BY DEF SocketNext, Turns, ReceiveTurns, SendTurns

LEMMA NextSilent ==
    ASSUME Ranges, Silent, Fresh, Blocked, EndedLinks, [SocketNext]_socketVars
    PROVE  Silent'
<1> USE DEF flags, events, handler, peer, data, setup, aio
<1>1. CASE Calls
  BY <1>1 DEF Calls, SetupActiveTransfer, SetupPassiveTransfer, SetActive, ContinueWithoutSessionResumption, Destroy, Idle,
             TriggerPostponedEvents, RunReceive, RunSend, NoEvents, AwaitsAio,
             Silent, Fresh, Blocked, EndedLinks, Ended, Ranges, Names, Queues, Counters
<1>2. CASE Handlers
  <2>1. CASE OnAccept
    BY <2>1 DEF OnAccept, OnConnect, OnSend, RunSend, Fails, ResetSocket, NoEvents, Idle, Silent, Fresh, Blocked, EndedLinks, Ended, Ranges, Names, Queues, Counters
  <2>2. CASE OnConnectionEvent
    BY <2>2 DEF OnConnectionEvent, OnConnect, OnSend, RunSend, Fails, ResetSocket, NoEvents, Idle, Silent, Fresh, Blocked, EndedLinks, Ended, Ranges, Names, Queues, Counters
  <2>3. CASE OnSocketError
    BY <2>3 DEF OnSocketError, Fails, ResetSocket, NoEvents, Idle, Silent, Fresh, Blocked, EndedLinks, Ended, Ranges, Names, Queues, Counters
  <2>4. CASE OnAio
    BY <2>4 DEF OnAio, RunReceive, RunSend, Idle, Silent, Fresh, Blocked, EndedLinks, Ended, Ranges, Names, Queues, Counters
  <2>5. ASSUME NEW from \in {"socket", "own"}, OnReadEvent(from)
        PROVE  Silent'
    BY <2>5 DEF OnReadEvent, OnReceive, RunReceive, Idle, Silent, Fresh, Blocked, EndedLinks, Ended, Ranges, Names, Queues, Counters
  <2>6. ASSUME NEW from \in WriteSources, OnWriteEvent(from)
        PROVE  Silent'
    BY <2>6, WriteEventConnected DEF OnWriteEvent, OnSend, RunSend, Idle, Silent, Fresh, Blocked, EndedLinks, Ended, Ranges, Names, Queues, Counters
  <2>7. QED
    BY <1>2, <2>1, <2>2, <2>3, <2>4, <2>5, <2>6 DEF Handlers
<1>3. CASE ReceiveTurns
  BY <1>3 DEF ReceiveTurns, ReadsAgain, ReadFails, ReadListing, ReadToEnd, CheckGetNextWriteBuffer, ReadFile, FinalizeWrite,
             ReadResumeTest, EndResumeTest, ReadDuringUpload, Discard, Reading, Receives, CanWrite,
             Iterates, Awaits, Succeeds, Fails, ResetSocket, NoEvents, AwaitsAio, LeavesReceive, Returns,
             Silent, Fresh, Blocked, EndedLinks, Ended, Ranges, Names, Queues, Counters
<1>4. CASE SendTurns
  BY <1>4 DEF SendTurns, CheckGetNextReadBuffer, ShutDown, Write, WritesAgain, WriteFails, Sends,
             Iterates, Awaits, Succeeds, Fails, ResetSocket, NoEvents, AwaitsAio, Returns,
             Silent, Fresh, Blocked, EndedLinks, Ended, Ranges, Names, Queues, Counters
<1>5. CASE Environment
  BY <1>5 DEF Environment, PeerSends, PeerCloses, SocketReadable, SocketWritable, AioReady,
             Silent, Fresh, Blocked, EndedLinks, Ended, Ranges, Names, Queues, Counters
<1>6. CASE UNCHANGED socketVars
  BY <1>6 DEF socketVars,
             Silent, Fresh, Blocked, EndedLinks, Ended, Ranges, Names, Queues, Counters
<1>7. QED
  BY <1>1, <1>2, <1>3, <1>4, <1>5, <1>6, StepCases

LEMMA NextEndedLinks ==
    ASSUME Ranges, Silent, Fresh, Blocked, EndedLinks, [SocketNext]_socketVars
    PROVE  EndedLinks'
<1> USE DEF flags, events, handler, peer, data, setup, aio
<1>1. CASE Calls
  BY <1>1 DEF Calls, SetupActiveTransfer, SetupPassiveTransfer, SetActive, ContinueWithoutSessionResumption, Destroy, Idle,
             TriggerPostponedEvents, RunReceive, RunSend, NoEvents, AwaitsAio,
             Silent, Fresh, Blocked, EndedLinks, Ended, Ranges, Names, Queues, Counters
<1>2. CASE Handlers
  BY <1>2 DEF Handlers, OnAccept, OnConnectionEvent, OnConnect, OnSocketError, OnReadEvent, OnWriteEvent, OnAio, Idle,
             OnReceive, OnSend, RunReceive, RunSend, Fails, ResetSocket, NoEvents, AwaitsAio,
             Silent, Fresh, Blocked, EndedLinks, Ended, Ranges, Names, Queues, Counters
<1>3. CASE ReceiveTurns
  BY <1>3 DEF ReceiveTurns, ReadsAgain, ReadFails, ReadListing, ReadToEnd, CheckGetNextWriteBuffer, ReadFile, FinalizeWrite,
             ReadResumeTest, EndResumeTest, ReadDuringUpload, Discard, Reading, Receives, CanWrite,
             Iterates, Awaits, Succeeds, Fails, ResetSocket, NoEvents, AwaitsAio, LeavesReceive, Returns,
             Silent, Fresh, Blocked, EndedLinks, Ended, Ranges, Names, Queues, Counters
<1>4. CASE SendTurns
  BY <1>4 DEF SendTurns, CheckGetNextReadBuffer, ShutDown, Write, WritesAgain, WriteFails, Sends,
             Iterates, Awaits, Succeeds, Fails, ResetSocket, NoEvents, AwaitsAio, Returns,
             Silent, Fresh, Blocked, EndedLinks, Ended, Ranges, Names, Queues, Counters
<1>5. CASE Environment
  BY <1>5 DEF Environment, PeerSends, PeerCloses, SocketReadable, SocketWritable, AioReady,
             Silent, Fresh, Blocked, EndedLinks, Ended, Ranges, Names, Queues, Counters
<1>6. CASE UNCHANGED socketVars
  BY <1>6 DEF socketVars,
             Silent, Fresh, Blocked, EndedLinks, Ended, Ranges, Names, Queues, Counters
<1>7. QED
  BY <1>1, <1>2, <1>3, <1>4, <1>5, <1>6, StepCases

LEMMA NextFresh ==
    ASSUME Ranges, Silent, Fresh, Blocked, EndedLinks, [SocketNext]_socketVars
    PROVE  Fresh'
<1> USE DEF flags, events, handler, peer, data, setup, aio
<1>1. CASE Calls
  BY <1>1 DEF Calls, SetupActiveTransfer, SetupPassiveTransfer, SetActive, ContinueWithoutSessionResumption, Destroy, Idle,
             TriggerPostponedEvents, RunReceive, RunSend, NoEvents, AwaitsAio,
             Fresh, Silent, EndedLinks, Ended
<1>2. CASE Handlers
  <2>1. CASE OnAccept
    BY <2>1 DEF OnAccept, OnConnect, OnSend, RunSend, Fails, ResetSocket, NoEvents, Idle, Silent, Fresh, Blocked, EndedLinks, Ended, Ranges, Names, Queues, Counters
  <2>2. CASE OnConnectionEvent
    BY <2>2 DEF OnConnectionEvent, OnConnect, OnSend, RunSend, Fails, ResetSocket, NoEvents, Idle, Silent, Fresh, Blocked, EndedLinks, Ended, Ranges, Names, Queues, Counters
  <2>3. CASE OnSocketError
    BY <2>3 DEF OnSocketError, Fails, ResetSocket, NoEvents, Idle, Silent, Fresh, Blocked, EndedLinks, Ended, Ranges, Names, Queues, Counters
  <2>4. CASE OnAio
    BY <2>4 DEF OnAio, RunReceive, RunSend, Idle, Silent, Fresh, Blocked, EndedLinks, Ended, Ranges, Names, Queues, Counters
  <2>5. ASSUME NEW from \in {"socket", "own"}, OnReadEvent(from)
        PROVE  Fresh'
    BY <2>5 DEF OnReadEvent, OnReceive, RunReceive, Idle, Silent, Fresh, Blocked, EndedLinks, Ended, Ranges, Names, Queues, Counters
  <2>6. ASSUME NEW from \in WriteSources, OnWriteEvent(from)
        PROVE  Fresh'
    BY <2>6, WriteEventConnected DEF OnWriteEvent, OnSend, RunSend, Idle, Silent, Fresh, Blocked, EndedLinks, Ended, Ranges, Names, Queues, Counters
  <2>7. QED
    BY <1>2, <2>1, <2>2, <2>3, <2>4, <2>5, <2>6 DEF Handlers
<1>3. CASE ReceiveTurns
  BY <1>3 DEF ReceiveTurns, ReadsAgain, ReadFails, ReadListing, ReadToEnd, CheckGetNextWriteBuffer, ReadFile, FinalizeWrite,
             ReadResumeTest, EndResumeTest, ReadDuringUpload, Discard, Reading, Receives, CanWrite,
             Iterates, Awaits, Succeeds, Fails, ResetSocket, NoEvents, AwaitsAio, LeavesReceive, Returns,
             Fresh, Silent, EndedLinks, Ended
<1>4. CASE SendTurns
  BY <1>4 DEF SendTurns, CheckGetNextReadBuffer, ShutDown, Write, WritesAgain, WriteFails, Sends,
             Iterates, Awaits, Succeeds, Fails, ResetSocket, NoEvents, AwaitsAio, Returns,
             Fresh, Silent, EndedLinks, Ended
<1>5. CASE Environment
  BY <1>5 DEF Environment, PeerSends, PeerCloses, SocketReadable, SocketWritable, AioReady,
             Fresh, Silent, EndedLinks, Ended
<1>6. CASE UNCHANGED socketVars
  BY <1>6 DEF socketVars,
             Fresh, Silent, EndedLinks, Ended
<1>7. QED
  BY <1>1, <1>2, <1>3, <1>4, <1>5, <1>6, StepCases

LEMMA NextBlocked ==
    ASSUME Ranges, Silent, Fresh, Blocked, EndedLinks, ReadToken, [SocketNext]_socketVars
    PROVE  Blocked'
<1> USE DEF flags, events, handler, peer, data, setup, aio
<1>1. CASE Calls
  BY <1>1 DEF Calls, SetupActiveTransfer, SetupPassiveTransfer, SetActive, ContinueWithoutSessionResumption, Destroy, Idle,
             TriggerPostponedEvents, RunReceive, RunSend, NoEvents, AwaitsAio,
             Blocked, Fresh, Silent, EndedLinks, ReadToken, ReadQueued, ReadWaits, Ended, Ranges, Names, Queues, Counters
<1>2. CASE Handlers
  <2>1. CASE OnSocketError
    <3>1. "read" \in waiting \/ "write" \in waiting
      BY <2>1 DEF OnSocketError, Ranges, Queues
    <3>2. ~m_postponedReceive
      BY <3>1 DEF ReadToken, Blocked
    <3>3. QED
      BY <2>1, <3>2 DEF OnSocketError, Fails, ResetSocket, NoEvents, Blocked, Idle, Ended
  <2>2. CASE OnAccept \/ OnConnectionEvent
    BY <2>2 DEF OnAccept, OnConnectionEvent, OnConnect, OnSend, RunSend, Fails, ResetSocket, NoEvents, Idle,
                Blocked, Fresh, Silent, EndedLinks, Ended, Ranges, Names, Queues, Counters
  <2>3. CASE OnAio
    BY <2>3 DEF OnAio, RunReceive, RunSend, Idle, Blocked, Ranges, Counters
  <2>4. ASSUME NEW from, OnReadEvent(from)
        PROVE  Blocked'
    <3>1. link = "connected"
      BY <2>4 DEF OnReadEvent, Silent
    <3>2. QED
      BY <2>4, <3>1 DEF OnReadEvent, OnReceive, RunReceive, Idle, Blocked
  <2>5. ASSUME NEW from, OnWriteEvent(from)
        PROVE  Blocked'
    BY <2>5 DEF OnWriteEvent, OnSend, RunSend, Idle, Blocked
  <2>6. QED
    BY <1>2, <2>1, <2>2, <2>3, <2>4, <2>5 DEF Handlers
<1>3. CASE ReceiveTurns
  BY <1>3 DEF ReceiveTurns, ReadsAgain, ReadFails, ReadListing, ReadToEnd, CheckGetNextWriteBuffer, ReadFile, FinalizeWrite,
             ReadResumeTest, EndResumeTest, ReadDuringUpload, Discard, Reading, Receives, CanWrite,
             Iterates, Awaits, Succeeds, Fails, ResetSocket, NoEvents, AwaitsAio, LeavesReceive, Returns,
             Blocked, Fresh, Silent, EndedLinks, ReadToken, ReadQueued, ReadWaits, Ended, Ranges, Names, Queues, Counters
<1>4. CASE SendTurns
  BY <1>4 DEF SendTurns, CheckGetNextReadBuffer, ShutDown, Write, WritesAgain, WriteFails, Sends,
             Iterates, Awaits, Succeeds, Fails, ResetSocket, NoEvents, AwaitsAio, Returns,
             Blocked, Fresh, Silent, EndedLinks, ReadToken, ReadQueued, ReadWaits, Ended, Ranges, Names, Queues, Counters
<1>5. CASE Environment
  BY <1>5 DEF Environment, PeerSends, PeerCloses, SocketReadable, SocketWritable, AioReady,
             Blocked, Fresh, Silent, EndedLinks, ReadToken, ReadQueued, ReadWaits, Ended, Ranges, Names, Queues, Counters
<1>6. CASE UNCHANGED socketVars
  BY <1>6 DEF socketVars,
             Blocked, Fresh, Silent, EndedLinks, ReadToken, ReadQueued, ReadWaits, Ended, Ranges, Names, Queues, Counters
<1>7. QED
  BY <1>1, <1>2, <1>3, <1>4, <1>5, <1>6, StepCases

LEMMA NextReadToken ==
    ASSUME Ranges, Silent, Fresh, Blocked, EndedLinks, ReadToken, [SocketNext]_socketVars
    PROVE  ReadToken'
<1> USE DEF flags, events, handler, peer, data, setup, aio
<1>1. CASE Calls
  BY <1>1 DEF Calls, SetupActiveTransfer, SetupPassiveTransfer, SetActive, ContinueWithoutSessionResumption, Destroy, Idle,
             TriggerPostponedEvents, RunReceive, RunSend, NoEvents, AwaitsAio,
             Fresh, Silent, Blocked, EndedLinks, ReadToken, ReadQueued, ReadWaits, Ended, Ranges, Names, Queues, Counters
<1>2. CASE Handlers
  BY <1>2 DEF Handlers, OnAccept, OnConnectionEvent, OnConnect, OnSocketError, OnReadEvent, OnWriteEvent, OnAio, Idle,
             OnReceive, OnSend, RunReceive, RunSend, Fails, ResetSocket, NoEvents, AwaitsAio,
             Fresh, Silent, Blocked, EndedLinks, ReadToken, ReadQueued, ReadWaits, Ended, Ranges, Names, Queues, Counters
<1>3. CASE ReceiveTurns
  BY <1>3 DEF ReceiveTurns, ReadsAgain, ReadFails, ReadListing, ReadToEnd, CheckGetNextWriteBuffer, ReadFile, FinalizeWrite,
             ReadResumeTest, EndResumeTest, ReadDuringUpload, Discard, Reading, Receives, CanWrite,
             Iterates, Awaits, Succeeds, Fails, ResetSocket, NoEvents, AwaitsAio, LeavesReceive, Returns,
             Fresh, Silent, Blocked, EndedLinks, ReadToken, ReadQueued, ReadWaits, Ended, Ranges, Names, Queues, Counters
<1>4. CASE SendTurns
  BY <1>4 DEF SendTurns, CheckGetNextReadBuffer, ShutDown, Write, WritesAgain, WriteFails, Sends,
             Iterates, Awaits, Succeeds, Fails, ResetSocket, NoEvents, AwaitsAio, Returns,
             Fresh, Silent, Blocked, EndedLinks, ReadToken, ReadQueued, ReadWaits, Ended, Ranges, Names, Queues, Counters
<1>5. CASE Environment
  BY <1>5 DEF Environment, PeerSends, PeerCloses, SocketReadable, SocketWritable, AioReady,
             Fresh, Silent, Blocked, EndedLinks, ReadToken, ReadQueued, ReadWaits, Ended, Ranges, Names, Queues, Counters
<1>6. CASE UNCHANGED socketVars
  BY <1>6 DEF socketVars,
             Fresh, Silent, Blocked, EndedLinks, ReadToken, ReadQueued, ReadWaits, Ended, Ranges, Names, Queues, Counters
<1>7. QED
  BY <1>1, <1>2, <1>3, <1>4, <1>5, <1>6, StepCases

LEMMA NextWriteToken ==
    ASSUME Ranges, Silent, Fresh, Blocked, EndedLinks, WriteToken, Flags, [SocketNext]_socketVars
    PROVE  WriteToken' /\ writeEvents' \in [WriteSources -> Nat] /\ aioEvents' \in Nat
<1> USE NoWrites DEF flags, events, handler, peer, data, setup, aio, Flags, WriteSources
<1>1. CASE Calls
  <2> USE DEF Idle, TriggerPostponedEvents, RunReceive, RunSend, NoEvents, Fresh, Silent, Blocked, EndedLinks, WriteToken, Sending, One, WriteQueued, WriteWaits, Ended, Ranges, Names, Queues, Counters
  <2>1. CASE SetupActiveTransfer
    BY <2>1 DEF SetupActiveTransfer
  <2>2. CASE SetupPassiveTransfer
    BY <2>2 DEF SetupPassiveTransfer
  <2>3. CASE SetActive
    BY <2>3 DEF SetActive
  <2>4. CASE ContinueWithoutSessionResumption
    BY <2>4 DEF ContinueWithoutSessionResumption
  <2>5. CASE Destroy
    BY <2>5 DEF Destroy
  <2>6. QED
    BY <1>1, <2>1, <2>2, <2>3, <2>4, <2>5 DEF Calls
<1>2. CASE Handlers
  <2>1. CASE OnAccept
    <3>1. CASE link' = "connecting" /\ UNCHANGED <<flags, events, handler, acceptedPlain>>
      BY <2>1, <3>1 DEF OnAccept, Fresh, Silent, Blocked, EndedLinks, WriteToken, Sending, One, WriteQueued, WriteWaits, Ended, Ranges, Names, Queues, Counters
    <3>2. CASE handshake = "fine" /\ acceptedPlain' = TRUE /\ OnConnect([NoWriteEvents EXCEPT !["handler_set"] = 1])
      <4>1. PICK w : w = [NoWriteEvents EXCEPT !["handler_set"] = 1]
        OBVIOUS
      <4>2. OnConnect(w) /\ handshake = "fine"
        BY <3>2, <4>1
      <4>3. QED
        BY <2>1, <3>2, <4>1, <4>2, HandlerSet DEF OnAccept, OnConnect, OnSend, RunSend, Fresh, Silent, Blocked, EndedLinks, WriteToken, Sending, One, WriteQueued, WriteWaits, Ended, Ranges, Names, Queues, Counters
    <3>3. CASE Fails("transfer_failure") /\ UNCHANGED <<flags, handler, acceptedPlain>>
      BY <2>1, <3>3 DEF OnAccept, Fails, ResetSocket, NoEvents, Fresh, Silent, Blocked, EndedLinks, WriteToken, Sending, One, WriteQueued, WriteWaits, Ended, Ranges, Names, Queues, Counters
    <3>4. QED
      BY <2>1, <3>1, <3>2, <3>3 DEF OnAccept
  <2>2. CASE OnConnectionEvent
    BY <2>2 DEF OnConnectionEvent, OnConnect, OnSend, RunSend, Fails, ResetSocket, NoEvents, Idle, Fresh, Silent, Blocked, EndedLinks, WriteToken, Sending, One, WriteQueued, WriteWaits, Ended, Ranges, Names, Queues, Counters
  <2>3. CASE OnSocketError
    BY <2>3 DEF OnSocketError, Fails, ResetSocket, NoEvents, Idle, Fresh, Silent, Blocked, EndedLinks, WriteToken, Sending, One, WriteQueued, WriteWaits, Ended, Ranges, Names, Queues, Counters
  <2>4. CASE OnAio
    BY <2>4 DEF OnAio, RunReceive, RunSend, Idle, Fresh, Silent, Blocked, EndedLinks, WriteToken, Sending, One, WriteQueued, WriteWaits, Ended, Ranges, Names, Queues, Counters
  <2>5. ASSUME NEW from \in {"socket", "own"}, OnReadEvent(from)
        PROVE  WriteToken' /\ writeEvents' \in [WriteSources -> Nat] /\ aioEvents' \in Nat
    BY <2>5 DEF OnReadEvent, OnReceive, RunReceive, Idle, Fresh, Silent, Blocked, EndedLinks, WriteToken, Sending, One, WriteQueued, WriteWaits, Ended, Ranges, Names, Queues, Counters
  <2>6. ASSUME NEW from \in WriteSources, OnWriteEvent(from)
        PROVE  WriteToken' /\ writeEvents' \in [WriteSources -> Nat] /\ aioEvents' \in Nat
    <3> USE DEF OnWriteEvent, OnSend, RunSend, Idle, Fresh, Silent, Blocked, EndedLinks, WriteToken, Sending, One, WriteQueued, WriteWaits, Ended, Ranges, Names, Queues, Counters
    <3>1. PICK w \in [WriteSources -> 0..2] : w = writeEvents
      OBVIOUS
    <3>2. w[from] > 0 /\ writeEvents' = [w EXCEPT ![from] = w[from] - 1]
      BY <2>6, <3>1
    <3>3. PICK v : v = [w EXCEPT ![from] = w[from] - 1]
      OBVIOUS
    <3>4. /\ v \in [WriteSources -> Nat]
          /\ v["own"] + v["socket"] + v["handler_set"] = w["own"] + w["socket"] + w["handler_set"] - 1
          /\ from # "socket" => v["socket"] = w["socket"]
      <4>1. from \in {"socket", "own", "handler_set"} /\ w["own"] \in 0..2 /\ w["socket"] \in 0..2 /\ w["handler_set"] \in 0..2
        OBVIOUS
      <4>2. QED
        BY <3>2, <3>3, <4>1
    <3>5. writeEvents' = v
      BY <3>2, <3>3
    <3> HIDE DEF OnSend, RunSend
    <3>6. aioEvents' \in Nat
      BY <2>6
    <3>7. UNCHANGED <<waiting, handler_waiting_, aioEvents, m_transferMode, acceptedPlain>>
      BY <2>6
    <3>8. WriteWaits' = WriteWaits /\ One("write" \in waiting)' = One("write" \in waiting) /\ One(acceptedPlain)' = One(acceptedPlain)
      BY <3>7
    <3>9. Sending' <= Sending + 1 /\ Sending \in 0..2 /\ Sending' \in 0..2
      <4>1. CASE activity_block_ > 0 /\ m_postponedSend' = TRUE /\ UNCHANGED handler
        BY <4>1
      <4>2. CASE activity_block_ = 0 /\ alsoSend' = FALSE /\ UNCHANGED m_postponedSend
        BY <4>2
      <4>3. QED
        BY <2>6, <4>1, <4>2 DEF OnSend, RunSend
    <3>10. WriteQueued' = WriteQueued - 1 /\ WriteQueued \in Nat
      <4>1. w["own"] \in Nat /\ w["socket"] \in Nat /\ w["handler_set"] \in Nat
        BY <3>1
      <4>2. QED
        BY <3>1, <3>4, <3>5, <4>1
    <3>11. WriteWaits \in Nat /\ One("write" \in waiting) \in Nat /\ One(acceptedPlain) \in Nat
      OBVIOUS
    <3>12. Sending + WriteQueued + One("write" \in waiting) + WriteWaits <= 1 + One(acceptedPlain)
      BY DEF WriteToken
    <3>13. ("write" \in again /\ ~acceptedPlain => "write" \in waiting \/ writeEvents["socket"] > 0)'
      <4>1. "write" \in again' => "write" \in again /\ from # "socket"
        BY <2>6
      <4>2. "write" \in again /\ ~acceptedPlain => "write" \in waiting \/ w["socket"] > 0
        BY <3>1 DEF WriteToken
      <4>3. from # "socket" => v["socket"] = w["socket"]
        BY <3>4
      <4>4. QED
        BY <3>5, <3>7, <4>1, <4>2, <4>3
    <3> HIDE DEF Sending, WriteQueued, WriteWaits, One
    <3>14. (Sending + WriteQueued + One("write" \in waiting) + WriteWaits <= 1 + One(acceptedPlain))'
      BY <3>8, <3>9, <3>10, <3>11, <3>12
    <3>15. WriteToken'
      BY <3>13, <3>14 DEF WriteToken
    <3>16. QED
      BY <3>4, <3>5, <3>6, <3>15
  <2>7. QED
    BY <1>2, <2>1, <2>2, <2>3, <2>4, <2>5, <2>6 DEF Handlers
<1>3. CASE ReceiveTurns
  <2> USE DEF Reading, Receives, CanWrite, LeavesReceive, Returns, Fresh, Silent, Blocked, EndedLinks, WriteToken, Sending, One, WriteQueued, WriteWaits, Ended, Ranges, Names, Queues, Counters
  <2>1. CASE ReadsAgain
    BY <2>1 DEF ReadsAgain, Awaits
  <2>2. CASE ReadFails
    BY <2>2 DEF ReadFails, Fails, ResetSocket, NoEvents
  <2>3. CASE ReadListing
    BY <2>3 DEF ReadListing, Iterates, Fails, ResetSocket, NoEvents
  <2>4. CASE ReadToEnd
    BY <2>4 DEF ReadToEnd, Succeeds
  <2>5. CASE CheckGetNextWriteBuffer
    BY <2>5 DEF CheckGetNextWriteBuffer, AwaitsAio, Fails, ResetSocket, NoEvents
  <2>6. CASE ReadFile
    BY <2>6 DEF ReadFile, Iterates
  <2>7. CASE FinalizeWrite
    BY <2>7 DEF FinalizeWrite, AwaitsAio, Fails, ResetSocket, NoEvents
  <2>8. CASE ReadResumeTest
    BY <2>8 DEF ReadResumeTest, Fails, ResetSocket, NoEvents
  <2>9. CASE EndResumeTest
    BY <2>9 DEF EndResumeTest, Succeeds, Fails, ResetSocket, NoEvents
  <2>10. CASE ReadDuringUpload
    BY <2>10 DEF ReadDuringUpload, Fails, ResetSocket, NoEvents
  <2>11. CASE Discard
    BY <2>11 DEF Discard, Awaits, ResetSocket, NoEvents
  <2>12. QED
    BY <1>3, <2>1, <2>2, <2>3, <2>4, <2>5, <2>6, <2>7, <2>8, <2>9, <2>10, <2>11 DEF ReceiveTurns
<1>4. CASE SendTurns
  <2> USE DEF Sends, Returns, Fresh, Silent, Blocked, EndedLinks, WriteToken, Sending, One, WriteQueued, WriteWaits, Ended, Ranges, Names, Queues, Counters
  <2>1. CASE CheckGetNextReadBuffer
    BY <2>1 DEF CheckGetNextReadBuffer, AwaitsAio, Fails, ResetSocket, NoEvents
  <2>2. CASE ShutDown
    BY <2>2 DEF ShutDown, Succeeds, Awaits, Fails, ResetSocket, NoEvents
  <2>3. CASE Write
    BY <2>3 DEF Write, Iterates
  <2>4. CASE WritesAgain
    BY <2>4 DEF WritesAgain, Awaits
  <2>5. CASE WriteFails
    BY <2>5 DEF WriteFails, Fails, ResetSocket, NoEvents
  <2>6. QED
    BY <1>4, <2>1, <2>2, <2>3, <2>4, <2>5 DEF SendTurns
<1>5. CASE Environment
  BY <1>5 DEF Environment, PeerSends, PeerCloses, SocketReadable, SocketWritable, AioReady,
             Fresh, Silent, Blocked, EndedLinks, WriteToken, Sending, One, WriteQueued, WriteWaits, Ended, Ranges, Names, Queues, Counters
<1>6. CASE UNCHANGED socketVars
  BY <1>6 DEF socketVars,
             Fresh, Silent, Blocked, EndedLinks, WriteToken, Sending, One, WriteQueued, WriteWaits, Ended, Ranges, Names, Queues, Counters
<1>7. QED
  BY <1>1, <1>2, <1>3, <1>4, <1>5, <1>6, StepCases

LEMMA NextConsentComesFirst ==
    ASSUME Ranges, Silent, Fresh, Blocked, EndedLinks, ConsentComesFirst, [SocketNext]_socketVars
    PROVE  ConsentComesFirst'
<1> USE DEF flags, events, handler, peer, data, setup, aio
<1>1. CASE Calls
  BY <1>1 DEF Calls, SetupActiveTransfer, SetupPassiveTransfer, SetActive, ContinueWithoutSessionResumption, Destroy, Idle,
             TriggerPostponedEvents, RunReceive, RunSend, NoEvents, AwaitsAio,
             Silent, Blocked, ConsentComesFirst, Ranges, Counters
<1>2. CASE Handlers
  BY <1>2 DEF Handlers, OnAccept, OnConnectionEvent, OnConnect, OnSocketError, OnReadEvent, OnWriteEvent, OnAio, Idle,
             OnReceive, OnSend, RunReceive, RunSend, Fails, ResetSocket, NoEvents, AwaitsAio,
             Silent, Blocked, ConsentComesFirst, Ranges, Counters
<1>3. CASE ReceiveTurns
  BY <1>3 DEF ReceiveTurns, ReadsAgain, ReadFails, ReadListing, ReadToEnd, CheckGetNextWriteBuffer, ReadFile, FinalizeWrite,
             ReadResumeTest, EndResumeTest, ReadDuringUpload, Discard, Reading, Receives, CanWrite,
             Iterates, Awaits, Succeeds, Fails, ResetSocket, NoEvents, AwaitsAio, LeavesReceive, Returns,
             Silent, Blocked, ConsentComesFirst, Ranges, Counters
<1>4. CASE SendTurns
  BY <1>4 DEF SendTurns, CheckGetNextReadBuffer, ShutDown, Write, WritesAgain, WriteFails, Sends,
             Iterates, Awaits, Succeeds, Fails, ResetSocket, NoEvents, AwaitsAio, Returns,
             Silent, Blocked, ConsentComesFirst, Ranges, Counters
<1>5. CASE Environment
  BY <1>5 DEF Environment, PeerSends, PeerCloses, SocketReadable, SocketWritable, AioReady,
             Silent, Blocked, ConsentComesFirst, Ranges, Counters
<1>6. CASE UNCHANGED socketVars
  BY <1>6 DEF socketVars,
             Silent, Blocked, ConsentComesFirst, Ranges, Counters
<1>7. QED
  BY <1>1, <1>2, <1>3, <1>4, <1>5, <1>6, StepCases

LEMMA NextCounted ==
    ASSUME Ranges, Silent, Fresh, Blocked, EndedLinks, Counted, [SocketNext]_socketVars
    PROVE  Counted'
<1> USE ConstantsAssumption DEF flags, events, handler, peer, data, setup, aio
<1>1. CASE Calls
  BY <1>1 DEF Calls, SetupActiveTransfer, SetupPassiveTransfer, SetActive, ContinueWithoutSessionResumption, Destroy, Idle,
             TriggerPostponedEvents, RunReceive, RunSend, NoEvents, AwaitsAio,
             Counted, InBuffer, Fresh, EndedLinks, Ended, Ranges, Names, Queues, Counters, NoBuffer
<1>2. CASE Handlers
  BY <1>2 DEF Handlers, OnAccept, OnConnectionEvent, OnConnect, OnSocketError, OnReadEvent, OnWriteEvent, OnAio, Idle,
             OnReceive, OnSend, RunReceive, RunSend, Fails, ResetSocket, NoEvents, AwaitsAio,
             Counted, InBuffer, Fresh, EndedLinks, Ended, Ranges, Names, Queues, Counters, NoBuffer
<1>3. CASE ReceiveTurns
  BY <1>3 DEF ReceiveTurns, ReadsAgain, ReadFails, ReadListing, ReadToEnd, CheckGetNextWriteBuffer, ReadFile, FinalizeWrite,
             ReadResumeTest, EndResumeTest, ReadDuringUpload, Discard, Reading, Receives, CanWrite,
             Iterates, Awaits, Succeeds, Fails, ResetSocket, NoEvents, AwaitsAio, LeavesReceive, Returns,
             Counted, InBuffer, Fresh, EndedLinks, Ended, Ranges, Names, Queues, Counters, NoBuffer
<1>4. CASE SendTurns
  BY <1>4 DEF SendTurns, CheckGetNextReadBuffer, ShutDown, Write, WritesAgain, WriteFails, Sends,
             Iterates, Awaits, Succeeds, Fails, ResetSocket, NoEvents, AwaitsAio, Returns,
             Counted, InBuffer, Fresh, EndedLinks, Ended, Ranges, Names, Queues, Counters, NoBuffer
<1>5. CASE Environment
  BY <1>5 DEF Environment, PeerSends, PeerCloses, SocketReadable, SocketWritable, AioReady,
             Counted, InBuffer, Fresh, EndedLinks, Ended, Ranges, Names, Queues, Counters, NoBuffer
<1>6. CASE UNCHANGED socketVars
  BY <1>6 DEF socketVars,
             Counted, InBuffer, Fresh, EndedLinks, Ended, Ranges, Names, Queues, Counters, NoBuffer
<1>7. QED
  BY <1>1, <1>2, <1>3, <1>4, <1>5, <1>6, StepCases

LEMMA NextNames ==
    ASSUME Ranges, Silent, Fresh, Blocked, EndedLinks, [SocketNext]_socketVars
    PROVE  Names'
<1> USE DEF flags, events, handler, peer, data, setup, aio
<1>1. CASE Calls
  BY <1>1 DEF Calls, SetupActiveTransfer, SetupPassiveTransfer, SetActive, ContinueWithoutSessionResumption, Destroy, Idle,
             TriggerPostponedEvents, RunReceive, RunSend, NoEvents, AwaitsAio,
             Ranges, Names, EndReasons, Silent, Ended
<1>2. CASE Handlers
  BY <1>2 DEF Handlers, OnAccept, OnConnectionEvent, OnConnect, OnSocketError, OnReadEvent, OnWriteEvent, OnAio, Idle,
             OnReceive, OnSend, RunReceive, RunSend, Fails, ResetSocket, NoEvents, AwaitsAio,
             Ranges, Names, EndReasons, Silent, Ended
<1>3. CASE ReceiveTurns
  BY <1>3 DEF ReceiveTurns, ReadsAgain, ReadFails, ReadListing, ReadToEnd, CheckGetNextWriteBuffer, ReadFile, FinalizeWrite,
             ReadResumeTest, EndResumeTest, ReadDuringUpload, Discard, Reading, Receives, CanWrite,
             Iterates, Awaits, Succeeds, Fails, ResetSocket, NoEvents, AwaitsAio, LeavesReceive, Returns,
             Ranges, Names, EndReasons, Silent, Ended
<1>4. CASE SendTurns
  BY <1>4 DEF SendTurns, CheckGetNextReadBuffer, ShutDown, Write, WritesAgain, WriteFails, Sends,
             Iterates, Awaits, Succeeds, Fails, ResetSocket, NoEvents, AwaitsAio, Returns,
             Ranges, Names, EndReasons, Silent, Ended
<1>5. CASE Environment
  BY <1>5 DEF Environment, PeerSends, PeerCloses, SocketReadable, SocketWritable, AioReady,
             Ranges, Names, EndReasons, Silent, Ended
<1>6. CASE UNCHANGED socketVars
  BY <1>6 DEF socketVars,
             Ranges, Names, EndReasons, Silent, Ended
<1>7. QED
  BY <1>1, <1>2, <1>3, <1>4, <1>5, <1>6, StepCases

LEMMA NextQueues ==
    ASSUME Ranges, Silent, Fresh, Blocked, EndedLinks, [SocketNext]_socketVars
    PROVE  (readEvents \subseteq {"socket", "own"} /\ waiting \subseteq {"read", "write"} /\ again \subseteq {"read", "write"})'
<1> USE DEF flags, events, handler, peer, data, setup, aio
<1>1. CASE Calls
  BY <1>1 DEF Calls, SetupActiveTransfer, SetupPassiveTransfer, SetActive, ContinueWithoutSessionResumption, Destroy, Idle,
             TriggerPostponedEvents, RunReceive, RunSend, NoEvents, AwaitsAio,
             Ranges, Queues
<1>2. CASE Handlers
  BY <1>2 DEF Handlers, OnAccept, OnConnectionEvent, OnConnect, OnSocketError, OnReadEvent, OnWriteEvent, OnAio, Idle,
             OnReceive, OnSend, RunReceive, RunSend, Fails, ResetSocket, NoEvents, AwaitsAio,
             Ranges, Queues
<1>3. CASE ReceiveTurns
  BY <1>3 DEF ReceiveTurns, ReadsAgain, ReadFails, ReadListing, ReadToEnd, CheckGetNextWriteBuffer, ReadFile, FinalizeWrite,
             ReadResumeTest, EndResumeTest, ReadDuringUpload, Discard, Reading, Receives, CanWrite,
             Iterates, Awaits, Succeeds, Fails, ResetSocket, NoEvents, AwaitsAio, LeavesReceive, Returns,
             Ranges, Queues
<1>4. CASE SendTurns
  BY <1>4 DEF SendTurns, CheckGetNextReadBuffer, ShutDown, Write, WritesAgain, WriteFails, Sends,
             Iterates, Awaits, Succeeds, Fails, ResetSocket, NoEvents, AwaitsAio, Returns,
             Ranges, Queues
<1>5. CASE Environment
  BY <1>5 DEF Environment, PeerSends, PeerCloses, SocketReadable, SocketWritable, AioReady,
             Ranges, Queues
<1>6. CASE UNCHANGED socketVars
  BY <1>6 DEF socketVars,
             Ranges, Queues
<1>7. QED
  BY <1>1, <1>2, <1>3, <1>4, <1>5, <1>6, StepCases

LEMMA NextCounters ==
    ASSUME Ranges, Silent, Fresh, Blocked, EndedLinks, Counted, [SocketNext]_socketVars
    PROVE  Counters'
<1> USE ConstantsAssumption DEF flags, events, handler, peer, data, setup, aio
<1>1. CASE Calls
  BY <1>1 DEF Calls, SetupActiveTransfer, SetupPassiveTransfer, SetActive, ContinueWithoutSessionResumption, Destroy, Idle,
             TriggerPostponedEvents, RunReceive, RunSend, NoEvents, AwaitsAio,
             Ranges, Names, Counters, Counted, InBuffer, Fresh, Silent, Blocked, EndedLinks, Ended, NoBuffer
<1>2. CASE Handlers
  BY <1>2 DEF Handlers, OnAccept, OnConnectionEvent, OnConnect, OnSocketError, OnReadEvent, OnWriteEvent, OnAio, Idle,
             OnReceive, OnSend, RunReceive, RunSend, Fails, ResetSocket, NoEvents, AwaitsAio,
             Ranges, Names, Counters, Counted, InBuffer, Fresh, Silent, Blocked, EndedLinks, Ended, NoBuffer
<1>3. CASE ReceiveTurns
  BY <1>3 DEF ReceiveTurns, ReadsAgain, ReadFails, ReadListing, ReadToEnd, CheckGetNextWriteBuffer, ReadFile, FinalizeWrite,
             ReadResumeTest, EndResumeTest, ReadDuringUpload, Discard, Reading, Receives, CanWrite,
             Iterates, Awaits, Succeeds, Fails, ResetSocket, NoEvents, AwaitsAio, LeavesReceive, Returns,
             Ranges, Names, Counters, Counted, InBuffer, Fresh, Silent, Blocked, EndedLinks, Ended, NoBuffer
<1>4. CASE SendTurns
  BY <1>4 DEF SendTurns, CheckGetNextReadBuffer, ShutDown, Write, WritesAgain, WriteFails, Sends,
             Iterates, Awaits, Succeeds, Fails, ResetSocket, NoEvents, AwaitsAio, Returns,
             Ranges, Names, Counters, Counted, InBuffer, Fresh, Silent, Blocked, EndedLinks, Ended, NoBuffer
<1>5. CASE Environment
  BY <1>5 DEF Environment, PeerSends, PeerCloses, SocketReadable, SocketWritable, AioReady,
             Ranges, Names, Counters, Counted, InBuffer, Fresh, Silent, Blocked, EndedLinks, Ended, NoBuffer
<1>6. CASE UNCHANGED socketVars
  BY <1>6 DEF socketVars,
             Ranges, Names, Counters, Counted, InBuffer, Fresh, Silent, Blocked, EndedLinks, Ended, NoBuffer
<1>7. QED
  BY <1>1, <1>2, <1>3, <1>4, <1>5, <1>6, StepCases

LEMMA NextFlags ==
    ASSUME Flags, [SocketNext]_socketVars
    PROVE  Flags'
<1> USE DEF flags, events, handler, peer, data, setup, aio
<1>1. CASE Calls
  BY <1>1 DEF Calls, SetupActiveTransfer, SetupPassiveTransfer, SetActive, ContinueWithoutSessionResumption, Destroy, Idle,
             TriggerPostponedEvents, RunReceive, RunSend, NoEvents, AwaitsAio,
             Flags
<1>2. CASE Handlers
  <2>1. CASE OnAccept
    BY <2>1 DEF OnAccept, OnConnect, OnSend, RunSend, Fails, ResetSocket, NoEvents, Idle, Flags
  <2>2. CASE OnConnectionEvent
    BY <2>2 DEF OnConnectionEvent, OnConnect, OnSend, RunSend, Fails, ResetSocket, NoEvents, Idle, Flags
  <2>3. CASE OnSocketError
    BY <2>3 DEF OnSocketError, Fails, ResetSocket, NoEvents, Idle, Flags
  <2>4. CASE OnAio
    BY <2>4 DEF OnAio, RunReceive, RunSend, Idle, Flags
  <2>5. ASSUME NEW from \in {"socket", "own"}, OnReadEvent(from)
        PROVE  Flags'
    BY <2>5 DEF OnReadEvent, OnReceive, RunReceive, Idle, Flags
  <2>6. ASSUME NEW from \in WriteSources, OnWriteEvent(from)
        PROVE  Flags'
    BY <2>6 DEF OnWriteEvent, OnSend, RunSend, Idle, Flags
  <2>7. QED
    BY <1>2, <2>1, <2>2, <2>3, <2>4, <2>5, <2>6 DEF Handlers
<1>3. CASE ReceiveTurns
  <2> USE DEF Reading, Receives, CanWrite, LeavesReceive, Returns, Flags
  <2>1. CASE ReadsAgain
    BY <2>1 DEF ReadsAgain, Awaits
  <2>2. CASE ReadFails
    BY <2>2 DEF ReadFails, Fails, ResetSocket, NoEvents
  <2>3. CASE ReadListing
    BY <2>3 DEF ReadListing, Iterates, Fails, ResetSocket, NoEvents
  <2>4. CASE ReadToEnd
    BY <2>4 DEF ReadToEnd, Succeeds
  <2>5. CASE CheckGetNextWriteBuffer
    BY <2>5 DEF CheckGetNextWriteBuffer, AwaitsAio, Fails, ResetSocket, NoEvents
  <2>6. CASE ReadFile
    BY <2>6 DEF ReadFile, Iterates
  <2>7. CASE FinalizeWrite
    BY <2>7 DEF FinalizeWrite, AwaitsAio, Fails, ResetSocket, NoEvents
  <2>8. CASE ReadResumeTest
    BY <2>8 DEF ReadResumeTest, Fails, ResetSocket, NoEvents
  <2>9. CASE EndResumeTest
    BY <2>9 DEF EndResumeTest, Succeeds, Fails, ResetSocket, NoEvents
  <2>10. CASE ReadDuringUpload
    BY <2>10 DEF ReadDuringUpload, Fails, ResetSocket, NoEvents
  <2>11. CASE Discard
    BY <2>11 DEF Discard, Awaits, ResetSocket, NoEvents
  <2>12. QED
    BY <1>3, <2>1, <2>2, <2>3, <2>4, <2>5, <2>6, <2>7, <2>8, <2>9, <2>10, <2>11 DEF ReceiveTurns
<1>4. CASE SendTurns
  <2> USE DEF Sends, Returns, Flags
  <2>1. CASE CheckGetNextReadBuffer
    BY <2>1 DEF CheckGetNextReadBuffer, AwaitsAio, Fails, ResetSocket, NoEvents
  <2>2. CASE ShutDown
    BY <2>2 DEF ShutDown, Succeeds, Awaits, Fails, ResetSocket, NoEvents
  <2>3. CASE Write
    BY <2>3 DEF Write, Iterates
  <2>4. CASE WritesAgain
    BY <2>4 DEF WritesAgain, Awaits
  <2>5. CASE WriteFails
    BY <2>5 DEF WriteFails, Fails, ResetSocket, NoEvents
  <2>6. QED
    BY <1>4, <2>1, <2>2, <2>3, <2>4, <2>5 DEF SendTurns
<1>5. CASE Environment
  BY <1>5 DEF Environment, PeerSends, PeerCloses, SocketReadable, SocketWritable, AioReady,
             Flags
<1>6. CASE UNCHANGED socketVars
  BY <1>6 DEF socketVars,
             Flags
<1>7. QED
  BY <1>1, <1>2, <1>3, <1>4, <1>5, <1>6, StepCases

LEMMA NextComplete ==
    ASSUME Ranges, Silent, Fresh, Blocked, EndedLinks, Counted, Complete, [SocketNext]_socketVars
    PROVE  Complete'
<1> USE ConstantsAssumption DEF flags, events, handler, peer, data, setup, aio
<1>1. CASE Calls
  BY <1>1 DEF Calls, SetupActiveTransfer, SetupPassiveTransfer, SetActive, ContinueWithoutSessionResumption, Destroy, Idle,
             TriggerPostponedEvents, RunReceive, RunSend, NoEvents, AwaitsAio,
             Complete, Counted, InBuffer, EndedLinks, Ended, Ranges, Names, Counters, NoBuffer
<1>2. CASE Handlers
  BY <1>2 DEF Handlers, OnAccept, OnConnectionEvent, OnConnect, OnSocketError, OnReadEvent, OnWriteEvent, OnAio, Idle,
             OnReceive, OnSend, RunReceive, RunSend, Fails, ResetSocket, NoEvents, AwaitsAio,
             Complete, Counted, InBuffer, EndedLinks, Ended, Ranges, Names, Counters, NoBuffer
<1>3. CASE ReceiveTurns
  BY <1>3 DEF ReceiveTurns, ReadsAgain, ReadFails, ReadListing, ReadToEnd, CheckGetNextWriteBuffer, ReadFile, FinalizeWrite,
             ReadResumeTest, EndResumeTest, ReadDuringUpload, Discard, Reading, Receives, CanWrite,
             Iterates, Awaits, Succeeds, Fails, ResetSocket, NoEvents, AwaitsAio, LeavesReceive, Returns,
             Complete, Counted, InBuffer, EndedLinks, Ended, Ranges, Names, Counters, NoBuffer
<1>4. CASE SendTurns
  BY <1>4 DEF SendTurns, CheckGetNextReadBuffer, ShutDown, Write, WritesAgain, WriteFails, Sends,
             Iterates, Awaits, Succeeds, Fails, ResetSocket, NoEvents, AwaitsAio, Returns,
             Complete, Counted, InBuffer, EndedLinks, Ended, Ranges, Names, Counters, NoBuffer
<1>5. CASE Environment
  BY <1>5 DEF Environment, PeerSends, PeerCloses, SocketReadable, SocketWritable, AioReady,
             Complete, Counted, InBuffer, EndedLinks, Ended, Ranges, Names, Counters, NoBuffer
<1>6. CASE UNCHANGED socketVars
  BY <1>6 DEF socketVars,
             Complete, Counted, InBuffer, EndedLinks, Ended, Ranges, Names, Counters, NoBuffer
<1>7. QED
  BY <1>1, <1>2, <1>3, <1>4, <1>5, <1>6, StepCases

-----------------------------------------------------------------------------
(* The specification keeps the invariant. *)

LEMMA InitSocketIInv == SocketInit => SocketIInv /\ Flags
<1> SUFFICES ASSUME SocketInit
             PROVE  SocketIInv /\ Flags
  OBVIOUS
<1> USE ConstantsAssumption, NoWrites
<1>1. Ranges
  BY DEF SocketInit, Ranges, Names, Queues, Counters, EndReasons, NoBuffer
<1>2. Flags
  BY DEF SocketInit, Flags
<1>3. Fresh /\ Silent /\ Blocked /\ EndedLinks
  BY DEF SocketInit, Fresh, Silent, Blocked, EndedLinks, Ended
<1>4. ReadToken /\ WriteToken
  BY DEF SocketInit, ReadToken, ReadQueued, ReadWaits, WriteToken, WriteQueued, WriteWaits, Sending, One
<1>5. Counted /\ Complete /\ ConsentComesFirst
  BY DEF SocketInit, Counted, InBuffer, Complete, ConsentComesFirst, Ended
<1>6. QED
  BY <1>1, <1>2, <1>3, <1>4, <1>5 DEF SocketIInv

LEMMA NextSocketIInv == SocketIInv /\ Flags /\ [SocketNext]_socketVars => SocketIInv' /\ Flags'
<1> SUFFICES ASSUME SocketIInv, Flags, [SocketNext]_socketVars
             PROVE  SocketIInv' /\ Flags'
  OBVIOUS
<1> USE DEF SocketIInv
<1>1. Names' /\ Counters' /\ Flags'
  BY NextNames, NextCounters, NextFlags
<1>2. Fresh' /\ Silent' /\ Blocked' /\ EndedLinks'
  BY NextFresh, NextSilent, NextBlocked, NextEndedLinks
<1>3. ReadToken' /\ WriteToken'
  BY NextReadToken, NextWriteToken
<1>4. Counted' /\ Complete' /\ ConsentComesFirst'
  BY NextCounted, NextComplete, NextConsentComesFirst
<1>5. Queues'
  <2>1. writeEvents' \in [WriteSources -> Nat] /\ aioEvents' \in Nat
    BY NextWriteToken
  <2>2. writeEvents' \in [WriteSources -> 0..2] /\ aioEvents' \in 0..2
    <3>1. PICK w \in [WriteSources -> Nat] : w = writeEvents'
      BY <2>1
    <3>2. w["own"] \in Nat /\ w["socket"] \in Nat /\ w["handler_set"] \in Nat
      BY DEF WriteSources
    <3>3. w["own"] + w["socket"] + w["handler_set"] + (IF m_transferMode' = "upload" THEN aioEvents' ELSE 0) <= 2
      BY <1>3, <2>1, <3>1, <3>2 DEF WriteToken, Sending, One, WriteQueued, WriteWaits
    <3>4. w \in [WriteSources -> 0..2]
      BY <2>1, <3>2, <3>3 DEF WriteSources
    <3>5. aioEvents' \in 0..2
      BY <1>3, <2>1, <3>2, <3>3 DEF ReadToken
    <3>6. QED
      BY <3>1, <3>4, <3>5
  <2>3. QED
    BY <2>2, NextQueues DEF Queues
<1>6. QED
  BY <1>1, <1>2, <1>3, <1>4, <1>5 DEF Ranges

(* The inductive invariant: the tokens, the count of activity_block_, and where each
   unit of data is. *)
THEOREM SocketInvariant == SocketSpec => [](SocketIInv /\ Flags)
<1>1. SocketInit => SocketIInv /\ Flags
  BY InitSocketIInv
<1>2. SocketIInv /\ Flags /\ [SocketNext]_socketVars => SocketIInv' /\ Flags'
  BY NextSocketIInv
<1>3. QED
  BY <1>1, <1>2, PTL DEF SocketSpec

(* The fields of the transfer socket keep their types: activity_block_ is never
   decremented below zero and no buffer is overfilled. *)
THEOREM SocketTypeCorrect == SocketSpec => []SocketTypeOK
<1>1. SocketIInv /\ Flags => SocketTypeOK
  BY DEF SocketIInv, Ranges, SocketTypeOK
<1>2. QED
  BY <1>1, SocketInvariant, PTL

(* TransferEnd(successful) is called only when all of the data has been handed over
   to the parser or the writer, or written to the connection. *)
THEOREM SuccessMeansComplete == SocketSpec => []SuccessIsComplete
<1>1. SocketIInv => SuccessIsComplete
  BY ConstantsAssumption DEF SocketIInv, Ranges, Names, Complete, SuccessIsComplete
<1>2. QED
  BY <1>1, SocketInvariant, PTL

(* OnReceive and OnSend move no data before SetActive, nor before the user's answer if
   the TLS session was not resumed. *)
THEOREM ConsentAlwaysComesFirst == SocketSpec => []ConsentComesFirst
<1>1. SocketIInv => ConsentComesFirst
  BY DEF SocketIInv
<1>2. QED
  BY <1>1, SocketInvariant, PTL

(* OnReceive never repeats a read that said EAGAIN before the event of the socket has
   come, OnSend never repeats a write, except on an accepted connection without TLS,
   and neither runs without a connection. *)
THEOREM ReadsAndWritesDoWait == SocketSpec => []ReadsAndWritesWaitForEvents
<1>1. SocketIInv => ReadsAndWritesWaitForEvents
  BY DEF SocketIInv, ReadsAndWritesWaitForEvents, Silent, ReadToken, ReadQueued, WriteToken, WriteQueued, WriteWaits,
         Sending, One, Ranges, Queues, WriteSources
<1>2. QED
  BY <1>1, SocketInvariant, PTL

-----------------------------------------------------------------------------
(* CTransferStatusManager. *)

(* The status is there as long as something is transferred. *)
OpenDuringTransfer == status_.open <=> kind # "none" /\ ending # "cleared"

(* While ResetOperation runs there is an operation, and nothing moves once the
   status is cleared. *)
EndOfTransfer ==
    /\ ending # "no" => kind # "none"
    /\ ending = "cleared" => updater = "idle"

(* The inductive invariant.  The type of the counters rests on
   EverythingCounted: their sum is bounded only because each unit is in one of
   them, and CounterIsWatched is what UpdateAdd relies on when it finds a counter
   that is not zero and does not take the mutex. *)
IInv == TypeOK /\ OpenDuringTransfer /\ EndOfTransfer /\ EverythingCounted /\ CounterIsWatched

LEMMA StartIInv == Start => IInv
<1> SUFFICES ASSUME Start PROVE IInv
  OBVIOUS
<1>1. NoStatus \in Statuses /\ NoStatus.open = FALSE
  BY BoundsAssumption DEF NoStatus, Statuses
<1>2. TypeOK
  <2>1. /\ made_progress_ \in BOOLEAN /\ timer \in BOOLEAN
        /\ m_maySendNotificationEvent \in BOOLEAN /\ told \in BOOLEAN /\ asking \in BOOLEAN
    BY DEF Start
  <2>2. currentOffset_ \in 0..MaxUpdates /\ sum \in 0..MaxUpdates /\ inits \in 0..MaxInits
    BY BoundsAssumption DEF Start
  <2>3. send_state_ \in 0..2 /\ m_madeProgress \in 0..2
    BY DEF Start
  <2>4. status_ \in Statuses /\ notification \in Statuses /\ shown \in Statuses /\ queue \in Seq(Statuses)
    BY <1>1 DEF Start
  <2>5. QED
    BY <2>1, <2>2, <2>3, <2>4 DEF Start, TypeOK
<1>3. QED
  BY <1>1, <1>2 DEF Start, IInv, OpenDuringTransfer, EndOfTransfer, EverythingCounted, CounterIsWatched

(* What Get does to the manager, whoever calls it. *)
LEMMA GetIInv ==
    ASSUME IInv, Get, UNCHANGED <<kind, sum, updater>>,
           ending' = ending \/ (ending = "no" /\ ending' = "logged" /\ kind # "none")
    PROVE  /\ status_' \in Statuses /\ currentOffset_' \in 0..MaxUpdates
           /\ send_state_' \in 0..2 /\ made_progress_' \in BOOLEAN
           /\ (OpenDuringTransfer /\ EndOfTransfer /\ EverythingCounted /\ CounterIsWatched)'
<1>1. CASE status_.open
  <2>1. status_' = Absorbed /\ currentOffset_' = 0
    BY <1>1 DEF Get
  <2>2. status_.offset + currentOffset_ = sum /\ sum \in 0..MaxUpdates /\ status_ \in Statuses
    BY <1>1 DEF IInv, EverythingCounted, TypeOK
  <2>3. Absorbed = [status_ EXCEPT !.offset = sum]
    BY <2>2 DEF Absorbed, Statuses
  <2>4. Absorbed \in Statuses /\ Absorbed.open = status_.open /\ Absorbed.offset = sum
    BY <2>2, <2>3 DEF Statuses
  <2>5. currentOffset_' \in 0..MaxUpdates /\ send_state_' \in 0..2
    BY <2>1, BoundsAssumption DEF Get
  <2>6. made_progress_' \in BOOLEAN
    BY DEF Get, IInv, TypeOK
  <2>7. EverythingCounted' /\ CounterIsWatched'
    BY <2>1, <2>2, <2>4 DEF EverythingCounted, CounterIsWatched
  <2>8. OpenDuringTransfer' /\ EndOfTransfer'
    BY <1>1, <2>1, <2>4 DEF IInv, OpenDuringTransfer, EndOfTransfer
  <2>9. QED
    BY <2>1, <2>4, <2>5, <2>6, <2>7, <2>8
<1>2. CASE ~status_.open
  BY <1>2 DEF Get, IInv, TypeOK, OpenDuringTransfer, EndOfTransfer, EverythingCounted, CounterIsWatched
<1>3. QED
  BY <1>1, <1>2

LEMMA InitIInv ==
    ASSUME IInv, NEW k \in Kinds, Init(k)
    PROVE  IInv'
<1>1. NewStatus(inits + 1) \in Statuses
  BY BoundsAssumption DEF Init, IInv, TypeOK, NewStatus, Statuses
<1>2. status_'.open = TRUE /\ status_'.offset = 0
  BY DEF Init, NewStatus
<1>3. k \in AllKinds /\ k # "none"
  BY KindsAssumption DEF AllKinds
<1>4. TypeOK'
  <2>1. made_progress_' \in BOOLEAN
    BY DEF Init
  <2>2. QED
    BY <1>1, <1>3, <2>1, BoundsAssumption DEF Init, IInv, TypeOK, ui, list
<1>5. QED
  BY <1>2, <1>3, <1>4, BoundsAssumption DEF Init, IInv, OpenDuringTransfer, EndOfTransfer, EverythingCounted, CounterIsWatched

LEMMA AddNotificationType ==
    ASSUME TypeOK, NEW s \in Statuses, AddNotification(s)
    PROVE  /\ queue' \in Seq(Statuses)
           /\ m_maySendNotificationEvent' \in BOOLEAN /\ told' \in BOOLEAN /\ asking' \in BOOLEAN
<1>1. queue' \in Seq(Statuses)
  BY DEF AddNotification, TypeOK
<1>2. m_maySendNotificationEvent' \in BOOLEAN /\ told' \in BOOLEAN /\ asking' \in BOOLEAN
  BY DEF AddNotification, TypeOK
<1>3. QED
  BY <1>1, <1>2

LEMMA LogTransferResultMessageIInv ==
    ASSUME IInv, LogTransferResultMessage
    PROVE  IInv'
<1>1. Get /\ ending = "no" /\ ending' = "logged" /\ kind # "none"
      /\ UNCHANGED <<kind, m_madeProgress, updater, notification, sum, ui, inits>>
  BY DEF LogTransferResultMessage
<1>2. /\ status_' \in Statuses /\ currentOffset_' \in 0..MaxUpdates
      /\ send_state_' \in 0..2 /\ made_progress_' \in BOOLEAN
      /\ (OpenDuringTransfer /\ EndOfTransfer /\ EverythingCounted /\ CounterIsWatched)'
  BY <1>1, GetIInv
<1>3. QED
  BY <1>1, <1>2 DEF IInv, TypeOK, ui, list

LEMMA ResetIInv ==
    ASSUME IInv, Reset
    PROVE  IInv'
<1>1. NoStatus \in Statuses /\ ~NoStatus.open
  BY BoundsAssumption DEF NoStatus, Statuses
<1>2. TypeOK'
  BY <1>1 DEF Reset, IInv, TypeOK, InitialState, ui, list
<1>3. QED
  BY <1>1, <1>2 DEF Reset, IInv, OpenDuringTransfer, EndOfTransfer, EverythingCounted, CounterIsWatched

LEMMA ResetNotifyIInv ==
    ASSUME IInv, ResetNotify
    PROVE  IInv'
<1>1. NoStatus \in Statuses
  BY BoundsAssumption DEF NoStatus, Statuses
<1>2. /\ queue' \in Seq(Statuses)
      /\ m_maySendNotificationEvent' \in BOOLEAN /\ told' \in BOOLEAN /\ asking' \in BOOLEAN
  BY <1>1, AddNotificationType DEF ResetNotify, IInv
<1>3. TypeOK'
  BY <1>2 DEF ResetNotify, IInv, TypeOK, manager
<1>4. QED
  BY <1>3 DEF ResetNotify, manager, IInv, OpenDuringTransfer, EndOfTransfer, EverythingCounted, CounterIsWatched

LEMMA OnSftpTransferIInv ==
    ASSUME IInv, OnSftpTransfer
    PROVE  IInv'
<1>1. status_.open
  BY DEF IInv, OpenDuringTransfer, EndOfTransfer, OnSftpTransfer
<1>2. status_.offset + currentOffset_ = sum /\ sum \in 0..MaxUpdates /\ status_ \in Statuses
  BY <1>1 DEF IInv, EverythingCounted, TypeOK
<1>3. Absorbed = [status_ EXCEPT !.offset = sum]
  BY <1>2 DEF Absorbed, Statuses
<1>4. Absorbed \in Statuses /\ Absorbed.open = status_.open /\ Absorbed.offset = sum
  BY <1>2, <1>3 DEF Statuses
<1>5. made_progress_' \in BOOLEAN
  BY DEF OnSftpTransfer, IInv, TypeOK
<1>6. send_state_' \in 0..2
  BY DEF OnSftpTransfer
<1>7. TypeOK'
  BY <1>4, <1>5, <1>6, BoundsAssumption DEF OnSftpTransfer, IInv, TypeOK, ui, list
<1>8. QED
  BY <1>1, <1>2, <1>4, <1>7 DEF OnSftpTransfer, IInv, OpenDuringTransfer, EndOfTransfer, EverythingCounted, CounterIsWatched, TypeOK

(* The step without the mutex: a counter that is not zero is watched already. *)
LEMMA UpdateAddIInv ==
    ASSUME IInv, UpdateAdd
    PROVE  IInv'
<1>1. status_.open
  BY DEF IInv, OpenDuringTransfer, EndOfTransfer, UpdateAdd
<1>2. /\ status_.offset + currentOffset_ = sum /\ sum \in 0..MaxUpdates /\ sum < MaxUpdates
      /\ status_.offset \in 0..MaxUpdates /\ currentOffset_ \in 0..MaxUpdates
  BY <1>1 DEF IInv, EverythingCounted, TypeOK, Statuses, UpdateAdd
<1>3. currentOffset_' \in 0..MaxUpdates /\ sum' \in 0..MaxUpdates /\ status_.offset + currentOffset_' = sum'
  BY <1>2, BoundsAssumption DEF UpdateAdd
<1>4. made_progress_' \in BOOLEAN
  BY DEF UpdateAdd
<1>5. m_madeProgress' \in 0..2 /\ updater' \in {"idle", "lock", "send"}
  BY DEF UpdateAdd, IInv, TypeOK
<1>6. TypeOK'
  BY <1>3, <1>4, <1>5 DEF UpdateAdd, IInv, TypeOK, ui, list
<1>7. CounterIsWatched'
  BY <1>1, <1>2 DEF UpdateAdd, IInv, CounterIsWatched
<1>8. QED
  BY <1>3, <1>6, <1>7 DEF UpdateAdd, IInv, OpenDuringTransfer, EndOfTransfer, EverythingCounted

LEMMA UpdateLockedIInv ==
    ASSUME IInv, UpdateLocked
    PROVE  IInv'
<1>1. CASE status_.open /\ send_state_ = 0
  <2>1. status_.offset + currentOffset_ = sum /\ sum \in 0..MaxUpdates /\ status_ \in Statuses /\ made_progress_ \in BOOLEAN
    BY <1>1 DEF IInv, EverythingCounted, TypeOK
  <2>2. status_' = [status_ EXCEPT !.offset = sum, !.made = made_progress_]
    BY <1>1, <2>1 DEF UpdateLocked, Absorbed, Statuses
  <2>3. status_' \in Statuses /\ status_'.open = status_.open /\ status_'.offset = sum
    BY <2>1, <2>2 DEF Statuses
  <2>4. TypeOK'
    BY <1>1, <2>3, BoundsAssumption DEF UpdateLocked, IInv, TypeOK, UpdateState, ui, list
  <2>5. QED
    BY <1>1, <2>1, <2>3, <2>4 DEF UpdateLocked, IInv, OpenDuringTransfer, EndOfTransfer, EverythingCounted, CounterIsWatched
<1>2. CASE ~(status_.open /\ send_state_ = 0)
  BY <1>2 DEF UpdateLocked, IInv, TypeOK, UpdateState, ui, list, OpenDuringTransfer, EndOfTransfer, EverythingCounted, CounterIsWatched
<1>3. QED
  BY <1>1, <1>2

LEMMA UpdateSendIInv ==
    ASSUME IInv, UpdateSend
    PROVE  IInv'
<1>1. /\ queue' \in Seq(Statuses)
      /\ m_maySendNotificationEvent' \in BOOLEAN /\ told' \in BOOLEAN /\ asking' \in BOOLEAN
  BY AddNotificationType DEF UpdateSend, IInv, TypeOK
<1>2. QED
  BY <1>1 DEF UpdateSend, IInv, TypeOK, manager, OpenDuringTransfer, EndOfTransfer, EverythingCounted, CounterIsWatched

LEMMA OnNotificationIInv ==
    ASSUME IInv, OnNotification
    PROVE  IInv'
<1>1. Head(queue) \in Statuses /\ Tail(queue) \in Seq(Statuses)
  BY DEF OnNotification, IInv, TypeOK
<1>2. shown' \in Statuses /\ timer' \in BOOLEAN
  BY <1>1 DEF OnNotification, SetTransferStatus, Statuses
<1>3. QED
  BY <1>1, <1>2 DEF OnNotification, IInv, TypeOK, manager, OpenDuringTransfer, EndOfTransfer, EverythingCounted, CounterIsWatched

LEMMA OnTimerIInv ==
    ASSUME IInv, OnTimer
    PROVE  IInv'
<1>1. Get /\ UNCHANGED <<kind, ending, m_madeProgress, updater, notification, sum, list, inits>>
  BY DEF OnTimer
<1>2. /\ status_' \in Statuses /\ currentOffset_' \in 0..MaxUpdates
      /\ send_state_' \in 0..2 /\ made_progress_' \in BOOLEAN
      /\ (OpenDuringTransfer /\ EndOfTransfer /\ EverythingCounted /\ CounterIsWatched)'
  BY <1>1, GetIInv
<1>3. shown' \in Statuses /\ timer' \in BOOLEAN
  BY <1>2 DEF OnTimer, SetTransferStatus, IInv, TypeOK, Statuses
<1>4. QED
  BY <1>1, <1>2, <1>3 DEF IInv, TypeOK, list

LEMMA NextIInv == IInv /\ [Next]_vars => IInv'
<1> SUFFICES ASSUME IInv, [Next]_vars
             PROVE  IInv'
  OBVIOUS
<1>1. ASSUME NEW k \in Kinds, Init(k)
      PROVE  IInv'
  BY <1>1, InitIInv
<1>2. CASE LogTransferResultMessage \/ Reset \/ ResetNotify
  BY <1>2, LogTransferResultMessageIInv, ResetIInv, ResetNotifyIInv
<1>3. CASE OnSftpTransfer
  BY <1>3, OnSftpTransferIInv
<1>4. CASE WouldBlock
  BY <1>4 DEF WouldBlock, IInv, TypeOK, ui, list, OpenDuringTransfer, EndOfTransfer, EverythingCounted, CounterIsWatched
<1>5. CASE UpdateAdd
  BY <1>5, UpdateAddIInv
<1>6. CASE UpdateLocked
  BY <1>6, UpdateLockedIInv
<1>7. CASE UpdateSend
  BY <1>7, UpdateSendIInv
<1>8. CASE OnEngineEvent
  <2>1. told' \in BOOLEAN /\ asking' \in BOOLEAN
    BY <1>8 DEF OnEngineEvent
  <2>2. QED
    BY <1>8, <2>1 DEF OnEngineEvent, manager, IInv, TypeOK, OpenDuringTransfer, EndOfTransfer, EverythingCounted, CounterIsWatched
<1>9. CASE OnNotification
  BY <1>9, OnNotificationIInv
<1>10. CASE NoMoreNotifications
  <2>1. asking' \in BOOLEAN /\ m_maySendNotificationEvent' \in BOOLEAN
    BY <1>10 DEF NoMoreNotifications
  <2>2. QED
    BY <1>10, <2>1 DEF NoMoreNotifications, manager, IInv, TypeOK, OpenDuringTransfer, EndOfTransfer, EverythingCounted, CounterIsWatched
<1>11. CASE OnTimer
  BY <1>11, OnTimerIInv
<1>12. CASE UNCHANGED vars
  BY <1>12 DEF vars, manager, ui, list, IInv, TypeOK, OpenDuringTransfer, EndOfTransfer, EverythingCounted, CounterIsWatched
<1>13. QED
  BY <1>1, <1>2, <1>3, <1>4, <1>5, <1>6, <1>7, <1>8, <1>9, <1>10, <1>11, <1>12 DEF Next

(* The inductive invariant holds for every number of transfers and updates. *)
THEOREM InvariantHolds == Spec => []IInv
  BY StartIInv, NextIInv, PTL DEF Spec

(* The variables of CTransferStatusManager and of the user interface keep their
   types: send_state_ is 0, 1 or 2, and neither the counter nor an offset in a
   status exceeds the number of updates. *)
THEOREM TypeCorrect == Spec => []TypeOK
<1>1. IInv => TypeOK
  BY DEF IInv
<1>2. QED
  BY <1>1, InvariantHolds, PTL

(* CTransferStatusManager loses no unit of data and counts none twice, although
   Update adds to currentOffset_ without the mutex and two callers of Get and
   Update itself move the counter into the status. *)
THEOREM NothingIsLost == Spec => []EverythingCounted
<1>1. IInv => EverythingCounted
  BY DEF IInv
<1>2. QED
  BY <1>1, InvariantHolds, PTL

(* Update may skip the mutex when the counter is not zero: somebody will fetch
   what is in it. *)
THEOREM CounterWillBeFetched == Spec => []CounterIsWatched
<1>1. IInv => CounterIsWatched
  BY DEF IInv
<1>2. QED
  BY <1>1, InvariantHolds, PTL
-----------------------------------------------------------------------------
(* The list of notifications.  The flag says exactly whether the user interface
   has still to be told, so AddNotification tells it unless it has been told or is
   asking, and it stops asking only when the list is empty. *)
FlagMatches ==
    /\ m_maySendNotificationEvent <=> ~told /\ ~asking
    /\ ~(told /\ asking)

ListInv == FlagMatches /\ NotificationsFetched

LEMMA AddNotificationKeepsList ==
    ASSUME TypeOK, ListInv, NEW s, AddNotification(s)
    PROVE  ListInv'
<1>1. (told' \/ asking') /\ ~(told' /\ asking')
  BY DEF AddNotification, ListInv, FlagMatches
<1>2. ~m_maySendNotificationEvent'
  BY DEF AddNotification
<1>3. QED
  BY <1>1, <1>2 DEF ListInv, FlagMatches, NotificationsFetched

LEMMA NextListInv == TypeOK /\ ListInv /\ [Next]_vars => ListInv'
<1> SUFFICES ASSUME TypeOK, ListInv, [Next]_vars
             PROVE  ListInv'
  OBVIOUS
<1>1. CASE ResetNotify
  BY <1>1, AddNotificationKeepsList DEF ResetNotify
<1>2. CASE UpdateSend
  BY <1>2, AddNotificationKeepsList DEF UpdateSend
<1>3. CASE OnEngineEvent
  BY <1>3 DEF OnEngineEvent, TypeOK, ListInv, FlagMatches, NotificationsFetched
<1>4. CASE OnNotification
  BY <1>4 DEF OnNotification, ListInv, FlagMatches, NotificationsFetched
<1>5. CASE NoMoreNotifications
  BY <1>5 DEF NoMoreNotifications, TypeOK, ListInv, FlagMatches, NotificationsFetched
<1>6. CASE UNCHANGED list
  BY <1>6 DEF list, ListInv, FlagMatches, NotificationsFetched
<1>7. ASSUME NEW k \in Kinds, Init(k)
      PROVE  UNCHANGED list
  BY <1>7 DEF Init, ui
<1>8. LogTransferResultMessage \/ Reset \/ OnSftpTransfer \/ WouldBlock \/ UpdateAdd \/ UpdateLocked \/ OnTimer \/ UNCHANGED vars => UNCHANGED list
  BY DEF LogTransferResultMessage, Reset, OnSftpTransfer, WouldBlock, UpdateAdd, UpdateLocked, OnTimer, vars, ui
<1>9. QED
  BY <1>1, <1>2, <1>3, <1>4, <1>5, <1>6, <1>7, <1>8 DEF Next

(* The user interface is told once for any number of notifications, and a
   notification that is added while it asks for the last one is fetched all the
   same: none stays in m_NotificationList unnoticed. *)
THEOREM NotificationsAreFetched == Spec => []NotificationsFetched
<1>1. Start => ListInv
  BY DEF Start, ListInv, FlagMatches, NotificationsFetched
<1>2. ListInv => NotificationsFetched
  BY DEF ListInv
<1>3. QED
  BY <1>1, <1>2, TypeCorrect, NextListInv, PTL DEF Spec

-----------------------------------------------------------------------------
(* What a poll may say. *)

FtpKinds == {"list", "download", "upload"}

(* Nothing is numbered higher than the present transfer. *)
Numbered ==
    /\ status_.nr <= inits /\ notification.nr <= inits /\ shown.nr <= inits
    /\ \A i \in DOMAIN queue : queue[i].nr <= inits

(* Between operations the last notification in the list ends the polling. *)
AtRest ==
    /\ ending = "cleared" => send_state_ = 0
    /\ kind = "none" => /\ send_state_ = 0 /\ updater = "idle"
                        /\ queue # <<>> => ~queue[Len(queue)].open
                        /\ timer => queue # <<>>

(* During a transfer with FTP there is one notice: the notification that Update is
   about to send, the one in the list, or the timer that it started.  While
   none has been given, send_state_ says so. *)
OneNotice ==
    kind \in FtpKinds /\ ending = "no" =>
        /\ updater = "send" => notification.open
        /\ \/ send_state_ = 0 /\ updater # "send" /\ queue = <<>> /\ ~timer
           \/ send_state_ = 2 /\ updater = "send" /\ queue = <<>> /\ ~timer
           \/ send_state_ = 2 /\ updater # "send" /\ Len(queue) = 1 /\ queue[1].open /\ ~timer
           \/ send_state_ # 0 /\ updater # "send" /\ queue = <<>> /\ timer

(* What is shown is what the status says, unless there is something to be
   fetched or to be told. *)
ShownIsCurrent ==
    kind \in FtpKinds /\ ending = "no" /\ send_state_ # 2 /\ updater # "lock" /\ shown.nr = status_.nr => shown.offset = status_.offset

PollInv == Numbered /\ AtRest /\ OneNotice /\ ShownIsCurrent

LEMMA StatusFields ==
    ASSUME NEW s \in Statuses
    PROVE  s.offset \in Nat /\ s.nr \in Nat
  BY BoundsAssumption DEF Statuses

LEMMA StartPollInv == Start => PollInv
  BY DEF Start, PollInv, Numbered, AtRest, OneNotice, ShownIsCurrent, NoStatus, FtpKinds

(* Steps that touch neither the notices nor what has been fetched. *)
LEMMA QuietPollInv ==
    ASSUME PollInv, UNCHANGED <<status_, send_state_, kind, ending, notification, queue, shown, timer, inits>>,
           kind = "none" => UNCHANGED updater, updater' = "send" <=> updater = "send",
           updater' = "lock" \/ updater' = updater
    PROVE  PollInv'
<1>1. Numbered'
  BY DEF PollInv, Numbered
<1>2. AtRest'
  BY DEF PollInv, AtRest
<1>3. OneNotice'
  BY DEF PollInv, OneNotice
<1>4. ShownIsCurrent'
  BY DEF PollInv, ShownIsCurrent
<1>5. QED
  BY <1>1, <1>2, <1>3, <1>4 DEF PollInv

LEMMA InitPollInv ==
    ASSUME IInv, PollInv, NEW k \in Kinds, Init(k)
    PROVE  PollInv'
<1>1. /\ status_' = NewStatus(inits + 1) /\ inits' = inits + 1 /\ kind' = k /\ updater = "idle"
      /\ kind = "list" \/ (kind = "none" /\ queue = <<>>)
      /\ ending = "no" /\ UNCHANGED <<send_state_, ending, updater, notification, queue, shown, timer>>
  BY DEF Init, ui, list
<1>2. inits \in Nat /\ status_'.nr = inits + 1 /\ k # "none"
  BY <1>1, BoundsAssumption, KindsAssumption DEF IInv, TypeOK, NewStatus, AllKinds
<1>3. shown.nr \in Nat /\ notification.nr \in Nat /\ \A i \in DOMAIN queue : queue[i].nr \in Nat
  <2>1. shown \in Statuses /\ notification \in Statuses /\ \A i \in DOMAIN queue : queue[i] \in Statuses
    BY DEF IInv, TypeOK
  <2>2. QED
    BY <2>1, StatusFields
<1>4. Numbered'
  BY <1>1, <1>2, <1>3 DEF PollInv, Numbered
<1>5. AtRest'
  BY <1>1, <1>2 DEF AtRest
<1>6. OneNotice'
  <2>1. CASE kind = "list"
    BY <1>1, <2>1 DEF PollInv, OneNotice, FtpKinds
  <2>2. CASE kind = "none" /\ queue = <<>>
    BY <1>1, <2>2 DEF PollInv, AtRest, OneNotice
  <2>3. QED
    BY <1>1, <2>1, <2>2
<1>7. ShownIsCurrent'
  BY <1>1, <1>2, <1>3 DEF PollInv, Numbered, ShownIsCurrent
<1>8. QED
  BY <1>4, <1>5, <1>6, <1>7 DEF PollInv

LEMMA AppendedQueue ==
    ASSUME NEW q \in Seq(Statuses), NEW s \in Statuses, NEW r, r = Append(q, s)
    PROVE  /\ r # <<>> /\ r[Len(r)] = s /\ Len(r) = Len(q) + 1
           /\ \A i \in DOMAIN r : r[i] = s \/ (i \in DOMAIN q /\ r[i] = q[i])
  OBVIOUS

LEMMA LogTransferResultMessagePollInv ==
    ASSUME IInv, PollInv, LogTransferResultMessage
    PROVE  PollInv'
<1>1. /\ kind # "none" /\ Get /\ ending = "no" /\ ending' = "logged"
      /\ UNCHANGED <<kind, updater, notification, queue, shown, timer, inits>>
  BY DEF LogTransferResultMessage, ui, list
<1>2. status_' = Absorbed /\ Absorbed.nr = status_.nr
  BY <1>1 DEF Get, Absorbed, IInv, TypeOK, Statuses, OpenDuringTransfer
<1>3. QED
  BY <1>1, <1>2 DEF PollInv, Numbered, AtRest, OneNotice, ShownIsCurrent

LEMMA ResetPollInv ==
    ASSUME IInv, PollInv, Reset
    PROVE  PollInv'
<1>1. /\ kind # "none" /\ status_' = NoStatus /\ ending' = "cleared" /\ send_state_' = 0
      /\ UNCHANGED <<kind, updater, notification, queue, shown, timer, inits>>
  BY DEF Reset, InitialState, ui, list
<1>2. NoStatus.nr = 0 /\ inits \in Nat
  BY BoundsAssumption DEF NoStatus, IInv, TypeOK
<1>3. QED
  BY <1>1, <1>2 DEF PollInv, Numbered, AtRest, OneNotice, ShownIsCurrent

LEMMA ResetNotifyPollInv ==
    ASSUME IInv, PollInv, ResetNotify
    PROVE  PollInv'
<1>1. /\ ending = "cleared" /\ ending' = "no" /\ kind' = "none" /\ updater = "idle" /\ send_state_ = 0
      /\ queue' = Append(queue, NoStatus)
      /\ UNCHANGED <<status_, send_state_, updater, notification, shown, timer, inits>>
  BY DEF ResetNotify, AddNotification, manager, IInv, EndOfTransfer, PollInv, AtRest
<1>2. NoStatus \in Statuses /\ ~NoStatus.open /\ NoStatus.nr = 0 /\ inits \in Nat /\ queue \in Seq(Statuses)
  <2>1. NoStatus \in Statuses /\ ~NoStatus.open /\ NoStatus.nr = 0
    BY BoundsAssumption DEF NoStatus, Statuses
  <2>2. QED
    BY <2>1, BoundsAssumption DEF IInv, TypeOK
<1>3. /\ queue' # <<>> /\ queue'[Len(queue')] = NoStatus
      /\ \A i \in DOMAIN queue' : queue'[i] = NoStatus \/ (i \in DOMAIN queue /\ queue'[i] = queue[i])
  BY <1>1, <1>2, AppendedQueue
<1>4. Numbered'
  BY <1>1, <1>2, <1>3 DEF PollInv, Numbered
<1>5. AtRest'
  BY <1>1, <1>2, <1>3 DEF AtRest
<1>6. OneNotice' /\ ShownIsCurrent'
  BY <1>1 DEF OneNotice, ShownIsCurrent, FtpKinds
<1>7. QED
  BY <1>4, <1>5, <1>6 DEF PollInv

LEMMA OnSftpTransferPollInv ==
    ASSUME IInv, PollInv, OnSftpTransfer
    PROVE  PollInv'
<1>1. /\ kind' = "sftp_download" /\ status_' = Absorbed /\ ending = "no"
      /\ UNCHANGED <<ending, updater, notification, queue, shown, timer, inits>>
  BY DEF OnSftpTransfer, ui, list
<1>2. Absorbed.nr = status_.nr
  BY DEF Absorbed, IInv, TypeOK, Statuses
<1>3. QED
  BY <1>1, <1>2 DEF PollInv, Numbered, AtRest, OneNotice, ShownIsCurrent, FtpKinds

LEMMA UpdateLockedPollInv ==
    ASSUME IInv, PollInv, UpdateLocked
    PROVE  PollInv'
<1>1. kind # "none" /\ status_.open /\ updater = "lock" /\ send_state_' = 2
      /\ ending # "cleared" /\ UNCHANGED <<kind, ending, queue, shown, timer, inits>>
  BY DEF UpdateLocked, IInv, OpenDuringTransfer, EndOfTransfer, PollInv, AtRest, UpdateState, ui, list
<1>2. CASE send_state_ = 0
  <2>1. /\ status_' = [Absorbed EXCEPT !.made = made_progress_] /\ notification' = status_' /\ updater' = "send"
    BY <1>1, <1>2 DEF UpdateLocked
  <2>2. status_'.nr = status_.nr /\ status_'.open = status_.open
    BY <2>1 DEF Absorbed, IInv, TypeOK, Statuses
  <2>3. Numbered'
    BY <1>1, <2>1, <2>2 DEF PollInv, Numbered
  <2>4. kind \in FtpKinds /\ ending = "no" => queue = <<>> /\ ~timer
    BY <1>1, <1>2 DEF PollInv, OneNotice
  <2>5. notification'.open
    BY <1>1, <2>1, <2>2
  <2>6. OneNotice'
    BY <1>1, <2>1, <2>4, <2>5 DEF OneNotice
  <2>7. QED
    BY <1>1, <2>3, <2>6 DEF PollInv, AtRest, ShownIsCurrent
<1>3. CASE send_state_ # 0
  <2>1. UNCHANGED <<status_, notification>> /\ updater' = "idle"
    BY <1>1, <1>3 DEF UpdateLocked
  <2>2. Numbered'
    BY <1>1, <2>1 DEF PollInv, Numbered
  <2>3. OneNotice'
    BY <1>1, <1>3, <2>1 DEF PollInv, OneNotice
  <2>4. QED
    BY <1>1, <2>2, <2>3 DEF PollInv, AtRest, ShownIsCurrent
<1>4. QED
  BY <1>2, <1>3

LEMMA UpdateSendPollInv ==
    ASSUME IInv, PollInv, UpdateSend
    PROVE  PollInv'
<1>1. /\ updater = "send" /\ updater' = "idle" /\ queue' = Append(queue, notification)
      /\ UNCHANGED <<status_, send_state_, kind, ending, notification, shown, timer, inits>>
  BY DEF UpdateSend, AddNotification, manager
<1>2. kind # "none" /\ notification \in Statuses /\ queue \in Seq(Statuses)
  BY <1>1 DEF PollInv, AtRest, IInv, TypeOK, EndOfTransfer
<1>3. /\ queue' # <<>> /\ queue'[Len(queue')] = notification /\ Len(queue') = Len(queue) + 1
      /\ \A i \in DOMAIN queue' : queue'[i] = notification \/ (i \in DOMAIN queue /\ queue'[i] = queue[i])
  BY <1>1, <1>2, AppendedQueue
<1>4. Numbered'
  BY <1>1, <1>3 DEF PollInv, Numbered
<1>5. kind \in FtpKinds /\ ending = "no" => send_state_ = 2 /\ queue = <<>> /\ ~timer /\ notification.open
  BY <1>1 DEF PollInv, OneNotice
<1>6. kind \in FtpKinds /\ ending = "no" => Len(queue') = 1 /\ queue'[1] = notification
  BY <1>3, <1>5
<1>7. OneNotice' /\ ShownIsCurrent'
  BY <1>1, <1>5, <1>6 DEF OneNotice, ShownIsCurrent
<1>8. QED
  BY <1>1, <1>2, <1>4, <1>7 DEF PollInv, AtRest

LEMMA EmptyLength == ASSUME NEW r \in Seq(Statuses) PROVE r = <<>> <=> Len(r) = 0
  OBVIOUS

LEMMA TailQueue ==
    ASSUME NEW q \in Seq(Statuses), q # <<>>, NEW r, r = Tail(q)
    PROVE  /\ Head(q) = q[1] /\ 1 \in DOMAIN q /\ (Len(q) = 1 <=> r = <<>>)
           /\ r # <<>> => r[Len(r)] = q[Len(q)]
           /\ \A i \in DOMAIN r : \E j \in DOMAIN q : r[i] = q[j]
<1>1. /\ Len(q) \in Nat /\ Len(q) > 0 /\ DOMAIN q = 1..Len(q) /\ Head(q) = q[1]
      /\ Len(r) = Len(q) - 1 /\ DOMAIN r = 1..(Len(q) - 1) /\ \A i \in 1..(Len(q) - 1) : r[i] = q[i + 1]
      /\ r \in Seq(Statuses)
  OBVIOUS
<1>2. 1 \in DOMAIN q
  BY <1>1
<1>3. r = <<>> <=> Len(r) = 0
  BY <1>1, EmptyLength
<1>4. r # <<>> => r[Len(r)] = q[Len(q)]
  BY <1>1, <1>3
<1>5. ASSUME NEW i \in DOMAIN r
      PROVE  \E j \in DOMAIN q : r[i] = q[j]
  <2>1. i + 1 \in DOMAIN q /\ r[i] = q[i + 1]
    BY <1>1
  <2>2. QED
    BY <2>1
<1>6. QED
  BY <1>1, <1>2, <1>3, <1>4, <1>5

LEMMA OnNotificationPollInv ==
    ASSUME IInv, PollInv, OnNotification
    PROVE  PollInv'
<1>1. /\ queue # <<>> /\ shown' = Head(queue) /\ timer' = Head(queue).open /\ queue' = Tail(queue)
      /\ UNCHANGED <<status_, send_state_, kind, ending, updater, notification, inits>>
  BY DEF OnNotification, SetTransferStatus, manager
<1>2. /\ Head(queue) = queue[1] /\ 1 \in DOMAIN queue /\ (Len(queue) = 1 <=> queue' = <<>>)
      /\ queue' # <<>> => queue'[Len(queue')] = queue[Len(queue)]
      /\ \A i \in DOMAIN queue' : \E j \in DOMAIN queue : queue'[i] = queue[j]
  <2>1. queue \in Seq(Statuses) /\ queue # <<>>
    BY <1>1 DEF IInv, TypeOK
  <2>2. queue' = Tail(queue)
    BY <1>1
  <2>3. QED
    BY <2>1, <2>2, TailQueue
<1>3. Numbered'
  BY <1>1, <1>2 DEF PollInv, Numbered
<1>4. AtRest'
  BY <1>1, <1>2 DEF PollInv, AtRest
<1>5. kind \in FtpKinds /\ ending = "no" => send_state_ = 2 /\ updater # "send" /\ queue' = <<>> /\ timer'
  BY <1>1, <1>2 DEF PollInv, OneNotice
<1>6. OneNotice' /\ ShownIsCurrent'
  BY <1>1, <1>5 DEF OneNotice, ShownIsCurrent
<1>7. QED
  BY <1>3, <1>4, <1>6 DEF PollInv

LEMMA OnTimerPollInv ==
    ASSUME IInv, PollInv, OnTimer
    PROVE  PollInv'
<1>1. timer /\ Get /\ UNCHANGED <<kind, ending, updater, notification, queue, inits>>
  BY DEF OnTimer, list
<1>2. CASE ~status_.open
  <2>1. (kind = "none" \/ ending = "cleared") /\ status_' = status_ /\ send_state_' = 0 /\ shown' = status_ /\ timer' = status_.open
    BY <1>1, <1>2 DEF Get, Changed, OnTimer, SetTransferStatus, IInv, OpenDuringTransfer
  <2>2. QED
    BY <1>1, <1>2, <2>1 DEF PollInv, Numbered, AtRest, OneNotice, ShownIsCurrent, FtpKinds
<1>3. CASE status_.open
  <2>1. kind # "none" /\ ending # "cleared" /\ status_' = Absorbed /\ status_'.nr = status_.nr /\ status_'.open
    BY <1>1, <1>3 DEF Get, Absorbed, IInv, TypeOK, Statuses, OpenDuringTransfer
  <2>2. CASE Changed
    <3>1. send_state_' = 1 /\ shown' = status_' /\ timer' = status_'.open
      BY <1>1, <1>3, <2>2 DEF Get, OnTimer, SetTransferStatus
    <3>2. OneNotice'
      BY <1>1, <2>1, <3>1 DEF PollInv, OneNotice
    <3>3. QED
      BY <1>1, <2>1, <3>1, <3>2 DEF PollInv, Numbered, AtRest, ShownIsCurrent
  <2>3. CASE ~Changed
    <3>1. send_state_' = 0 /\ send_state_ # 2 /\ timer' = FALSE /\ UNCHANGED shown
      BY <1>1, <1>3, <2>3 DEF Get, OnTimer, Changed
    <3>2. OneNotice'
      BY <1>1, <2>1, <3>1 DEF PollInv, OneNotice
    <3>3. updater # "lock" => status_'.offset = status_.offset
      <4>1. currentOffset_ \in Nat /\ status_ \in Statuses /\ status_.offset \in Nat
        BY BoundsAssumption, StatusFields DEF IInv, TypeOK
      <4>2. updater # "lock" => currentOffset_ = 0
        BY <1>3, <3>1, <4>1 DEF IInv, CounterIsWatched
      <4>3. status_'.offset = status_.offset + currentOffset_
        BY <2>1, <4>1 DEF Absorbed, Statuses
      <4>4. QED
        BY <4>1, <4>2, <4>3
    <3>4. ShownIsCurrent'
      BY <1>1, <2>1, <3>1, <3>3 DEF PollInv, ShownIsCurrent
    <3>5. QED
      BY <1>1, <2>1, <3>1, <3>2, <3>4 DEF PollInv, Numbered, AtRest
  <2>4. QED
    BY <2>2, <2>3
<1>4. QED
  BY <1>2, <1>3

LEMMA NextPollInv ==
    ASSUME IInv, PollInv, [Next]_vars
    PROVE  PollInv'
<1>1. CASE WouldBlock \/ UpdateAdd \/ OnEngineEvent \/ NoMoreNotifications \/ UNCHANGED vars
  <2>1. /\ UNCHANGED <<status_, send_state_, kind, ending, notification, queue, shown, timer, inits>>
        /\ kind = "none" => UNCHANGED updater
        /\ updater' = "send" <=> updater = "send"
        /\ updater' = "lock" \/ updater' = updater
    BY <1>1 DEF WouldBlock, UpdateAdd, OnEngineEvent, NoMoreNotifications, vars, manager, ui, list
  <2>2. QED
    BY <2>1, QuietPollInv
<1>2. QED
  BY <1>1, InitPollInv, LogTransferResultMessagePollInv, ResetPollInv, ResetNotifyPollInv, OnSftpTransferPollInv, UpdateLockedPollInv, UpdateSendPollInv,
     OnNotificationPollInv, OnTimerPollInv DEF Next

(* "changed will be set to true if the data has been updated" (FileZillaEngine.h): when
   CTransferStatusManager::Get tells the user interface that nothing has changed during a
   transfer with FTP, what it shows is all there is, for any number of transfers and updates,
   up to the call of Get in LogTransferResultMessage. *)
THEOREM NoChangeMeansNoNews == Spec => FtpChangedIfUpdated
<1>1. IInv /\ PollInv => [OnTimer /\ ~Changed /\ status_.open /\ updater = "idle" /\ kind # "sftp_download" /\ ending = "no"
          => shown.offset = status_'.offset \/ shown.nr # status_.nr]_vars
  <2> SUFFICES ASSUME IInv, PollInv, OnTimer, ~Changed, status_.open, updater = "idle", kind # "sftp_download", ending = "no",
                      shown.nr = status_.nr
               PROVE  shown.offset = status_'.offset
    OBVIOUS
  <2>1. kind \in FtpKinds /\ send_state_ # 2
    BY DEF Changed, IInv, TypeOK, OpenDuringTransfer, AllKinds, FtpKinds
  <2>2. shown.offset = status_.offset
    BY <2>1 DEF PollInv, ShownIsCurrent
  <2>3. currentOffset_ \in Nat /\ status_ \in Statuses /\ status_.offset \in Nat
    BY BoundsAssumption, StatusFields DEF IInv, TypeOK
  <2>4. currentOffset_ = 0
    BY <2>1, <2>3 DEF IInv, CounterIsWatched
  <2>5. status_'.offset = status_.offset + currentOffset_
    BY <2>3 DEF OnTimer, Get, Absorbed, Statuses
  <2>6. QED
    BY <2>2, <2>3, <2>4, <2>5
<1>2. IInv /\ PollInv /\ [Next]_vars => PollInv'
  BY NextPollInv
<1>3. QED
  BY <1>1, <1>2, StartPollInv, InvariantHolds, PTL DEF Spec, FtpChangedIfUpdated

-----------------------------------------------------------------------------
(* ascii_writer and ascii_reader. First induction over numbers and sequences, with
   sets for the properties. *)

(* A set of numbers has a least one. *)
LEMMA LeastNat ==
    ASSUME NEW A \in SUBSET Nat, A # {}
    PROVE  \E m \in A : \A n \in A : m <= n
<1>1. PICK m \in A : \A n \in A : ~ (<<n, m>> \in OpToRel(<, Nat))
  BY NatLessThanWellFounded, WFMin
<1>2. \A i, j \in Nat : i < j => <<i, j>> \in OpToRel(<, Nat)
  BY DEF OpToRel
<1>3. \A n \in A : ~ (n < m)
  BY <1>1, <1>2, Zenon
<1> QED BY <1>3

(* Induction on the natural numbers, with a set for the property. *)
LEMMA NatSetInduction ==
    ASSUME NEW A, 0 \in A, \A n \in Nat : n \in A => n + 1 \in A
    PROVE  Nat \subseteq A
<1> SUFFICES ASSUME Nat \ A # {} PROVE FALSE
  OBVIOUS
<1>1. PICK m \in Nat \ A : \A n \in Nat \ A : m <= n
  BY LeastNat
<1>2. m - 1 \in Nat /\ m = (m - 1) + 1
  BY <1>1
<1>3. m - 1 \in A
  BY <1>1, <1>2
<1> QED BY <1>1, <1>2, <1>3

(* Induction on sequences, from the end. *)
LEMMA SeqSetInduction ==
    ASSUME NEW C, NEW A, <<>> \in A, \A s \in Seq(C) : \A c \in C : s \in A => Append(s, c) \in A
    PROVE  Seq(C) \subseteq A
<1> DEFINE B == {n \in Nat : \A s \in Seq(C) : Len(s) = n => s \in A}
<1>1. 0 \in B
  <2>1. \A s \in Seq(C) : Len(s) = 0 => s = <<>>
    BY EmptySeq
  <2> QED BY <2>1
<1>2. ASSUME NEW n \in Nat, n \in B PROVE n + 1 \in B
  <2>1. SUFFICES ASSUME NEW s \in Seq(C), Len(s) = n + 1 PROVE s \in A
    OBVIOUS
  <2>2. s # <<>>
    BY <2>1
  <2>3. PICK r \in Seq(C), c \in C : s = Append(r, c)
    BY <2>2, SequenceEmptyOrAppend
  <2>4. Len(r) = n
    BY <2>1, <2>3, LenProperties
  <2> QED BY <2>3, <2>4, <1>2
<1>3. Nat \subseteq B
  <2> HIDE DEF B
  <2> QED BY <1>1, <1>2, NatSetInduction
<1> QED BY <1>3, LenProperties

(* A loop over a sequence: g has what was computed after each turn. *)
Loop(F, base, s, T, g) ==
    /\ g \in [0 .. Len(s) -> T]
    /\ g[0] = base
    /\ \A i \in 1 .. Len(s) : g[i] = F[g[i - 1]][s[i]]

(* Two loops that begin alike go alike. *)
LEMMA LoopUnique ==
    ASSUME NEW T, NEW C, NEW F, NEW base, NEW s \in Seq(C), NEW t \in Seq(C),
           NEW g, NEW h, Loop(F, base, s, T, g), Loop(F, base, t, T, h),
           Len(s) <= Len(t), \A i \in 1 .. Len(s) : t[i] = s[i]
    PROVE  h[Len(s)] = g[Len(s)]
<1> DEFINE A == {n \in Nat : n <= Len(s) => h[n] = g[n]}
<1>0. Len(s) \in Nat /\ Len(t) \in Nat
  BY LenProperties
<1>1. 0 \in A
  BY DEF Loop
<1>2. ASSUME NEW n \in Nat, n \in A PROVE n + 1 \in A
  <2>1. SUFFICES ASSUME n + 1 <= Len(s) PROVE h[n + 1] = g[n + 1]
    OBVIOUS
  <2>2. n + 1 \in 1 .. Len(s) /\ n + 1 \in 1 .. Len(t) /\ (n + 1) - 1 = n
    BY <2>1, <1>0
  <2>3. h[n] = g[n] /\ t[n + 1] = s[n + 1]
    BY <1>2, <2>1, <2>2, <1>0
  <2>4. g[n + 1] = F[g[n]][s[n + 1]] /\ h[n + 1] = F[h[n]][t[n + 1]]
    BY <2>2 DEF Loop
  <2> QED BY <2>3, <2>4
<1>3. Nat \subseteq A
  <2> HIDE DEF A
  <2> QED BY <1>1, <1>2, NatSetInduction
<1> QED BY <1>0, <1>3

(* The turn for one more element. *)
LEMMA LoopAppend ==
    ASSUME NEW T, NEW C, NEW F, NEW base, NEW s \in Seq(C), NEW c \in C,
           NEW g, NEW h, Loop(F, base, s, T, g), Loop(F, base, Append(s, c), T, h)
    PROVE  h[Len(s) + 1] = F[g[Len(s)]][c]
<1>1. PICK t \in Seq(C) : t = Append(s, c)
  BY AppendProperties
<1>2. Len(t) = Len(s) + 1 /\ Len(s) \in Nat /\ t[Len(s) + 1] = c /\ \A i \in 1 .. Len(s) : t[i] = s[i]
  BY <1>1, AppendProperties, LenProperties
<1>3. Loop(F, base, t, T, h)
  BY <1>1
<1>4. h[Len(s)] = g[Len(s)]
  BY <1>2, <1>3, LoopUnique
<1>5. h[Len(s) + 1] = F[h[(Len(s) + 1) - 1]][t[Len(s) + 1]]
  BY <1>2, <1>3 DEF Loop
<1>6. (Len(s) + 1) - 1 = Len(s)
  BY <1>2
<1> QED BY <1>2, <1>4, <1>5, <1>6

(* A loop whose turns have values has a value after each of them. *)
LEMMA LoopExists ==
    ASSUME NEW T, NEW C, NEW F \in [T -> [C -> T]], NEW base \in T, NEW s \in Seq(C)
    PROVE  \E g : Loop(F, base, s, T, g)
<1> DEFINE A == {u \in Seq(C) : \E g : Loop(F, base, u, T, g)}
<1>1. <<>> \in A
  <2> DEFINE g == [i \in 0 .. 0 |-> base]
  <2>1. Len(<<>>) = 0 /\ <<>> \in Seq(C) /\ 1 .. 0 = {}
    OBVIOUS
  <2>2. Loop(F, base, <<>>, T, g)
    BY <2>1 DEF Loop
  <2> QED BY <2>1, <2>2
<1>2. ASSUME NEW u \in Seq(C), NEW c \in C, u \in A PROVE Append(u, c) \in A
  <2>1. PICK g : Loop(F, base, u, T, g)
    BY <1>2
  <2>2. PICK n \in Nat : n = Len(u)
    BY LenProperties
  <2>3. PICK v \in Seq(C) : v = Append(u, c)
    BY AppendProperties
  <2>4. Len(v) = n + 1 /\ v[n + 1] = c /\ \A i \in 1 .. n : v[i] = u[i]
    BY <2>2, <2>3, AppendProperties
  <2>5. g \in [0 .. n -> T] /\ g[0] = base /\ \A i \in 1 .. n : g[i] = F[g[i - 1]][u[i]]
    BY <2>1, <2>2 DEF Loop
  <2>6. PICK x \in T : x = F[g[n]][c]
    <3>1. g[n] \in T
      BY <2>5
    <3> QED BY <3>1
  <2>7. PICK h : h = [i \in 0 .. n + 1 |-> IF i = n + 1 THEN x ELSE g[i]]
    OBVIOUS
  <2>8. h \in [0 .. n + 1 -> T] /\ h[0] = base /\ h[n + 1] = x /\ \A i \in 0 .. n : h[i] = g[i]
    BY <2>7, <2>5
  <2>9. ASSUME NEW i \in 1 .. n + 1 PROVE h[i] = F[h[i - 1]][v[i]]
    <3>1. CASE i = n + 1
      <4>1. i - 1 = n /\ h[n] = g[n]
        BY <3>1, <2>8
      <4> QED BY <4>1, <3>1, <2>4, <2>6, <2>8
    <3>2. CASE i \in 1 .. n
      <4>1. i \in 0 .. n /\ i - 1 \in 0 .. n
        BY <3>2
      <4>2. h[i] = g[i] /\ h[i - 1] = g[i - 1] /\ v[i] = u[i]
        BY <3>2, <4>1, <2>4, <2>8
      <4> QED BY <3>2, <4>2, <2>5
    <3> QED BY <3>1, <3>2
  <2>10. Loop(F, base, v, T, h)
    BY <2>4, <2>8, <2>9 DEF Loop
  <2> QED BY <2>3, <2>10
<1>3. Seq(C) \subseteq A
  <2> HIDE DEF A
  <2> QED BY <1>1, <1>2, SeqSetInduction
<1> QED BY <1>3

(* What the loops of ascii_writer and ascii_reader keep: was_cr_ and what they have put out. *)
Accs == [was_cr : BOOLEAN, out : Seq(Chars)]

(* Their turns as functions. *)
StepFn == [a \in Accs |-> [c \in Chars |-> Step(a, c)]]

ExpandFn == [a \in Accs |-> [c \in Chars |-> Expand(a, c)]]

(* Before the first turn. *)
Begun(w) == [was_cr |-> w, out |-> <<>>]

LEMMA StepType ==
    ASSUME NEW a \in Accs, NEW c \in Chars
    PROVE  Step(a, c) \in Accs
<1>1. PICK o \in Seq(Chars) : o = a.out
  BY DEF Accs
<1>2. Append(o, c) \in Seq(Chars) /\ Append(o, "CR") \in Seq(Chars) /\ <<c>> \in Seq(Chars)
  BY DEF Chars
<1>3. o \o <<c>> \in Seq(Chars) /\ Append(o, "CR") \o <<c>> \in Seq(Chars)
  BY <1>2, ConcatProperties
<1> QED BY <1>1, <1>2, <1>3 DEF Step, Accs

LEMMA ExpandType ==
    ASSUME NEW a \in Accs, NEW c \in Chars
    PROVE  Expand(a, c) \in Accs
<1>1. PICK o \in Seq(Chars) : o = a.out
  BY DEF Accs
<1>2. Append(o, c) \in Seq(Chars) /\ Append(o, "CR") \in Seq(Chars) /\ <<c>> \in Seq(Chars)
  BY DEF Chars
<1>3. o \o <<c>> \in Seq(Chars) /\ Append(o, "CR") \o <<c>> \in Seq(Chars)
  BY <1>2, ConcatProperties
<1> QED BY <1>1, <1>2, <1>3 DEF Expand, Accs

(* transform is such a loop. *)
LEMMA TransformLoop ==
    ASSUME NEW w \in BOOLEAN, NEW s \in Seq(Chars)
    PROVE  \E g : Loop(StepFn, Begun(w), s, Accs, g) /\ transform(w, s) = g[Len(s)]
<1> DEFINE Eq(g) == g = [i \in 0 .. Len(s) |-> IF i = 0 THEN [was_cr |-> w, out |-> <<>>] ELSE Step(g[i - 1], s[i])]
<1>0. Len(s) \in Nat /\ \A i \in 1 .. Len(s) : s[i] \in Chars
  BY LenProperties, ElementOfSeq
<1>1. StepFn \in [Accs -> [Chars -> Accs]] /\ Begun(w) \in Accs
  BY StepType DEF StepFn, Begun, Accs
<1>2. PICK g : Loop(StepFn, Begun(w), s, Accs, g)
  BY <1>1, LoopExists
<1>3. Eq(g)
  <2>1. g \in [0 .. Len(s) -> Accs] /\ g[0] = Begun(w)
    BY <1>2 DEF Loop
  <2>2. ASSUME NEW i \in 1 .. Len(s) PROVE g[i] = Step(g[i - 1], s[i])
    <3>1. g[i] = StepFn[g[i - 1]][s[i]] /\ g[i - 1] \in Accs
      BY <1>0, <1>2, <2>1 DEF Loop
    <3> QED BY <3>1, <1>0 DEF StepFn
  <2> QED BY <2>1, <2>2, <1>0 DEF Begun
<1>4. \E k : Eq(k) /\ transform(w, s) = k[Len(s)]
  BY <1>3 DEF transform
<1>5. PICK k : Eq(k) /\ transform(w, s) = k[Len(s)]
  BY <1>4
<1>6. k = g
  <2>0. DOMAIN k = 0 .. Len(s) /\ DOMAIN g = 0 .. Len(s) /\ k = [i \in 0 .. Len(s) |-> k[i]] /\ g = [i \in 0 .. Len(s) |-> g[i]]
    BY <1>3, <1>5
  <2> DEFINE A == {n \in Nat : n <= Len(s) => k[n] = g[n]}
  <2>1. 0 \in A
    BY <1>0, <1>3, <1>5
  <2>2. ASSUME NEW n \in Nat, n \in A PROVE n + 1 \in A
    <3>1. SUFFICES ASSUME n + 1 <= Len(s) PROVE k[n + 1] = g[n + 1]
      OBVIOUS
    <3>2. n + 1 \in 0 .. Len(s) /\ n + 1 # 0 /\ (n + 1) - 1 = n
      BY <3>1, <1>0
    <3>3. k[n + 1] = Step(k[n], s[n + 1])
      BY <3>2, <1>5
    <3>4. g[n + 1] = Step(g[n], s[n + 1])
      BY <3>2, <1>3
    <3>5. k[n] = g[n]
      BY <2>2, <3>1, <1>0
    <3> QED BY <3>3, <3>4, <3>5
  <2>3. Nat \subseteq A
    <3> HIDE DEF A
    <3> QED BY <2>1, <2>2, NatSetInduction
  <2>4. \A i \in 0 .. Len(s) : k[i] = g[i]
    BY <2>3, <1>0
  <2> QED BY <2>0, <2>4
<1> QED BY <1>2, <1>5, <1>6

(* What transform gives for a buffer with one more character. *)
LEMMA Transforms ==
    ASSUME NEW w \in BOOLEAN, NEW s \in Seq(Chars)
    PROVE  /\ transform(w, s) \in Accs
           /\ transform(w, <<>>) = Begun(w)
           /\ \A c \in Chars : transform(w, Append(s, c)) = Step(transform(w, s), c)
<1>1. PICK g : Loop(StepFn, Begun(w), s, Accs, g) /\ transform(w, s) = g[Len(s)]
  BY TransformLoop
<1>2. transform(w, s) \in Accs
  BY <1>1, LenProperties DEF Loop
<1>3. transform(w, <<>>) = Begun(w)
  <2>1. <<>> \in Seq(Chars) /\ Len(<<>>) = 0
    OBVIOUS
  <2>2. PICK h : Loop(StepFn, Begun(w), <<>>, Accs, h) /\ transform(w, <<>>) = h[Len(<<>>)]
    BY <2>1, TransformLoop
  <2> QED BY <2>1, <2>2 DEF Loop
<1>4. ASSUME NEW c \in Chars PROVE transform(w, Append(s, c)) = Step(transform(w, s), c)
  <2>1. Append(s, c) \in Seq(Chars) /\ Len(Append(s, c)) = Len(s) + 1
    BY AppendProperties
  <2>2. PICK h : Loop(StepFn, Begun(w), Append(s, c), Accs, h) /\ transform(w, Append(s, c)) = h[Len(Append(s, c))]
    BY <2>1, TransformLoop
  <2>3. h[Len(s) + 1] = StepFn[g[Len(s)]][c]
    BY <1>1, <2>2, LoopAppend
  <2> QED BY <1>1, <1>2, <2>1, <2>2, <2>3 DEF StepFn
<1> QED BY <1>2, <1>3, <1>4

(* And so is the loop of ascii_reader::read. *)
LEMMA ExpandedLoop ==
    ASSUME NEW w \in BOOLEAN, NEW s \in Seq(Chars)
    PROVE  \E g : Loop(ExpandFn, Begun(w), s, Accs, g) /\ Expanded(w, s) = g[Len(s)]
<1> DEFINE Eq(g) == g = [i \in 0 .. Len(s) |-> IF i = 0 THEN [was_cr |-> w, out |-> <<>>] ELSE Expand(g[i - 1], s[i])]
<1>0. Len(s) \in Nat /\ \A i \in 1 .. Len(s) : s[i] \in Chars
  BY LenProperties, ElementOfSeq
<1>1. ExpandFn \in [Accs -> [Chars -> Accs]] /\ Begun(w) \in Accs
  BY ExpandType DEF ExpandFn, Begun, Accs
<1>2. PICK g : Loop(ExpandFn, Begun(w), s, Accs, g)
  BY <1>1, LoopExists
<1>3. Eq(g)
  <2>1. g \in [0 .. Len(s) -> Accs] /\ g[0] = Begun(w)
    BY <1>2 DEF Loop
  <2>2. ASSUME NEW i \in 1 .. Len(s) PROVE g[i] = Expand(g[i - 1], s[i])
    <3>1. g[i] = ExpandFn[g[i - 1]][s[i]] /\ g[i - 1] \in Accs
      BY <1>0, <1>2, <2>1 DEF Loop
    <3> QED BY <3>1, <1>0 DEF ExpandFn
  <2> QED BY <2>1, <2>2, <1>0 DEF Begun
<1>4. \E k : Eq(k) /\ Expanded(w, s) = k[Len(s)]
  BY <1>3 DEF Expanded
<1>5. PICK k : Eq(k) /\ Expanded(w, s) = k[Len(s)]
  BY <1>4
<1>6. k = g
  <2>0. DOMAIN k = 0 .. Len(s) /\ DOMAIN g = 0 .. Len(s) /\ k = [i \in 0 .. Len(s) |-> k[i]] /\ g = [i \in 0 .. Len(s) |-> g[i]]
    BY <1>3, <1>5
  <2> DEFINE A == {n \in Nat : n <= Len(s) => k[n] = g[n]}
  <2>1. 0 \in A
    BY <1>0, <1>3, <1>5
  <2>2. ASSUME NEW n \in Nat, n \in A PROVE n + 1 \in A
    <3>1. SUFFICES ASSUME n + 1 <= Len(s) PROVE k[n + 1] = g[n + 1]
      OBVIOUS
    <3>2. n + 1 \in 0 .. Len(s) /\ n + 1 # 0 /\ (n + 1) - 1 = n
      BY <3>1, <1>0
    <3>3. k[n + 1] = Expand(k[n], s[n + 1])
      BY <3>2, <1>5
    <3>4. g[n + 1] = Expand(g[n], s[n + 1])
      BY <3>2, <1>3
    <3>5. k[n] = g[n]
      BY <2>2, <3>1, <1>0
    <3> QED BY <3>3, <3>4, <3>5
  <2>3. Nat \subseteq A
    <3> HIDE DEF A
    <3> QED BY <2>1, <2>2, NatSetInduction
  <2>4. \A i \in 0 .. Len(s) : k[i] = g[i]
    BY <2>3, <1>0
  <2> QED BY <2>0, <2>4
<1> QED BY <1>2, <1>5, <1>6

(* What it gives for one more character. *)
LEMMA Expands ==
    ASSUME NEW w \in BOOLEAN, NEW s \in Seq(Chars)
    PROVE  /\ Expanded(w, s) \in Accs
           /\ Expanded(w, <<>>) = Begun(w)
           /\ \A c \in Chars : Expanded(w, Append(s, c)) = Expand(Expanded(w, s), c)
<1>1. PICK g : Loop(ExpandFn, Begun(w), s, Accs, g) /\ Expanded(w, s) = g[Len(s)]
  BY ExpandedLoop
<1>2. Expanded(w, s) \in Accs
  BY <1>1, LenProperties DEF Loop
<1>3. Expanded(w, <<>>) = Begun(w)
  <2>1. <<>> \in Seq(Chars) /\ Len(<<>>) = 0
    OBVIOUS
  <2>2. PICK h : Loop(ExpandFn, Begun(w), <<>>, Accs, h) /\ Expanded(w, <<>>) = h[Len(<<>>)]
    BY <2>1, ExpandedLoop
  <2> QED BY <2>1, <2>2 DEF Loop
<1>4. ASSUME NEW c \in Chars PROVE Expanded(w, Append(s, c)) = Expand(Expanded(w, s), c)
  <2>1. Append(s, c) \in Seq(Chars) /\ Len(Append(s, c)) = Len(s) + 1
    BY AppendProperties
  <2>2. PICK h : Loop(ExpandFn, Begun(w), Append(s, c), Accs, h) /\ Expanded(w, Append(s, c)) = h[Len(Append(s, c))]
    BY <2>1, ExpandedLoop
  <2>3. h[Len(s) + 1] = ExpandFn[g[Len(s)]][c]
    BY <1>1, <2>2, LoopAppend
  <2> QED BY <1>1, <1>2, <2>1, <2>2, <2>3 DEF ExpandFn
<1> QED BY <1>2, <1>3, <1>4

(* FlattenSeq, the operator of the definition on whole files, is one too. *)
CatFn == [a \in Seq(Chars) |-> [c \in Seq(Chars) |-> a \o c]]

LEMMA FlattenLoop ==
    ASSUME NEW s \in Seq(Seq(Chars))
    PROVE  \E g : Loop(CatFn, <<>>, s, Seq(Chars), g) /\ FlattenSeq(s) = g[Len(s)]
<1> DEFINE Eq(g) == g = [i \in 1 .. Len(s) |-> IF i = 1 THEN s[i] ELSE g[i - 1] \o s[i]]
<1>0. Len(s) \in Nat /\ (\A i \in 1 .. Len(s) : s[i] \in Seq(Chars)) /\ <<>> \in Seq(Chars)
  BY LenProperties, ElementOfSeq
<1>1. CatFn \in [Seq(Chars) -> [Seq(Chars) -> Seq(Chars)]]
  BY ConcatProperties DEF CatFn
<1>2. PICK g : Loop(CatFn, <<>>, s, Seq(Chars), g)
  BY <1>0, <1>1, LoopExists
<1>t. g \in [0 .. Len(s) -> Seq(Chars)] /\ g[0] = <<>>
  BY <1>2 DEF Loop
<1>n. ASSUME NEW i \in 1 .. Len(s) PROVE g[i] = g[i - 1] \o s[i]
  <2>1. g[i] = CatFn[g[i - 1]][s[i]]
    BY <1>2 DEF Loop
  <2>2. i - 1 \in 0 .. Len(s)
    BY <1>0
  <2>3. g[i - 1] \in Seq(Chars)
    BY <2>2, <1>t, Zenon
  <2> QED BY <2>1, <2>3, <1>0 DEF CatFn
<1>e. CASE s = <<>>
  <2>1. Len(s) = 0
    BY <1>e
  <2>2. FlattenSeq(s) = <<>>
    BY <1>e, <2>1 DEF FlattenSeq
  <2> QED BY <1>2, <1>t, <2>1, <2>2
<1>f. CASE s # <<>>
  <2>0. Len(s) \in Nat \ {0}
    BY <1>f, EmptySeq
  <2>1. PICK f : f = [i \in 1 .. Len(s) |-> g[i]]
    OBVIOUS
  <2>2. Eq(f)
    <3>1. ASSUME NEW i \in 1 .. Len(s) PROVE f[i] = IF i = 1 THEN s[i] ELSE f[i - 1] \o s[i]
      <4>1. CASE i = 1
        <5>1. f[i] = g[i - 1] \o s[i] /\ s[i] \in Seq(Chars)
          BY <2>1, <1>n, <1>0
        <5>2. g[i - 1] = <<>>
          BY <4>1, <1>t
        <5>3. <<>> \o s[i] = s[i]
          BY <5>1, ConcatEmptySeq
        <5> QED BY <4>1, <5>1, <5>2, <5>3
      <4>2. CASE i # 1
        <5>1. i - 1 \in 1 .. Len(s)
          BY <4>2, <1>0
        <5> QED BY <4>2, <5>1, <2>1, <1>n
      <4> QED BY <4>1, <4>2
    <3>2. DOMAIN f = 1 .. Len(s) /\ f = [i \in 1 .. Len(s) |-> f[i]]
      BY <2>1
    <3> QED BY <3>1, <3>2
  <2>3. \E k : Eq(k) /\ FlattenSeq(s) = k[Len(s)]
    BY <2>0, <2>2 DEF FlattenSeq
  <2>4. PICK k : Eq(k) /\ FlattenSeq(s) = k[Len(s)]
    BY <2>3
  <2>5. k[1] = s[1] /\ f[1] = s[1]
    BY <2>0, <2>2, <2>4
  <2> DEFINE A == {n \in Nat : n + 1 <= Len(s) => k[n + 1] = f[n + 1]}
  <2>6. 0 \in A
    BY <2>5
  <2>7. ASSUME NEW n \in Nat, n \in A PROVE n + 1 \in A
    <3>1. SUFFICES ASSUME (n + 1) + 1 <= Len(s) PROVE k[(n + 1) + 1] = f[(n + 1) + 1]
      OBVIOUS
    <3>2. PICK m \in 1 .. Len(s) : m = (n + 1) + 1 /\ m # 1 /\ m - 1 = n + 1
      BY <3>1, <2>0
    <3>3. k[m] = k[m - 1] \o s[m]
      BY <3>2, <2>4
    <3>4. f[m] = f[m - 1] \o s[m]
      BY <3>2, <2>2
    <3>5. k[n + 1] = f[n + 1]
      BY <2>7, <3>1, <2>0
    <3> QED BY <3>2, <3>3, <3>4, <3>5
  <2>8. Nat \subseteq A
    <3> HIDE DEF A
    <3> QED BY <2>6, <2>7, NatSetInduction
  <2>9. PICK n \in Nat : n + 1 = Len(s)
    <3>1. Len(s) - 1 \in Nat /\ (Len(s) - 1) + 1 = Len(s)
      BY <2>0
    <3> QED BY <3>1
  <2>10. k[Len(s)] = f[Len(s)]
    BY <2>8, <2>9
  <2>11. Len(s) \in 1 .. Len(s)
    BY <2>0
  <2>12. FlattenSeq(s) = g[Len(s)]
    BY <2>1, <2>4, <2>10, <2>11
  <2> QED BY <2>12, <1>2
<1> QED BY <1>e, <1>f

(* What it gives for one more piece. *)
LEMMA Flattens ==
    ASSUME NEW s \in Seq(Seq(Chars))
    PROVE  /\ FlattenSeq(s) \in Seq(Chars)
           /\ FlattenSeq(<<>>) = <<>>
           /\ \A c \in Seq(Chars) : FlattenSeq(Append(s, c)) = FlattenSeq(s) \o c
<1>1. PICK g : Loop(CatFn, <<>>, s, Seq(Chars), g) /\ FlattenSeq(s) = g[Len(s)]
  BY FlattenLoop
<1>2. FlattenSeq(s) \in Seq(Chars)
  <2>1. g \in [0 .. Len(s) -> Seq(Chars)]
    BY <1>1 DEF Loop
  <2>2. Len(s) \in 0 .. Len(s)
    BY LenProperties
  <2> QED BY <1>1, <2>1, <2>2, Zenon
<1>3. FlattenSeq(<<>>) = <<>>
  BY DEF FlattenSeq
<1>4. ASSUME NEW c \in Seq(Chars) PROVE FlattenSeq(Append(s, c)) = FlattenSeq(s) \o c
  <2>1. Append(s, c) \in Seq(Seq(Chars)) /\ Len(Append(s, c)) = Len(s) + 1
    BY AppendProperties
  <2>2. PICK h : Loop(CatFn, <<>>, Append(s, c), Seq(Chars), h) /\ FlattenSeq(Append(s, c)) = h[Len(Append(s, c))]
    BY <2>1, FlattenLoop
  <2>3. h[Len(s) + 1] = CatFn[g[Len(s)]][c]
    BY <1>1, <2>2, LoopAppend
  <2> QED BY <1>1, <1>2, <2>1, <2>2, <2>3 DEF CatFn
<1> QED BY <1>2, <1>3, <1>4

(* What Stripped keeps of a CR that d follows, and of another character. *)
Between(c, d) == IF c = "CR" /\ d \in {"CR", "LF"} THEN <<>> ELSE <<c>>

(* What Stripped keeps of all but the last character. *)
Core(s) == [i \in 1 .. Len(s) - 1 |-> Between(s[i], s[i + 1])]

LEMMA CoreType ==
    ASSUME NEW s \in Seq(Chars), s # <<>>
    PROVE  Core(s) \in Seq(Seq(Chars)) /\ Len(Core(s)) = Len(s) - 1
<1>1. PICK n \in Nat : n = Len(s) - 1
  BY EmptySeq, LenProperties
<1>2. \A i \in 1 .. n : Between(s[i], s[i + 1]) \in Seq(Chars)
  <2> SUFFICES ASSUME NEW i \in 1 .. n PROVE Between(s[i], s[i + 1]) \in Seq(Chars)
    OBVIOUS
  <2>1. i \in 1 .. Len(s)
    BY <1>1
  <2>2. PICK c \in Chars : c = s[i]
    BY <2>1
  <2>3. <<c>> \in Seq(Chars) /\ <<>> \in Seq(Chars)
    OBVIOUS
  <2> QED BY <2>2, <2>3 DEF Between
<1>3. PICK S : S = Seq(Chars)
  OBVIOUS
<1>4. PICK p : p = [i \in 1 .. n |-> Between(s[i], s[i + 1])]
  OBVIOUS
<1>5. p \in [1 .. n -> S]
  BY <1>2, <1>3, <1>4
<1>6. p \in Seq(S) /\ Len(p) = n
  BY <1>5
<1> QED BY <1>1, <1>3, <1>4, <1>6 DEF Core

(* One more character settles what comes of the one before. *)
LEMMA CoreAppend ==
    ASSUME NEW s \in Seq(Chars), s # <<>>, NEW d \in Chars
    PROVE  Core(Append(s, d)) = Append(Core(s), Between(s[Len(s)], d))
<1>1. PICK n \in Nat : n = Len(s) - 1
  BY EmptySeq, LenProperties
<1>2. PICK t \in Seq(Chars) : t = Append(s, d)
  BY AppendProperties
<1>3. t # <<>> /\ Len(t) = n + 2 /\ t[n + 2] = d /\ Len(s) = n + 1 /\ \A i \in 1 .. n + 1 : t[i] = s[i]
  BY <1>1, <1>2, AppendProperties
<1>4. Core(t) = [i \in 1 .. n + 1 |-> Between(t[i], t[i + 1])]
  BY <1>3 DEF Core
<1>5. Core(s) = [i \in 1 .. n |-> Between(s[i], s[i + 1])]
  BY <1>3 DEF Core
<1>6. PICK S : S = Seq(Chars)
  OBVIOUS
<1>7. PICK p \in Seq(S) : p = Core(s) /\ Len(p) = n
  BY <1>1, <1>6, CoreType
<1>8. PICK q \in Seq(S) : q = Core(t) /\ Len(q) = n + 1
  <2>1. Core(t) \in Seq(Seq(Chars)) /\ Len(Core(t)) = Len(t) - 1
    BY <1>3, CoreType
  <2>2. Len(t) - 1 = n + 1
    BY <1>3
  <2> QED BY <2>1, <2>2, <1>6
<1>9. PICK x \in S : x = Between(s[n + 1], d)
  <2>1. q[n + 1] \in S
    BY <1>8
  <2>2. q[n + 1] = Between(t[n + 1], t[(n + 1) + 1])
    BY <1>4, <1>8
  <2>3. t[n + 1] = s[n + 1] /\ t[(n + 1) + 1] = d
    BY <1>3
  <2> QED BY <2>1, <2>2, <2>3
<1>10. \A i \in 1 .. n : q[i] = p[i]
  <2> SUFFICES ASSUME NEW i \in 1 .. n PROVE q[i] = p[i]
    OBVIOUS
  <2>1. i \in 1 .. n + 1 /\ i + 1 \in 1 .. n + 1
    OBVIOUS
  <2>2. q[i] = Between(t[i], t[i + 1])
    BY <2>1, <1>4, <1>8
  <2>3. p[i] = Between(s[i], s[i + 1])
    BY <1>5, <1>7
  <2> QED BY <2>1, <2>2, <2>3, <1>3
<1>11. q[n + 1] = x
  <2>1. q[n + 1] = Between(t[n + 1], t[(n + 1) + 1])
    BY <1>4, <1>8
  <2>2. t[n + 1] = s[n + 1] /\ t[(n + 1) + 1] = d
    BY <1>3
  <2> QED BY <2>1, <2>2, <1>9
<1>12. q = Append(p, x)
  <2>1. Append(p, x) \in Seq(S) /\ Len(Append(p, x)) = n + 1
    BY <1>7
  <2> QED BY <2>1, <1>7, <1>8, <1>10, <1>11
<1> QED BY <1>2, <1>3, <1>7, <1>8, <1>9, <1>12

(* Stripped is what comes from all but the last character, and that character. *)
LEMMA StrippedCore ==
    ASSUME NEW s \in Seq(Chars), s # <<>>
    PROVE  Stripped(s) = FlattenSeq(Core(s)) \o <<s[Len(s)]>>
<1>1. PICK n \in Nat : n = Len(s) - 1
  BY EmptySeq, LenProperties
<1>2. Len(s) = n + 1 /\ DOMAIN s = 1 .. n + 1 /\ \A i \in 1 .. n + 1 : s[i] \in Chars
  BY <1>1, LenProperties, ElementOfSeq
<1>3. PICK S : S = Seq(Chars)
  OBVIOUS
<1>4. PICK p \in Seq(S) : p = Core(s) /\ Len(p) = n
  BY <1>1, <1>3, CoreType
<1>5. PICK x \in S : x = <<s[n + 1]>>
  <2>1. s[n + 1] \in Chars
    BY <1>2
  <2>2. <<s[n + 1]>> \in Seq(Chars)
    BY <2>1
  <2> QED BY <2>2, <1>3
<1>6. PICK q : q = [i \in DOMAIN s |-> IF s[i] = "CR" /\ Char(s, i + 1) \in {"CR", "LF"} THEN <<>> ELSE <<s[i]>>]
  OBVIOUS
<1>7. q = [i \in 1 .. n + 1 |-> q[i]] /\ DOMAIN q = 1 .. n + 1
  BY <1>2, <1>6
<1>8. \A i \in 1 .. n : q[i] = p[i]
  <2> SUFFICES ASSUME NEW i \in 1 .. n PROVE q[i] = p[i]
    OBVIOUS
  <2>1. i \in 1 .. n + 1 /\ i + 1 \in 1 .. n + 1
    OBVIOUS
  <2>2. Char(s, i + 1) = s[i + 1]
    BY <2>1, <1>2 DEF Char
  <2>3. q[i] = Between(s[i], s[i + 1])
    BY <2>1, <2>2, <1>2, <1>6 DEF Between
  <2>4. p[i] = Between(s[i], s[i + 1])
    BY <1>2, <1>4 DEF Core
  <2> QED BY <2>3, <2>4
<1>9. q[n + 1] = x
  <2>1. Char(s, (n + 1) + 1) = "none"
    BY <1>2 DEF Char
  <2> QED BY <2>1, <1>2, <1>5, <1>6
<1>10. q = Append(p, x)
  <2>1. Append(p, x) \in Seq(S) /\ Len(Append(p, x)) = n + 1
    BY <1>4
  <2>2. q \in [1 .. n + 1 -> S]
    <3>1. \A i \in 1 .. n : p[i] \in S
      BY <1>4
    <3>2. \A i \in 1 .. n + 1 : q[i] \in S
      BY <3>1, <1>8, <1>9
    <3> QED BY <3>2, <1>7
  <2>3. q \in Seq(S) /\ Len(q) = n + 1
    BY <2>2
  <2> QED BY <2>1, <2>3, <1>4, <1>8, <1>9
<1>11. FlattenSeq(q) = FlattenSeq(p) \o x
  BY <1>3, <1>4, <1>10, Flattens
<1>12. Stripped(s) = FlattenSeq(q)
  BY <1>6 DEF Stripped
<1> QED BY <1>2, <1>4, <1>5, <1>11, <1>12

(* What the loop has put out and kept back, and what Stripped makes of the same. *)
Agrees(t, f, c) ==
    /\ t.was_cr <=> c = "CR"
    /\ c = "CR" => t.out = f
    /\ c # "CR" => t.out = Append(f, c)

(* A turn of the loop keeps them in agreement, whatever character comes. *)
LEMMA StepAgrees ==
    ASSUME NEW t \in Accs, NEW f \in Seq(Chars), NEW c \in Chars, NEW d \in Chars, Agrees(t, f, c)
    PROVE  Agrees(Step(t, d), f \o Between(c, d), d)
<1>1. f \o <<>> = f /\ f \o <<c>> = Append(f, c) /\ <<c>> \in Seq(Chars)
  BY ConcatEmptySeq, AppendIsConcat
<1>2. PICK o \in Seq(Chars) : o = t.out
  BY DEF Accs
<1>3. o \o <<d>> = Append(o, d) /\ Append(o, "CR") \o <<d>> = Append(Append(o, "CR"), d)
  <2>1. Append(o, "CR") \in Seq(Chars)
    BY DEF Chars
  <2> QED BY <2>1, AppendIsConcat
<1>4. CASE d = "CR"
  <2>1. Step(t, d) = [was_cr |-> TRUE, out |-> o]
    BY <1>2, <1>4 DEF Step
  <2>2. f \o Between(c, d) = o
    BY <1>1, <1>2, <1>4 DEF Between, Agrees
  <2>3. PICK r, g : r = Step(t, d) /\ g = f \o Between(c, d)
    OBVIOUS
  <2>4. r.was_cr = TRUE /\ r.out = o
    BY <2>1, <2>3
  <2>5. Agrees(r, g, d)
    BY <2>2, <2>3, <2>4, <1>4 DEF Agrees
  <2> QED BY <2>3, <2>5
<1>5. CASE d = "LF"
  <2>1. Step(t, d) = [was_cr |-> FALSE, out |-> Append(o, d)]
    BY <1>2, <1>5 DEF Step
  <2>2. f \o Between(c, d) = o
    BY <1>1, <1>2, <1>5 DEF Between, Agrees
  <2>3. PICK r, g : r = Step(t, d) /\ g = f \o Between(c, d)
    OBVIOUS
  <2>4. r.was_cr = FALSE /\ r.out = Append(o, d)
    BY <2>1, <2>3
  <2>5. Agrees(r, g, d)
    BY <2>2, <2>3, <2>4, <1>5 DEF Agrees
  <2> QED BY <2>3, <2>5
<1>6. CASE d = "x"
  <2>1. Step(t, d) = [was_cr |-> FALSE, out |-> IF c = "CR" THEN Append(Append(o, "CR"), d) ELSE Append(o, d)]
    BY <1>2, <1>3, <1>6 DEF Step, Agrees
  <2>2. f \o Between(c, d) = IF c = "CR" THEN Append(o, "CR") ELSE o
    BY <1>1, <1>2, <1>6 DEF Between, Agrees
  <2>3. PICK r, g : r = Step(t, d) /\ g = f \o Between(c, d)
    OBVIOUS
  <2>4. r.was_cr = FALSE /\ r.out = (IF c = "CR" THEN Append(Append(o, "CR"), d) ELSE Append(o, d))
    BY <2>1, <2>3
  <2>5. Agrees(r, g, d)
    BY <2>2, <2>3, <2>4, <1>6 DEF Agrees
  <2> QED BY <2>3, <2>5
<1> QED BY <1>4, <1>5, <1>6 DEF Chars

(* So they agree for any file. *)
LEMMA TransformAgrees ==
    ASSUME NEW s \in Seq(Chars), s # <<>>
    PROVE  Agrees(transform(FALSE, s), FlattenSeq(Core(s)), s[Len(s)])
<1> DEFINE A == {u \in Seq(Chars) : u # <<>> => Agrees(transform(FALSE, u), FlattenSeq(Core(u)), u[Len(u)])}
<1>1. <<>> \in A
  OBVIOUS
<1>2. ASSUME NEW u \in Seq(Chars), NEW d \in Chars, u \in A PROVE Append(u, d) \in A
  <2>1. PICK v \in Seq(Chars) : v = Append(u, d)
    BY AppendProperties
  <2>2. v # <<>> /\ v[Len(v)] = d
    BY <2>1, AppendProperties
  <2>3. transform(FALSE, v) = Step(transform(FALSE, u), d) /\ transform(FALSE, u) \in Accs
    BY <2>1, Transforms
  <2>4. CASE u = <<>>
    <3>1. Core(v) = <<>>
      <4>1. Len(v) - 1 = 0
        BY <2>1, <2>4
      <4>2. 1 .. 0 = {}
        OBVIOUS
      <4>3. Core(v) = [i \in {} |-> Between(v[i], v[i + 1])]
        BY <4>1, <4>2 DEF Core
      <4> QED BY <4>3
    <3>2. FlattenSeq(Core(v)) = <<>>
      BY <3>1 DEF FlattenSeq
    <3>3. transform(FALSE, u) = [was_cr |-> FALSE, out |-> <<>>]
      BY <2>4, Transforms DEF Begun
    <3>4. PICK r : r = Step([was_cr |-> FALSE, out |-> <<>>], d)
      OBVIOUS
    <3>5. Append(<<>>, d) = <<d>> /\ <<>> \o <<d>> = <<d>>
      OBVIOUS
    <3>6. ASSUME d = "CR" PROVE Agrees(r, <<>>, d)
      <4>1. r.was_cr = TRUE /\ r.out = <<>>
        BY <3>4, <3>6 DEF Step
      <4> QED BY <4>1, <3>6 DEF Agrees
    <3>7. ASSUME d # "CR" PROVE Agrees(r, <<>>, d)
      <4>1. r.was_cr = FALSE /\ r.out = <<d>>
        BY <3>4, <3>5, <3>7 DEF Step
      <4> QED BY <4>1, <3>5, <3>7 DEF Agrees
    <3>8. Agrees(r, <<>>, d)
      BY <3>6, <3>7
    <3>9. Agrees(transform(FALSE, v), <<>>, d)
      BY <2>3, <3>3, <3>4, <3>8
    <3> QED BY <2>1, <2>2, <3>2, <3>9
  <2>5. CASE u # <<>>
    <3>1. PICK c \in Chars : c = u[Len(u)]
      BY <2>5, EmptySeq, LenProperties, ElementOfSeq
    <3>2. Core(u) \in Seq(Seq(Chars)) /\ Core(v) = Append(Core(u), Between(c, d))
      BY <2>1, <2>5, <3>1, CoreType, CoreAppend
    <3>3. Between(c, d) \in Seq(Chars)
      <4>1. <<>> \in Seq(Chars) /\ <<c>> \in Seq(Chars)
        OBVIOUS
      <4> QED BY <4>1 DEF Between
    <3>4. PICK f \in Seq(Chars) : f = FlattenSeq(Core(u)) /\ FlattenSeq(Core(v)) = f \o Between(c, d)
      BY <3>2, <3>3, Flattens
    <3>5. Agrees(transform(FALSE, u), f, c)
      BY <1>2, <2>5, <3>1, <3>4
    <3>6. Agrees(transform(FALSE, v), f \o Between(c, d), d)
      BY <2>3, <3>5, StepAgrees
    <3> QED BY <2>1, <2>2, <3>4, <3>6
  <2> QED BY <2>4, <2>5
<1>3. Seq(Chars) \subseteq A
  <2> HIDE DEF A
  <2> QED BY <1>1, <1>2, SeqSetInduction
<1> QED BY <1>3

(* What has been put out, and the CR that nothing followed. *)
Ending(t) == t.out \o (IF t.was_cr THEN <<"CR">> ELSE <<>>)

(* The loop over the whole input strips it. *)
LEMMA TransformStrips ==
    ASSUME NEW s \in Seq(Chars)
    PROVE  Stripped(s) = Ending(transform(FALSE, s))
<1>1. CASE s = <<>>
  <2>1. transform(FALSE, s) = Begun(FALSE)
    BY <1>1, Transforms
  <2>2. Stripped(s) = <<>>
    <3>1. PICK q : q = [i \in DOMAIN s |-> IF s[i] = "CR" /\ Char(s, i + 1) \in {"CR", "LF"} THEN <<>> ELSE <<s[i]>>]
      OBVIOUS
    <3>2. q = <<>>
      BY <1>1, <3>1
    <3> QED BY <3>1, <3>2 DEF Stripped, FlattenSeq
  <2>3. <<>> \o <<>> = <<>>
    OBVIOUS
  <2>4. ~Begun(FALSE).was_cr /\ Begun(FALSE).out = <<>>
    BY DEF Begun
  <2> QED BY <2>1, <2>2, <2>3, <2>4 DEF Ending
<1>2. CASE s # <<>>
  <2>1. PICK c \in Chars : c = s[Len(s)]
    BY <1>2, EmptySeq, LenProperties, ElementOfSeq
  <2>2. PICK f \in Seq(Chars) : f = FlattenSeq(Core(s))
    BY <1>2, CoreType, Flattens
  <2>3. Stripped(s) = f \o <<c>>
    BY <1>2, <2>1, <2>2, StrippedCore
  <2>4. PICK t \in Accs : t = transform(FALSE, s)
    BY Transforms
  <2>5. Agrees(t, f, c)
    BY <1>2, <2>1, <2>2, <2>4, TransformAgrees
  <2>6. f \o <<c>> = Append(f, c) /\ Append(f, c) \in Seq(Chars)
    BY AppendIsConcat, AppendProperties
  <2>7. Append(f, c) \o <<>> = Append(f, c)
    BY <2>6, ConcatEmptySeq
  <2> QED BY <2>3, <2>4, <2>5, <2>6, <2>7 DEF Agrees, Ending
<1> QED BY <1>1, <1>2

LEMMA Pair ==
    ASSUME NEW c \in Chars, NEW d \in Chars
    PROVE  <<c>> \o <<d>> = <<c, d>>
<1>1. PICK r \in Seq(Chars) : r = <<c>> /\ Len(r) = 1 /\ r[1] = c
  <2>1. <<c>> \in Seq(Chars) /\ Len(<<c>>) = 1 /\ <<c>>[1] = c
    OBVIOUS
  <2> QED BY <2>1
<1>2. PICK u \in Seq(Chars) : u = <<d>> /\ Len(u) = 1 /\ u[1] = d
  <2>1. <<d>> \in Seq(Chars) /\ Len(<<d>>) = 1 /\ <<d>>[1] = d
    OBVIOUS
  <2> QED BY <2>1
<1>3. PICK t \in Seq(Chars) : t = <<c, d>> /\ Len(t) = 2 /\ t[1] = c /\ t[2] = d
  <2>1. <<c, d>> \in Seq(Chars) /\ Len(<<c, d>>) = 2 /\ <<c, d>>[1] = c /\ <<c, d>>[2] = d
    OBVIOUS
  <2> QED BY <2>1
<1>4. PICK v \in Seq(Chars) : v = r \o u
  BY ConcatProperties
<1>a. Len(v) = 2 /\ v[1] = c /\ v[2] = d
  BY <1>1, <1>2, <1>4, ConcatProperties
<1>5. \A i \in 1 .. 2 : i = 1 \/ i = 2
  OBVIOUS
<1>6. \A i \in 1 .. Len(v) : v[i] = t[i]
  BY <1>3, <1>4, <1>a, <1>5
<1>7. v = t
  BY <1>3, <1>a, <1>6, SeqEqual
<1> QED BY <1>1, <1>2, <1>3, <1>4, <1>7

LEMMA Associative ==
    \A a, b, c \in Seq(Chars) : (a \o b) \o c = a \o (b \o c)
BY ConcatAssociative

(* What Completed makes of c after the character b. *)
After(b, c) == IF c = "LF" /\ b # "CR" THEN <<"CR", "LF">> ELSE <<c>>

(* The pieces Completed puts together. *)
Parts(s) == [i \in DOMAIN s |-> IF s[i] = "LF" /\ Char(s, i - 1) # "CR" THEN <<"CR", "LF">> ELSE <<s[i]>>]

LEMMA PartsType ==
    ASSUME NEW s \in Seq(Chars)
    PROVE  /\ Parts(s) \in Seq(Seq(Chars)) /\ Len(Parts(s)) = Len(s)
           /\ \A i \in 1 .. Len(s) : Parts(s)[i] = After(Char(s, i - 1), s[i])
<1>1. PICK n \in Nat : n = Len(s) /\ DOMAIN s = 1 .. n
  BY LenProperties
<1>2. PICK p : p = Parts(s)
  OBVIOUS
<1>3. ASSUME NEW i \in 1 .. n PROVE p[i] = After(Char(s, i - 1), s[i])
  BY <1>1, <1>2 DEF Parts, After
<1>4. ASSUME NEW i \in 1 .. n PROVE p[i] \in Seq(Chars)
  <2>1. PICK c \in Chars : c = s[i]
    BY <1>1, ElementOfSeq
  <2>2. <<c>> \in Seq(Chars) /\ <<"CR", "LF">> \in Seq(Chars)
    BY DEF Chars
  <2> QED BY <2>1, <2>2, <1>3 DEF After
<1>5. PICK S : S = Seq(Chars)
  OBVIOUS
<1>6. p \in [1 .. n -> S]
  <2>1. p = [i \in 1 .. n |-> p[i]]
    BY <1>1, <1>2 DEF Parts
  <2> QED BY <2>1, <1>4, <1>5
<1>7. p \in Seq(S) /\ Len(p) = n
  BY <1>6
<1> QED BY <1>1, <1>2, <1>3, <1>5, <1>7

(* One more character is one more piece: those before it stay. *)
LEMMA PartsAppend ==
    ASSUME NEW s \in Seq(Chars), NEW c \in Chars
    PROVE  Parts(Append(s, c)) = Append(Parts(s), After(Char(s, Len(s)), c))
<1>1. PICK n \in Nat : n = Len(s) /\ DOMAIN s = 1 .. n
  BY LenProperties
<1>2. PICK t \in Seq(Chars) : t = Append(s, c)
  BY AppendProperties
<1>3. Len(t) = n + 1 /\ DOMAIN t = 1 .. n + 1 /\ t[n + 1] = c /\ \A i \in 1 .. n : t[i] = s[i]
  BY <1>1, <1>2, AppendProperties, LenProperties
<1>4. PICK S : S = Seq(Chars)
  OBVIOUS
<1>5. PICK p \in Seq(S) : p = Parts(s) /\ Len(p) = n
  BY <1>1, <1>4, PartsType
<1>6. PICK q \in Seq(S) : q = Parts(t) /\ Len(q) = n + 1
  BY <1>3, <1>4, PartsType
<1>7. ASSUME NEW i \in 0 .. n PROVE Char(t, i) = Char(s, i)
  BY <1>1, <1>3 DEF Char
<1>8. ASSUME NEW i \in 1 .. n PROVE q[i] = p[i]
  <2>1. i - 1 \in 0 .. n /\ i \in 1 .. n + 1
    OBVIOUS
  <2>2. q[i] = After(Char(t, i - 1), t[i])
    BY <2>1, <1>3, <1>6, PartsType
  <2>3. p[i] = After(Char(s, i - 1), s[i])
    BY <1>1, <1>5, PartsType
  <2> QED BY <2>1, <2>2, <2>3, <1>3, <1>7
<1>9. PICK x \in S : x = q[n + 1]
  BY <1>6
<1>10. x = After(Char(s, n), c)
  <2>0. PICK m \in 1 .. Len(t) : m = n + 1
    BY <1>3
  <2>a. q[m] = After(Char(t, m - 1), t[m])
    BY <1>6, PartsType
  <2>1. q[n + 1] = After(Char(t, (n + 1) - 1), t[n + 1])
    BY <2>0, <2>a
  <2>2. (n + 1) - 1 = n /\ Char(t, n) = Char(s, n)
    BY <1>7
  <2> QED BY <2>1, <2>2, <1>3, <1>9
<1>11. q = Append(p, x)
  <2>1. Append(p, x) \in Seq(S) /\ Len(Append(p, x)) = n + 1
    BY <1>5
  <2> QED BY <2>1, <1>5, <1>6, <1>8, <1>9
<1> QED BY <1>1, <1>2, <1>5, <1>6, <1>10, <1>11

(* What Expand does with c, whether or not a CR precedes it. *)
LEMMA ExpandAfter ==
    ASSUME NEW a \in Accs, NEW c \in Chars, NEW b, a.was_cr <=> b = "CR"
    PROVE  Expand(a, c).out = a.out \o After(b, c) /\ (Expand(a, c).was_cr <=> c = "CR")
<1>1. PICK o \in Seq(Chars) : o = a.out
  BY DEF Accs
<1>2. Append(o, "CR") \o <<"LF">> = o \o <<"CR", "LF">>
  <2>1. "CR" \in Chars /\ "LF" \in Chars
    BY DEF Chars
  <2>2. Append(o, "CR") = o \o <<"CR">> /\ <<"CR">> \in Seq(Chars) /\ <<"LF">> \in Seq(Chars)
    BY <2>1, AppendIsConcat
  <2>3. (o \o <<"CR">>) \o <<"LF">> = o \o (<<"CR">> \o <<"LF">>)
    BY <2>2, ConcatAssociative
  <2>4. <<"CR">> \o <<"LF">> = <<"CR", "LF">>
    BY Pair, <2>1
  <2> QED BY <2>2, <2>3, <2>4
<1>3. PICK r : r = Expand(a, c)
  OBVIOUS
<1>4. r.was_cr <=> c = "CR"
  BY <1>3 DEF Expand
<1>5. r.out = (IF c = "LF" /\ ~a.was_cr THEN Append(o, "CR") ELSE o) \o <<c>>
  BY <1>1, <1>3 DEF Expand
<1>6. r.out = o \o After(b, c)
  BY <1>2, <1>5 DEF After
<1> QED BY <1>1, <1>3, <1>4, <1>6

(* The loop of ascii_reader over the whole input completes it. *)
LEMMA ExpandedCompletes ==
    ASSUME NEW s \in Seq(Chars)
    PROVE  /\ Completed(s) = Expanded(FALSE, s).out
           /\ Expanded(FALSE, s).was_cr <=> Char(s, Len(s)) = "CR"
<1> DEFINE Good(u) == /\ FlattenSeq(Parts(u)) = Expanded(FALSE, u).out
                      /\ Expanded(FALSE, u).was_cr <=> Char(u, Len(u)) = "CR"
           A == {u \in Seq(Chars) : Good(u)}
<1>1. <<>> \in A
  <2>1. Expanded(FALSE, <<>>) = Begun(FALSE)
    BY Expands, EmptySeq
  <2>2. ~Begun(FALSE).was_cr /\ Begun(FALSE).out = <<>>
    BY DEF Begun
  <2>3. Parts(<<>>) = <<>> /\ Char(<<>>, Len(<<>>)) = "none"
    BY DEF Parts, Char
  <2>4. FlattenSeq(Parts(<<>>)) = <<>>
    BY <2>3 DEF FlattenSeq
  <2>5. <<>> \in Seq(Chars)
    OBVIOUS
  <2> QED BY <2>1, <2>2, <2>3, <2>4, <2>5
<1>2. ASSUME NEW u \in Seq(Chars), NEW c \in Chars, u \in A PROVE Append(u, c) \in A
  <2>1. PICK v \in Seq(Chars) : v = Append(u, c)
    BY AppendProperties
  <2>2. Char(v, Len(v)) = c
    BY <2>1, AppendProperties, LenProperties DEF Char
  <2>3. PICK a \in Accs : a = Expanded(FALSE, u) /\ Expanded(FALSE, v) = Expand(a, c)
    BY <2>1, Expands
  <2>4. PICK b : b = Char(u, Len(u))
    OBVIOUS
  <2>5. a.was_cr <=> b = "CR"
    BY <1>2, <2>3, <2>4
  <2>6. Expand(a, c).out = a.out \o After(b, c) /\ (Expand(a, c).was_cr <=> c = "CR")
    BY <2>5, ExpandAfter
  <2>7. After(b, c) \in Seq(Chars)
    <3>1. <<c>> \in Seq(Chars) /\ <<"CR", "LF">> \in Seq(Chars)
      BY DEF Chars
    <3> QED BY <3>1 DEF After
  <2>8. FlattenSeq(Parts(v)) = FlattenSeq(Parts(u)) \o After(b, c)
    <3>1. Parts(u) \in Seq(Seq(Chars)) /\ Parts(v) = Append(Parts(u), After(b, c))
      BY <2>1, <2>4, PartsType, PartsAppend
    <3> QED BY <3>1, <2>7, Flattens
  <2>9. FlattenSeq(Parts(u)) = a.out
    BY <1>2, <2>3
  <2> QED BY <2>1, <2>2, <2>3, <2>6, <2>8, <2>9
<1>3. Seq(Chars) \subseteq A
  <2> HIDE DEF A
  <2> QED BY <1>1, <1>2, SeqSetInduction
<1>4. Completed(s) = FlattenSeq(Parts(s))
  BY DEF Completed, Parts
<1> QED BY <1>3, <1>4

(* Expanding in two goes. *)
LEMMA ExpandedConcat ==
    ASSUME NEW s \in Seq(Chars), NEW t \in Seq(Chars)
    PROVE  /\ Expanded(FALSE, s \o t).out = Expanded(FALSE, s).out \o Expanded(Expanded(FALSE, s).was_cr, t).out
           /\ Expanded(FALSE, s \o t).was_cr <=> Expanded(Expanded(FALSE, s).was_cr, t).was_cr
<1>1. PICK a \in Accs : a = Expanded(FALSE, s)
  BY Expands
<1>2. PICK o \in Seq(Chars) : o = a.out
  BY DEF Accs
<1>3. PICK w \in BOOLEAN : w = a.was_cr
  BY DEF Accs
<1> DEFINE Good(u) == /\ Expanded(FALSE, s \o u).out = o \o Expanded(w, u).out
                      /\ Expanded(FALSE, s \o u).was_cr <=> Expanded(w, u).was_cr
           A == {u \in Seq(Chars) : Good(u)}
<1>4. <<>> \in A
  <2>1. Expanded(w, <<>>) = Begun(w)
    BY Expands, EmptySeq
  <2>2. (Begun(w).was_cr <=> w) /\ Begun(w).out = <<>>
    BY DEF Begun
  <2>3. s \o <<>> = s /\ o \o <<>> = o /\ <<>> \in Seq(Chars)
    BY ConcatEmptySeq
  <2> QED BY <2>1, <2>2, <2>3, <1>1, <1>2, <1>3
<1>5. ASSUME NEW u \in Seq(Chars), NEW c \in Chars, u \in A PROVE Append(u, c) \in A
  <2>1. PICK v \in Seq(Chars) : v = s \o u
    BY ConcatProperties
  <2>2. s \o Append(u, c) = Append(v, c) /\ Append(u, c) \in Seq(Chars)
    <3>1. Append(u, c) = u \o <<c>> /\ Append(v, c) = v \o <<c>> /\ <<c>> \in Seq(Chars)
      BY AppendIsConcat
    <3> QED BY <2>1, <3>1, ConcatAssociative, AppendProperties
  <2>3. PICK e \in Accs : e = Expanded(FALSE, v) /\ Expanded(FALSE, Append(v, c)) = Expand(e, c)
    BY Expands
  <2>4. PICK f \in Accs : f = Expanded(w, u) /\ Expanded(w, Append(u, c)) = Expand(f, c)
    BY Expands
  <2>5. e.out = o \o f.out /\ (e.was_cr <=> f.was_cr)
    BY <1>5, <2>1, <2>3, <2>4
  <2>6. PICK b : (b = "CR") <=> e.was_cr
    <3>1. "CR" # "LF"
      OBVIOUS
    <3> QED BY <3>1
  <2>7. Expand(e, c).out = e.out \o After(b, c) /\ (Expand(e, c).was_cr <=> c = "CR")
    BY <2>6, ExpandAfter
  <2>8. Expand(f, c).out = f.out \o After(b, c) /\ (Expand(f, c).was_cr <=> c = "CR")
    BY <2>5, <2>6, ExpandAfter
  <2>9. After(b, c) \in Seq(Chars) /\ f.out \in Seq(Chars)
    <3>1. <<c>> \in Seq(Chars) /\ <<"CR", "LF">> \in Seq(Chars)
      BY DEF Chars
    <3> QED BY <3>1 DEF After, Accs
  <2>10. (o \o f.out) \o After(b, c) = o \o (f.out \o After(b, c))
    <3>1. PICK k \in Seq(Chars) : k = f.out
      BY <2>9
    <3>2. PICK l \in Seq(Chars) : l = After(b, c)
      BY <2>9
    <3>0. \A p, q \in Seq(Chars) : (o \o p) \o q = o \o (p \o q)
      BY Associative
    <3>3. (o \o k) \o l = o \o (k \o l)
      BY <3>0
    <3> QED BY <3>1, <3>2, <3>3
  <2>11. Good(Append(u, c))
    BY <2>2, <2>3, <2>4, <2>5, <2>7, <2>8, <2>10
  <2> QED BY <2>2, <2>11
<1>6. Seq(Chars) \subseteq A
  <2> HIDE DEF A
  <2> QED BY <1>4, <1>5, SeqSetInduction
<1> QED BY <1>1, <1>2, <1>3, <1>6

(* A file without CRs, expanded and stripped. *)
LEMMA RoundTrip ==
    ASSUME NEW s \in Seq(Chars), "CR" \notin ToSet(s)
    PROVE  Stripped(Completed(s)) = s
<1> DEFINE Clean(u) == \A i \in 1 .. Len(u) : u[i] # "CR"
           Good(u) == /\ ~Expanded(FALSE, u).was_cr
                      /\ transform(FALSE, Expanded(FALSE, u).out) = [was_cr |-> FALSE, out |-> u]
           A == {u \in Seq(Chars) : Clean(u) => Good(u)}
<1>1. <<>> \in A
  <2>1. Expanded(FALSE, <<>>) = Begun(FALSE)
    BY Expands, EmptySeq
  <2>2. ~Begun(FALSE).was_cr /\ Begun(FALSE).out = <<>> /\ Begun(FALSE) = [was_cr |-> FALSE, out |-> <<>>]
    BY DEF Begun
  <2>3. transform(FALSE, <<>>) = Begun(FALSE) /\ <<>> \in Seq(Chars)
    BY Transforms, EmptySeq
  <2> QED BY <2>1, <2>2, <2>3
<1>2. ASSUME NEW u \in Seq(Chars), NEW c \in Chars, u \in A PROVE Append(u, c) \in A
  <2>1. PICK v \in Seq(Chars) : v = Append(u, c)
    BY AppendProperties
  <2>2. SUFFICES ASSUME Clean(v) PROVE Good(v)
    BY <2>1
  <2>3. Len(v) = Len(u) + 1 /\ v[Len(u) + 1] = c /\ Len(u) \in Nat /\ \A i \in 1 .. Len(u) : v[i] = u[i]
    BY <2>1, AppendProperties, LenProperties
  <2>4. Clean(u) /\ c # "CR"
    BY <2>2, <2>3
  <2>5. PICK e \in Accs : e = Expanded(FALSE, u) /\ Expanded(FALSE, v) = Expand(e, c)
    BY <2>1, Expands
  <2>6. ~e.was_cr /\ transform(FALSE, e.out) = [was_cr |-> FALSE, out |-> u]
    BY <1>2, <2>4, <2>5
  <2>7. PICK o \in Seq(Chars) : o = e.out
    BY DEF Accs
  <2>8. PICK r \in Accs : r = Expand(e, c)
    BY ExpandType
  <2>9. ~r.was_cr /\ r.out = (IF c = "LF" THEN Append(o, "CR") ELSE o) \o <<c>>
    BY <2>4, <2>6, <2>7, <2>8 DEF Expand
  <2>10. PICK p \in Seq(Chars) : p = Append(o, "CR")
    <3>1. Append(o, "CR") \in Seq(Chars)
      BY DEF Chars
    <3> QED BY <3>1
  <2>11. o \o <<c>> = Append(o, c) /\ p \o <<c>> = Append(p, c)
    BY AppendIsConcat
  <2>12. PICK a : a = [was_cr |-> FALSE, out |-> u]
    OBVIOUS
  <2>13. transform(FALSE, o) = a
    BY <2>6, <2>7, <2>12
  <2>14. CASE c = "LF"
    <3>1. r.out = Append(p, c)
      BY <2>9, <2>10, <2>11, <2>14
    <3>2. transform(FALSE, p) = Step(a, "CR")
      BY <2>10, <2>13, Transforms DEF Chars
    <3>3. transform(FALSE, Append(p, c)) = Step(Step(a, "CR"), c)
      BY <3>2, Transforms
    <3>4. Step(a, "CR") = [was_cr |-> TRUE, out |-> u]
      BY <2>12 DEF Step
    <3>5. Step([was_cr |-> TRUE, out |-> u], c) = [was_cr |-> FALSE, out |-> Append(u, c)]
      BY <2>14 DEF Step
    <3> QED BY <2>1, <2>5, <2>8, <2>9, <3>1, <3>3, <3>4, <3>5
  <2>15. CASE c = "x"
    <3>1. r.out = Append(o, c)
      BY <2>9, <2>11, <2>15
    <3>2. transform(FALSE, Append(o, c)) = Step(a, c)
      BY <2>13, Transforms
    <3>3. u \o <<c>> = Append(u, c)
      BY AppendIsConcat
    <3>4. Step(a, c) = [was_cr |-> FALSE, out |-> Append(u, c)]
      BY <2>12, <2>15, <3>3 DEF Step
    <3> QED BY <2>1, <2>5, <2>8, <2>9, <3>1, <3>2, <3>4
  <2> QED BY <2>4, <2>14, <2>15 DEF Chars
<1>3. Seq(Chars) \subseteq A
  <2> HIDE DEF A
  <2> QED BY <1>1, <1>2, SeqSetInduction
<1>4. Clean(s)
  BY DEF ToSet
<1>5. transform(FALSE, Expanded(FALSE, s).out) = [was_cr |-> FALSE, out |-> s]
  BY <1>3, <1>4
<1>6. PICK o \in Seq(Chars) : o = Expanded(FALSE, s).out
  BY Expands DEF Accs
<1>7. Completed(s) = o
  BY <1>6, ExpandedCompletes
<1>8. Stripped(o) = Ending(transform(FALSE, o))
  BY TransformStrips
<1>9. Ending([was_cr |-> FALSE, out |-> s]) = s
  <2>1. s \o <<>> = s
    BY ConcatEmptySeq
  <2> QED BY <2>1 DEF Ending
<1> QED BY <1>5, <1>6, <1>7, <1>8, <1>9

-----------------------------------------------------------------------------
(* The inductive invariant of the conversion. *)

(* What is out and what is in the buffer is what the loop over the whole input makes. *)
Matches(o, t, w) == o \o t.out = w.out /\ (t.was_cr <=> w.was_cr)

Downloading ==
    /\ ~finalized => Matches(output, Transformed, transform(FALSE, input))
    /\ buffer # NoWriteBuffer => ~was_cr_ /\ Len(buffer) <= WriteBufferSize
    /\ finalized => output = Stripped(input) /\ buffer = NoWriteBuffer

Uploading ==
    /\ output = Expanded(FALSE, input).out /\ was_cr_ = Expanded(FALSE, input).was_cr
    /\ buffer = NoWriteBuffer /\ ~finalized

AsciiIInv ==
    /\ AsciiTypeOK
    /\ direction = "download" => Downloading
    /\ direction = "upload" => Uploading

(* A character that comes is worth the same to the buffer and to the whole input. *)
LEMMA StepMatches ==
    ASSUME NEW o \in Seq(Chars), NEW t \in Accs, NEW w \in Accs, NEW c \in Chars, Matches(o, t, w)
    PROVE  Matches(o, Step(t, c), Step(w, c))
<1>1. PICK p \in Seq(Chars) : p = t.out
  BY DEF Accs
<1>2. PICK q \in Seq(Chars) : q = w.out
  BY DEF Accs
<1>3. o \o p = q /\ (t.was_cr <=> w.was_cr)
  BY <1>1, <1>2 DEF Matches
<1>4. \A x \in Seq(Chars) : \A d \in Chars : o \o Append(x, d) = Append(o \o x, d)
  <2> SUFFICES ASSUME NEW x \in Seq(Chars), NEW d \in Chars PROVE o \o Append(x, d) = Append(o \o x, d)
    OBVIOUS
  <2>1. Append(x, d) = x \o <<d>> /\ <<d>> \in Seq(Chars)
    BY AppendIsConcat
  <2>2. o \o x \in Seq(Chars)
    BY ConcatProperties
  <2>3. Append(o \o x, d) = (o \o x) \o <<d>>
    BY <2>2, AppendIsConcat
  <2>4. (o \o x) \o <<d>> = o \o (x \o <<d>>)
    BY <2>1, Associative
  <2> QED BY <2>1, <2>3, <2>4
<1>5. o \o Append(p, c) = Append(q, c)
  BY <1>3, <1>4
<1>6. Append(p, "CR") \in Seq(Chars) /\ "CR" \in Chars
  BY DEF Chars
<1>7. o \o Append(p, "CR") = Append(q, "CR")
  BY <1>3, <1>4, <1>6
<1>8. o \o Append(Append(p, "CR"), c) = Append(Append(q, "CR"), c)
  BY <1>4, <1>6, <1>7
<1>9. /\ p \o <<c>> = Append(p, c) /\ q \o <<c>> = Append(q, c)
      /\ Append(p, "CR") \o <<c>> = Append(Append(p, "CR"), c)
      /\ Append(q, "CR") \o <<c>> = Append(Append(q, "CR"), c)
  <2>1. Append(q, "CR") \in Seq(Chars)
    BY DEF Chars
  <2> QED BY <1>6, <2>1, AppendIsConcat
<1>10. PICK x, y : x = Step(t, c) /\ y = Step(w, c)
  OBVIOUS
<1>11. CASE c = "CR"
  <2>1. x.was_cr = TRUE /\ x.out = p /\ y.was_cr = TRUE /\ y.out = q
    BY <1>1, <1>2, <1>10, <1>11 DEF Step
  <2> QED BY <2>1, <1>3, <1>10 DEF Matches
<1>12. CASE c = "LF"
  <2>1. x.was_cr = FALSE /\ x.out = Append(p, c) /\ y.was_cr = FALSE /\ y.out = Append(q, c)
    BY <1>1, <1>2, <1>10, <1>12 DEF Step
  <2> QED BY <2>1, <1>5, <1>10 DEF Matches
<1>13. CASE c = "x"
  <2>1. /\ x.was_cr = FALSE /\ x.out = IF t.was_cr THEN Append(Append(p, "CR"), c) ELSE Append(p, c)
    BY <1>1, <1>9, <1>10, <1>13 DEF Step
  <2>2. /\ y.was_cr = FALSE /\ y.out = IF t.was_cr THEN Append(Append(q, "CR"), c) ELSE Append(q, c)
    BY <1>2, <1>3, <1>9, <1>10, <1>13 DEF Step
  <2> QED BY <2>1, <2>2, <1>5, <1>8, <1>10 DEF Matches
<1> QED BY <1>11, <1>12, <1>13 DEF Chars

(* No buffer is not a buffer with something in it. *)
LEMMA NoBufferInSeq ==
    ASSUME NEW b \in Seq(Chars) PROVE b # NoWriteBuffer
<1>1. SUFFICES ASSUME b = NoWriteBuffer PROVE FALSE
  OBVIOUS
<1>2. Len(b) = 1 /\ b[1] = "none"
  BY <1>1 DEF NoWriteBuffer
<1>3. b[1] \in Chars
  BY <1>2, ElementOfSeq
<1> QED BY <1>2, <1>3 DEF Chars

LEMMA TransformedType ==
    ASSUME AsciiTypeOK PROVE Transformed \in Accs
<1>1. CASE buffer = NoWriteBuffer
  <2>1. <<>> \in Seq(Chars)
    OBVIOUS
  <2> QED BY <1>1, <2>1 DEF AsciiTypeOK, Transformed, Accs
<1>2. CASE buffer # NoWriteBuffer
  <2>1. buffer \in Seq(Chars) /\ was_cr_ \in BOOLEAN
    BY <1>2 DEF AsciiTypeOK
  <2> QED BY <1>2, <2>1, Transforms DEF Transformed
<1> QED BY <1>1, <1>2

LEMMA InitAsciiIInv == AsciiInit => AsciiIInv
<1> SUFFICES ASSUME AsciiInit PROVE AsciiIInv
  OBVIOUS
<1>1. <<>> \in Seq(Chars)
  OBVIOUS
<1>2. AsciiTypeOK
  BY <1>1 DEF AsciiInit, AsciiTypeOK
<1>3. transform(FALSE, <<>>) = Begun(FALSE) /\ Expanded(FALSE, <<>>) = Begun(FALSE)
  BY <1>1, Transforms, Expands
<1>4. Begun(FALSE).was_cr = FALSE /\ Begun(FALSE).out = <<>>
  BY DEF Begun
<1>5. Transformed = Begun(FALSE)
  BY DEF AsciiInit, Transformed, Begun
<1>6. <<>> \o <<>> = <<>>
  OBVIOUS
<1>7. Matches(<<>>, Begun(FALSE), Begun(FALSE))
  BY <1>4, <1>6 DEF Matches
<1>8. Downloading
  BY <1>3, <1>5, <1>7 DEF AsciiInit, Downloading
<1>9. Uploading
  BY <1>3, <1>4 DEF AsciiInit, Uploading
<1> QED BY <1>2, <1>8, <1>9 DEF AsciiIInv

LEMMA ReceiveIInv ==
    ASSUME AsciiIInv, Receive PROVE AsciiIInv'
<1>1. PICK c \in Chars : /\ Len(input) < MaxLen /\ Len(buffer) < WriteBufferSize
                         /\ input' = Append(input, c) /\ buffer' = Append(buffer, c)
  BY DEF Receive
<1>2. /\ direction = "download" /\ ~finalized /\ buffer # NoWriteBuffer
      /\ direction' = direction /\ was_cr_' = was_cr_ /\ output' = output /\ finalized' = finalized
  BY DEF Receive
<1>3. AsciiTypeOK /\ Downloading
  BY <1>2 DEF AsciiIInv
<1>4. buffer \in Seq(Chars) /\ input \in Seq(Chars) /\ output \in Seq(Chars) /\ ~was_cr_
  BY <1>2, <1>3 DEF AsciiTypeOK, Downloading
<1>5. buffer' \in Seq(Chars) /\ input' \in Seq(Chars) /\ Len(buffer') = Len(buffer) + 1
  BY <1>1, <1>4, AppendProperties
<1>6. buffer' # NoWriteBuffer
  BY <1>5, NoBufferInSeq
<1>7. AsciiTypeOK'
  BY <1>2, <1>3, <1>5, <1>6 DEF AsciiTypeOK, NoWriteBuffer
<1>8. was_cr_ = FALSE
  BY <1>3, <1>4, Zenon DEF AsciiTypeOK
<1>9. PICK t \in Accs : t = transform(FALSE, buffer) /\ transform(FALSE, Append(buffer, c)) = Step(t, c)
  BY <1>4, Transforms
<1>10. PICK w \in Accs : w = transform(FALSE, input) /\ transform(FALSE, Append(input, c)) = Step(w, c)
  BY <1>4, Transforms
<1>11. Transformed = t
  BY <1>2, <1>8, <1>9 DEF Transformed
<1>12. Transformed' = Step(t, c)
  BY <1>1, <1>2, <1>6, <1>8, <1>9 DEF Transformed, NoWriteBuffer
<1>13. Matches(output, t, w)
  BY <1>2, <1>3, <1>10, <1>11 DEF Downloading
<1>14. Matches(output, Step(t, c), Step(w, c))
  BY <1>4, <1>13, StepMatches
<1>15. Matches(output', Transformed', transform(FALSE, input'))
  BY <1>1, <1>2, <1>10, <1>12, <1>14
<1>16. Len(buffer') <= WriteBufferSize
  BY <1>1, <1>4, <1>5, LenProperties, SizesAssumption
<1>17. Downloading'
  BY <1>2, <1>4, <1>15, <1>16 DEF Downloading
<1> QED BY <1>2, <1>7, <1>17 DEF AsciiIInv

LEMMA GetWriteBufferIInv ==
    ASSUME AsciiIInv, GetWriteBuffer PROVE AsciiIInv'
<1>1. /\ direction = "download" /\ ~finalized /\ output' = output \o Transformed.out
      /\ direction' = direction /\ input' = input /\ finalized' = finalized
  BY DEF GetWriteBuffer
<1>2. AsciiTypeOK /\ Downloading
  BY <1>1 DEF AsciiIInv
<1>3. PICK t \in Accs : t = Transformed
  BY <1>2, TransformedType
<1>4. PICK w \in Accs : w = transform(FALSE, input)
  BY <1>2, Transforms DEF AsciiTypeOK
<1>5. output \o t.out = w.out /\ (t.was_cr <=> w.was_cr) /\ t.was_cr \in BOOLEAN /\ w.out \in Seq(Chars)
  BY <1>1, <1>2, <1>3, <1>4 DEF Downloading, Matches, Accs
<1>6. output' = w.out
  BY <1>1, <1>3, <1>5
<1>7. w.out \o <<>> = w.out
  BY <1>5, ConcatEmptySeq
<1>8. <<>> \in Seq(Chars) /\ <<"CR">> \in Seq(Chars) /\ Len(<<>>) = 0 /\ Len(<<"CR">>) = 1
  BY DEF Chars
<1>9. transform(FALSE, <<>>).out = <<>> /\ ~transform(FALSE, <<>>).was_cr
  <2>1. transform(FALSE, <<>>) = Begun(FALSE)
    BY <1>8, Transforms
  <2>2. ~Begun(FALSE).was_cr /\ Begun(FALSE).out = <<>>
    BY DEF Begun
  <2> QED BY <2>1, <2>2
<1>10. transform(FALSE, <<"CR">>).out = <<>> /\ transform(FALSE, <<"CR">>).was_cr
  <2>1. <<"CR">> = Append(<<>>, "CR") /\ "CR" \in Chars
    BY DEF Chars
  <2>2. transform(FALSE, <<"CR">>) = Step(Begun(FALSE), "CR")
    BY <1>8, <2>1, Transforms
  <2>3. Step(Begun(FALSE), "CR").was_cr = TRUE /\ Step(Begun(FALSE), "CR").out = <<>>
    BY DEF Step, Begun
  <2> QED BY <2>2, <2>3
<1>11. CASE buffer' = NoWriteBuffer /\ was_cr_' = t.was_cr
  <2>1. AsciiTypeOK'
    BY <1>1, <1>2, <1>5, <1>6, <1>11 DEF AsciiTypeOK, NoWriteBuffer
  <2>2. Transformed'.out = <<>> /\ (Transformed'.was_cr <=> t.was_cr)
    BY <1>11 DEF Transformed, NoWriteBuffer
  <2>3. Matches(output', Transformed', transform(FALSE, input'))
    BY <2>2, <1>1, <1>4, <1>5, <1>6, <1>7 DEF Matches
  <2>4. Downloading'
    BY <2>3, <1>1, <1>11 DEF Downloading, NoWriteBuffer
  <2> QED BY <2>1, <2>4, <1>1 DEF AsciiIInv
<1>12. CASE buffer' = (IF t.was_cr THEN <<"CR">> ELSE <<>>) /\ was_cr_' = FALSE
  <2>1. buffer' \in Seq(Chars) /\ Len(buffer') <= WriteBufferSize
    BY <1>8, <1>12, SizesAssumption
  <2>2. buffer' # NoWriteBuffer
    BY <2>1, NoBufferInSeq
  <2>3. AsciiTypeOK'
    BY <2>1, <1>1, <1>2, <1>5, <1>6, <1>12 DEF AsciiTypeOK
  <2>4. Transformed' = transform(FALSE, buffer')
    BY <2>2, <1>12 DEF Transformed, NoWriteBuffer
  <2>5. transform(FALSE, buffer').out = <<>> /\ (transform(FALSE, buffer').was_cr <=> t.was_cr)
    BY <1>9, <1>10, <1>12
  <2>6. Matches(output', Transformed', transform(FALSE, input'))
    BY <2>4, <2>5, <1>1, <1>4, <1>5, <1>6, <1>7 DEF Matches
  <2>7. Downloading'
    BY <2>1, <2>6, <1>1, <1>12 DEF Downloading
  <2> QED BY <2>3, <2>7, <1>1 DEF AsciiIInv
<1> QED BY <1>3, <1>11, <1>12 DEF GetWriteBuffer

LEMMA FinalizeIInv ==
    ASSUME AsciiIInv, Finalize PROVE AsciiIInv'
<1>1. /\ direction = "download" /\ ~finalized
      /\ output' = output \o Transformed.out \o (IF Transformed.was_cr THEN <<"CR">> ELSE <<>>)
      /\ was_cr_' = FALSE /\ buffer' = NoWriteBuffer /\ finalized' = TRUE
      /\ direction' = direction /\ input' = input
  BY DEF Finalize
<1>2. AsciiTypeOK /\ Downloading
  BY <1>1 DEF AsciiIInv
<1>3. PICK t \in Accs : t = Transformed
  BY <1>2, TransformedType
<1>4. PICK w \in Accs : w = transform(FALSE, input)
  BY <1>2, Transforms DEF AsciiTypeOK
<1>5. output \o t.out = w.out /\ (t.was_cr <=> w.was_cr) /\ w.out \in Seq(Chars)
  BY <1>1, <1>2, <1>3, <1>4 DEF Downloading, Matches, Accs
<1>6. output' = Ending(w)
  BY <1>1, <1>3, <1>5 DEF Ending
<1>7. Stripped(input) = output'
  BY <1>2, <1>4, <1>6, TransformStrips DEF AsciiTypeOK
<1>8. output' \in Seq(Chars)
  <2>1. <<>> \in Seq(Chars) /\ <<"CR">> \in Seq(Chars)
    BY DEF Chars
  <2>2. PICK e \in Seq(Chars) : e = IF w.was_cr THEN <<"CR">> ELSE <<>>
    BY <2>1
  <2>3. w.out \o e \in Seq(Chars)
    BY <1>5, ConcatProperties
  <2> QED BY <2>2, <2>3, <1>6 DEF Ending
<1>9. AsciiTypeOK'
  BY <1>1, <1>2, <1>8 DEF AsciiTypeOK, NoWriteBuffer
<1>10. Downloading'
  BY <1>1, <1>7 DEF Downloading, NoWriteBuffer
<1> QED BY <1>1, <1>9, <1>10 DEF AsciiIInv

LEMMA ReadIInv ==
    ASSUME AsciiIInv, read PROVE AsciiIInv'
<1>1. PICK chunk \in BoundedSeq(Chars, WriteBufferSize) :
          /\ input' = input \o chunk /\ output' = output \o Expanded(was_cr_, chunk).out
          /\ was_cr_' = Expanded(was_cr_, chunk).was_cr
  BY DEF read
<1>2. direction = "upload" /\ direction' = direction /\ buffer' = buffer /\ finalized' = finalized
  BY DEF read
<1>3. AsciiTypeOK /\ Uploading
  BY <1>2 DEF AsciiIInv
<1>4. PICK s \in Seq(Chars) : s = input
  BY <1>3 DEF AsciiTypeOK
<1>5. PICK t \in Seq(Chars) : t = chunk
  BY SizesAssumption DEF BoundedSeq, SeqOf
<1>6. was_cr_ \in BOOLEAN /\ was_cr_ = Expanded(FALSE, s).was_cr /\ output = Expanded(FALSE, s).out
  BY <1>3, <1>4 DEF AsciiTypeOK, Uploading
<1>7. PICK e \in Accs : e = Expanded(was_cr_, t)
  BY <1>6, Expands
<1>8. PICK u \in Seq(Chars) : u = s \o t
  BY ConcatProperties
<1>9. PICK f \in Accs : f = Expanded(FALSE, u)
  BY Expands
<1>10. f.out = output \o e.out /\ (f.was_cr <=> e.was_cr)
  <2>1. /\ Expanded(FALSE, s \o t).out = Expanded(FALSE, s).out \o Expanded(Expanded(FALSE, s).was_cr, t).out
        /\ Expanded(FALSE, s \o t).was_cr <=> Expanded(Expanded(FALSE, s).was_cr, t).was_cr
    BY ExpandedConcat
  <2>2. e = Expanded(Expanded(FALSE, s).was_cr, t) /\ f = Expanded(FALSE, s \o t)
    BY <1>6, <1>7, <1>8, <1>9, Zenon
  <2> QED BY <2>1, <2>2, <1>6, Zenon
<1>11. f.was_cr \in BOOLEAN /\ e.was_cr \in BOOLEAN /\ f.out \in Seq(Chars)
  BY DEF Accs
<1>12. f.was_cr = e.was_cr
  BY <1>10, <1>11, Zenon
<1>13. input' = u /\ output' = f.out /\ was_cr_' = f.was_cr
  BY <1>1, <1>4, <1>5, <1>7, <1>8, <1>10, <1>12
<1>14. AsciiTypeOK'
  BY <1>2, <1>3, <1>11, <1>13 DEF AsciiTypeOK, NoWriteBuffer
<1>15. Uploading'
  BY <1>2, <1>3, <1>9, <1>13 DEF Uploading, NoWriteBuffer
<1> QED BY <1>2, <1>14, <1>15 DEF AsciiIInv

LEMMA NextAsciiIInv == AsciiIInv /\ [AsciiNext]_asciiVars => AsciiIInv'
<1> SUFFICES ASSUME AsciiIInv, [AsciiNext]_asciiVars PROVE AsciiIInv'
  OBVIOUS
<1>1. CASE UNCHANGED asciiVars
  <2>1. /\ direction' = direction /\ input' = input /\ was_cr_' = was_cr_
        /\ buffer' = buffer /\ output' = output /\ finalized' = finalized
    BY <1>1 DEF asciiVars
  <2>2. AsciiTypeOK' = AsciiTypeOK
    BY <2>1 DEF AsciiTypeOK, NoWriteBuffer
  <2>3. Transformed' = Transformed
    BY <2>1 DEF Transformed, NoWriteBuffer
  <2>4. Downloading' = Downloading
    BY <2>1, <2>3 DEF Downloading, NoWriteBuffer
  <2>5. Uploading' = Uploading
    BY <2>1 DEF Uploading, NoWriteBuffer
  <2> QED BY <2>1, <2>2, <2>4, <2>5 DEF AsciiIInv
<1> QED BY <1>1, ReceiveIInv, GetWriteBufferIInv, FinalizeIInv, ReadIInv DEF AsciiNext

LEMMA AsciiInvariant == AsciiSpec => []AsciiIInv
BY InitAsciiIInv, NextAsciiIInv, PTL DEF AsciiSpec

(* The types, for any buffer size and any length of a file. *)
THEOREM AsciiTypeCorrect == AsciiSpec => []AsciiTypeOK
<1>1. AsciiIInv => AsciiTypeOK
  BY DEF AsciiIInv
<1> QED BY <1>1, AsciiInvariant, PTL

(* However an ASCII transfer is cut into buffers, of any size from two, ascii_writer
   and ascii_reader convert the file as a whole, and a file without CRs survives an
   upload and a download. *)
THEOREM AsciiConversion == AsciiSpec => []ConversionIsExact
<1>1. ASSUME AsciiIInv PROVE ConversionIsExact
  <2>1. direction \in {"download", "upload"} /\ input \in Seq(Chars)
    BY <1>1 DEF AsciiIInv, AsciiTypeOK
  <2>2. CASE direction = "download"
    <3>1. Downloading
      BY <1>1, <2>2 DEF AsciiIInv
    <3> QED BY <2>2, <3>1 DEF Downloading, ConversionIsExact
  <2>3. CASE direction = "upload"
    <3>1. Uploading
      BY <1>1, <2>3 DEF AsciiIInv
    <3>2. output = Completed(input)
      BY <2>1, <3>1, ExpandedCompletes DEF Uploading
    <3>3. "CR" \notin ToSet(input) => Stripped(output) = input
      BY <2>1, <3>2, RoundTrip
    <3> QED BY <2>3, <3>1, <3>2, <3>3 DEF Uploading, ConversionIsExact
  <2> QED BY <2>1, <2>2, <2>3
<1> QED BY <1>1, AsciiInvariant, PTL
=============================================================================
