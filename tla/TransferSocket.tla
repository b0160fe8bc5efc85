--------------------------- MODULE TransferSocket ---------------------------
(***************************************************************************)
(* CTransferSocket (ftp/transfersocket.cpp): the data connection of an FTP *)
(* transfer, between the socket, whose events are edge-triggered, and the  *)
(* writer or the reader, whose calls may say `wait'.                       *)
(*                                                                         *)
(* A handler runs on the event loop while the peer, the socket thread and  *)
(* the worker of the writer or reader go on: each turn of its loop is a    *)
(* step of its own, and no other handler runs before it has returned.      *)
(***************************************************************************)
EXTENDS Integers, FiniteSets

CONSTANTS
    Modes,             \* the TransferModes that occur
    Handshakes,        \* what may come of TLS: "fine", "ask", "refuse"
    Units,             \* bound: units of data in the file or sent by the peer
    BufferSize,        \* capacity of a buffer of the writer
    MaxIterations,     \* turns of a loop before it leaves the event loop a chance
    EarlyConnections   \* whether an active connection may be made before the command

ASSUME ConstantsAssumption ==
    /\ Modes \subseteq {"list", "download", "upload", "resumetest"}
    /\ Handshakes \subseteq {"fine", "ask", "refuse"}
    /\ Units \in Nat /\ {BufferSize, MaxIterations} \subseteq Nat \ {0}
    /\ EarlyConnections \in BOOLEAN

VARIABLES
    m_transferMode,
    handshake,            \* what comes of TLS on this connection
    link,                 \* socketServer_ and active_layer_
    activity_block_,
    m_transferEndReason,
    m_postponedReceive, m_postponedSend,
    buffer_,              \* units of data in it, or NoBuffer
    handler_waiting_,     \* of the writer or reader: it owes an event
    aioEvents,            \* its events in the queue
    readEvents,           \* read events in the queue: of the "socket", or its "own"
    writeEvents,          \* the number of write events in the queue, from each source
    waiting,              \* what the socket thread looks for, after an EAGAIN
    running,              \* the handler that runs, or "none"
    iteration,            \* of its loop
    alsoSend,             \* whether OnSend is to follow it
    commandSent, answered,     \* SetActive has been called, the user has answered
    acceptedPlain,        \* history: the connection was accepted and has no TLS
    incoming, peerSent, peerClosed,   \* what the peer has sent and is not read yet
    fileLeft,             \* what the reader has not delivered yet
    moved,                \* units read from the connection or written to it
    handed,               \* ... handed over to the writer or the parser
    again                 \* calls that said EAGAIN and whose event has not come

flags == <<activity_block_, m_postponedReceive, m_postponedSend, commandSent, answered>>
aio == <<handler_waiting_, aioEvents>>
events == <<readEvents, writeEvents, waiting, again>>
handler == <<running, iteration, alsoSend>>
peer == <<incoming, peerSent, peerClosed>>
data == <<fileLeft, moved, handed>>
setup == <<m_transferMode, handshake>>
socketVars == <<setup, acceptedPlain, link, flags, m_transferEndReason, buffer_, aio, events, handler, peer, data>>

NoBuffer == -1

(* Where a write event comes from: the socket thread, after an EAGAIN; OnSend, that
   has not come to the end of its loop; or set_event_handler, for a socket that is
   connected already. *)
WriteSources == {"socket", "own", "handler_set"}
NoWriteEvents == [from \in WriteSources |-> 0]
EndReasons == {"none", "successful", "transfer_failure", "transfer_failure_critical",
               "failed_tls_resumption", "failed_resumetest"}

Names ==
    /\ m_transferMode \in Modes /\ handshake \in Handshakes
    /\ link \in {"none", "listening", "connecting", "connected", "gone"}
    /\ m_transferEndReason \in EndReasons
    /\ running \in {"none", "receive", "send"}

Queues ==
    /\ readEvents \subseteq {"socket", "own"} /\ writeEvents \in [WriteSources -> 0..2]
    /\ waiting \subseteq {"read", "write"} /\ again \subseteq {"read", "write"}
    /\ aioEvents \in 0..2

Counters ==
    /\ activity_block_ \in 0..2 /\ buffer_ \in NoBuffer..BufferSize /\ iteration \in 0..MaxIterations
    /\ incoming \in 0..Units /\ peerSent \in 0..Units
    /\ fileLeft \in 0..Units /\ moved \in 0..Units /\ handed \in 0..Units

Flags ==
    /\ m_postponedReceive \in BOOLEAN /\ m_postponedSend \in BOOLEAN /\ alsoSend \in BOOLEAN
    /\ commandSent \in BOOLEAN /\ answered \in BOOLEAN /\ peerClosed \in BOOLEAN
    /\ handler_waiting_ \in BOOLEAN /\ acceptedPlain \in BOOLEAN

SocketTypeOK == Names /\ Queues /\ Counters /\ Flags

SocketInit ==
    /\ m_transferMode \in Modes /\ handshake \in Handshakes
    /\ link = "none" /\ activity_block_ = 1 /\ m_transferEndReason = "none"
    /\ m_postponedReceive = FALSE /\ m_postponedSend = FALSE
    /\ buffer_ = NoBuffer /\ handler_waiting_ = FALSE /\ aioEvents = 0
    /\ readEvents = {} /\ writeEvents = NoWriteEvents /\ waiting = {} /\ again = {}
    /\ running = "none" /\ iteration = 0 /\ alsoSend = FALSE
    /\ commandSent = FALSE /\ answered = FALSE /\ acceptedPlain = FALSE
    /\ incoming = 0 /\ peerSent = 0 /\ peerClosed = FALSE
    /\ fileLeft = Units /\ moved = 0 /\ handed = 0

Ended == m_transferEndReason # "none"

-----------------------------------------------------------------------------
(* Parts of handlers. *)

(* The queued events of a socket go with it. *)
NoEvents == readEvents' = {} /\ writeEvents' = NoWriteEvents /\ waiting' = {} /\ again' = {}

Returns == running' = "none" /\ iteration' = 0 /\ alsoSend' = FALSE

ResetSocket == link' = "none" /\ buffer_' = NoBuffer /\ NoEvents

(* TransferEnd with a failure. *)
Fails(reason) ==
    IF Ended THEN UNCHANGED <<m_transferEndReason, link, buffer_, events>>
             ELSE m_transferEndReason' = reason /\ ResetSocket

(* A call of OnReceive returns; where OnSend follows it does something for an
   upload that goes on. *)
LeavesReceive ==
    IF alsoSend /\ m_transferMode = "upload" /\ m_transferEndReason' = "none"
    THEN running' = "send" /\ iteration' = 0 /\ alsoSend' = FALSE
    ELSE Returns

(* The next turn of a loop, or an event to go on later. *)
Iterates(flag) ==
    IF iteration + 1 < MaxIterations
    THEN iteration' = iteration + 1 /\ UNCHANGED <<running, alsoSend, events>>
    ELSE /\ readEvents' = IF flag = "read" THEN readEvents \cup {"own"} ELSE readEvents
         /\ writeEvents' = IF flag = "write" THEN [writeEvents EXCEPT !["own"] = @ + 1] ELSE writeEvents
         /\ UNCHANGED <<waiting, again>>
         /\ IF flag = "read" THEN LeavesReceive ELSE Returns

(* EAGAIN *)
Awaits(flag) ==
    /\ waiting' = waiting \cup {flag} /\ again' = again \cup {flag}
    /\ UNCHANGED <<readEvents, writeEvents>>

(* A call of the writer or reader says `wait'. *)
AwaitsAio == handler_waiting_' = TRUE /\ UNCHANGED aioEvents

(* OnReceive and OnSend, up to their loops. *)
RunReceive(send) == running' = "receive" /\ iteration' = 0 /\ alsoSend' = send

RunSend ==
    /\ running' = IF m_transferMode = "upload" /\ ~Ended THEN "send" ELSE "none"
    /\ iteration' = 0 /\ alsoSend' = FALSE

OnReceive ==
    \/ /\ activity_block_ > 0
       /\ m_postponedReceive' = TRUE
       /\ UNCHANGED <<activity_block_, m_postponedSend, commandSent, answered, handler>>
    \/ /\ activity_block_ = 0
       /\ RunReceive(FALSE) /\ UNCHANGED flags

OnSend(blocked) ==
    \/ /\ blocked > 0
       /\ m_postponedSend' = TRUE
       /\ UNCHANGED <<m_postponedReceive, handler>>
    \/ /\ blocked = 0
       /\ RunSend /\ UNCHANGED <<m_postponedReceive, m_postponedSend>>

(* Mutant: only one of the two is executed. *)
TriggerPostponedOne(blocked) ==
    \/ /\ blocked = 0 /\ m_postponedReceive
       /\ m_postponedReceive' = FALSE /\ m_postponedSend' = FALSE
       /\ RunReceive(FALSE)
    \/ /\ blocked = 0 /\ ~m_postponedReceive /\ m_postponedSend
       /\ m_postponedSend' = FALSE /\ UNCHANGED m_postponedReceive
       /\ RunSend
    \/ /\ blocked > 0 \/ ~(m_postponedReceive \/ m_postponedSend)
       /\ UNCHANGED <<m_postponedReceive, m_postponedSend, handler>>

TriggerPostponedEvents(blocked) ==
    \/ /\ blocked = 0 /\ m_postponedReceive
       /\ m_postponedReceive' = FALSE /\ m_postponedSend' = FALSE
       /\ RunReceive(m_postponedSend)
    \/ /\ blocked = 0 /\ ~m_postponedReceive /\ m_postponedSend
       /\ m_postponedSend' = FALSE /\ UNCHANGED m_postponedReceive
       /\ RunSend
    \/ /\ blocked > 0 \/ ~(m_postponedReceive \/ m_postponedSend)
       /\ UNCHANGED <<m_postponedReceive, m_postponedSend, handler>>

-----------------------------------------------------------------------------
(* Calls of the control socket, between handlers. *)

Idle == running = "none" /\ link # "gone"

SetupActiveTransfer ==
    /\ Idle /\ ~commandSent /\ link = "none" /\ ~Ended
    /\ link' = "listening" /\ buffer_' = NoBuffer /\ NoEvents
    /\ UNCHANGED <<setup, acceptedPlain, flags, m_transferEndReason, aio, handler, peer, data>>

(* SetupPassiveTransfer, the transfer command, and SetActive. What an active
   attempt listened to is thrown away: the server refused it and never connected. *)
SetupPassiveTransfer ==
    /\ Idle /\ ~commandSent /\ link \in {"none", "listening"} /\ ~Ended
    /\ commandSent' = TRUE
    /\ link' = "connecting" /\ buffer_' = NoBuffer /\ NoEvents
    /\ activity_block_' = activity_block_ - 1
    /\ UNCHANGED <<setup, acceptedPlain, m_postponedReceive, m_postponedSend, answered, m_transferEndReason, aio, handler, peer, data>>

(* The transfer command of an active transfer, and SetActive. *)
SetActive ==
    /\ Idle /\ ~commandSent /\ (link # "none" \/ Ended)
    /\ commandSent' = TRUE
    /\ IF Ended THEN UNCHANGED <<activity_block_, m_postponedReceive, m_postponedSend, handler>>
       ELSE /\ activity_block_' = activity_block_ - 1
            /\ IF link = "connected" THEN TriggerPostponedEvents(activity_block_')
               ELSE UNCHANGED <<m_postponedReceive, m_postponedSend, handler>>
    /\ UNCHANGED <<setup, acceptedPlain, link, answered, m_transferEndReason, buffer_, aio, events, peer, data>>

(* The user allows the connection although the TLS session was not resumed ... *)
ContinueWithoutSessionResumption ==
    /\ Idle /\ handshake = "ask" /\ activity_block_ = (IF commandSent THEN 1 ELSE 2) /\ ~answered
    /\ answered' = TRUE
    /\ activity_block_' = activity_block_ - 1
    /\ TriggerPostponedEvents(activity_block_')
    /\ UNCHANGED <<setup, acceptedPlain, link, commandSent, m_transferEndReason, buffer_, aio, events, peer, data>>

(* ... or does not, or the operation ends for another reason. Nobody asks how the
   transfer ended any more. *)
Destroy ==
    /\ running = "none" /\ link # "gone"
    /\ link' = "gone" /\ handler_waiting_' = FALSE /\ aioEvents' = 0 /\ buffer_' = NoBuffer /\ NoEvents
    /\ UNCHANGED <<setup, acceptedPlain, flags, m_transferEndReason, handler, peer, data>>

-----------------------------------------------------------------------------
(* Socket events. *)

(* Mutant: the user is not waited for. *)
OnConnectAsksOnly(queued) ==
    \/ /\ handshake = "refuse"
       /\ Fails("failed_tls_resumption")
       /\ UNCHANGED <<flags, handler>>
    \/ /\ handshake # "refuse"
       /\ link' = "connected"
       /\ waiting' = {"read"} /\ writeEvents' = queued /\ UNCHANGED <<readEvents, again>>
       /\ OnSend(activity_block_)
       /\ UNCHANGED <<activity_block_, m_transferEndReason, buffer_, commandSent, answered>>

(* The peer's data may be read, and an upload begins, whatever write events are
   queued by now. Nothing is postponed yet: this is the connection's first event. *)
OnConnect(queued) ==
    \/ /\ handshake = "refuse"
       /\ Fails("failed_tls_resumption")
       /\ UNCHANGED <<flags, handler>>
    \/ /\ handshake # "refuse"
       /\ link' = "connected"
       /\ waiting' = {"read"} /\ writeEvents' = queued /\ UNCHANGED <<readEvents, again>>
       /\ activity_block_' = activity_block_ + (IF handshake = "ask" THEN 1 ELSE 0)
       /\ OnSend(activity_block_')
       /\ UNCHANGED <<m_transferEndReason, buffer_, commandSent, answered>>

(* A server connects to the port the client listens on. With TLS the handshake
   follows. Without, the socket is connected when InitLayers calls
   set_event_handler, which sends a write event, and OnConnect is called as well. *)
OnAccept ==
    /\ Idle /\ link = "listening" /\ (commandSent \/ EarlyConnections)
    /\ \/ link' = "connecting"
          /\ UNCHANGED <<flags, m_transferEndReason, buffer_, events, handler, acceptedPlain>>
       \/ handshake = "fine" /\ acceptedPlain' = TRUE
          /\ OnConnect([NoWriteEvents EXCEPT !["handler_set"] = 1])
       \/ Fails("transfer_failure") /\ UNCHANGED <<flags, handler, acceptedPlain>>
    /\ UNCHANGED <<setup, aio, peer, data>>

OnConnectionEvent ==
    /\ Idle /\ link = "connecting"
    /\ \/ OnConnect(NoWriteEvents)
       \/ Fails("transfer_failure") /\ UNCHANGED <<flags, handler>>
    /\ UNCHANGED <<setup, acceptedPlain, aio, peer, data>>

(* The connection breaks, and whoever looks for events hears of it. *)
OnSocketError ==
    /\ Idle /\ link = "connected" /\ waiting # {} /\ ~Ended
    /\ Fails("transfer_failure")
    /\ UNCHANGED <<setup, acceptedPlain, flags, aio, handler, peer, data>>

OnReadEvent(from) ==
    /\ Idle /\ from \in readEvents
    /\ readEvents' = readEvents \ {from}
    /\ again' = IF from = "socket" THEN again \ {"read"} ELSE again
    /\ OnReceive
    /\ UNCHANGED <<setup, acceptedPlain, link, m_transferEndReason, buffer_, aio, writeEvents, waiting, peer, data>>

OnWriteEvent(from) ==
    /\ Idle /\ writeEvents[from] > 0
    /\ writeEvents' = [writeEvents EXCEPT ![from] = @ - 1]
    /\ again' = IF from = "socket" THEN again \ {"write"} ELSE again
    /\ OnSend(activity_block_)
    /\ UNCHANGED <<setup, acceptedPlain, link, activity_block_, commandSent, answered, m_transferEndReason,
                   buffer_, aio, readEvents, waiting, peer, data>>

(* Mutant: the handler receives, whatever the mode. *)
OnAioReceives ==
    /\ Idle /\ aioEvents > 0
    /\ aioEvents' = aioEvents - 1
    /\ IF activity_block_ > 0 \/ Ended THEN UNCHANGED handler ELSE RunReceive(FALSE)
    /\ UNCHANGED <<setup, acceptedPlain, handler_waiting_, link, flags, m_transferEndReason, buffer_, events, peer, data>>

(* OnInput and OnWrite: the reader or the writer is ready. *)
OnAio ==
    /\ Idle /\ aioEvents > 0
    /\ aioEvents' = aioEvents - 1
    /\ \/ (activity_block_ > 0 \/ Ended) /\ UNCHANGED handler
       \/ activity_block_ = 0 /\ ~Ended /\ IF m_transferMode = "upload" THEN RunSend ELSE RunReceive(FALSE)
    /\ UNCHANGED <<setup, acceptedPlain, handler_waiting_, link, flags, m_transferEndReason, buffer_, events, peer, data>>

-----------------------------------------------------------------------------
(* The loops of OnReceive. *)

Receives(mode) == running = "receive" /\ m_transferMode = mode /\ ~Ended /\ link = "connected"

CanWrite == buffer_ # NoBuffer /\ buffer_ < BufferSize

(* A call of read happens here: in a download only with room in the buffer. *)
Reading ==
    \/ Receives("download") /\ CanWrite
    \/ \E mode \in {"list", "upload", "resumetest"} : Receives(mode)

(* TransferEnd(successful): the socket stays, and is shut down. *)
Succeeds ==
    /\ m_transferEndReason' = "successful"
    /\ UNCHANGED <<link, buffer_>>

(* EAGAIN: nothing has come, or too little of a TLS record. *)
ReadsAgain ==
    /\ Reading /\ (incoming > 0 \/ ~peerClosed)
    /\ UNCHANGED <<setup, acceptedPlain, link, flags, m_transferEndReason, buffer_, aio, peer, data>>
    /\ Awaits("read") /\ LeavesReceive

ReadFails ==
    /\ Reading
    /\ Fails("transfer_failure") /\ LeavesReceive
    /\ UNCHANGED <<setup, acceptedPlain, flags, aio, peer, data>>

ReadListing ==
    /\ Receives("list") /\ incoming > 0
    /\ \E n \in 1..incoming :
          /\ incoming' = incoming - n /\ moved' = moved + n
          /\ \/ /\ handed' = handed + n
                /\ Iterates("read") /\ UNCHANGED <<m_transferEndReason, link, buffer_>>
             \/ UNCHANGED handed /\ Fails("transfer_failure") /\ LeavesReceive
    /\ UNCHANGED <<setup, acceptedPlain, flags, aio, peerSent, peerClosed, fileLeft>>

ReadToEnd ==
    /\ Receives("list") /\ incoming = 0 /\ peerClosed
    /\ Succeeds /\ LeavesReceive
    /\ UNCHANGED <<setup, acceptedPlain, flags, aio, events, peer, data>>

(* A full buffer goes to the writer, which has another, wants to be waited for,
   or has failed. *)
CheckGetNextWriteBuffer ==
    /\ Receives("download") /\ ~CanWrite
    /\ handed' = handed + (IF buffer_ = NoBuffer THEN 0 ELSE buffer_)
    /\ \/ /\ buffer_' = 0
          /\ UNCHANGED <<aio, handler, m_transferEndReason, link, events>>
       \/ /\ buffer_' = NoBuffer /\ AwaitsAio /\ LeavesReceive
          /\ UNCHANGED <<m_transferEndReason, link, events>>
       \/ Fails("transfer_failure_critical") /\ LeavesReceive /\ UNCHANGED aio
    /\ UNCHANGED <<setup, acceptedPlain, flags, peer, fileLeft, moved>>

ReadFile ==
    /\ Receives("download") /\ CanWrite /\ incoming > 0
    /\ \E n \in 1..incoming :
          /\ buffer_ + n <= BufferSize
          /\ incoming' = incoming - n /\ moved' = moved + n /\ buffer_' = buffer_ + n
    /\ Iterates("read")
    /\ UNCHANGED <<setup, acceptedPlain, link, flags, m_transferEndReason, aio, peerSent, peerClosed, fileLeft, handed>>

(* Mutant: the writer is finalized without the last buffer. *)
FinalizeEmpty ==
    /\ Receives("download") /\ CanWrite /\ incoming = 0 /\ peerClosed
    /\ \/ Succeeds /\ UNCHANGED <<aio, events>>
       \/ buffer_' = NoBuffer /\ AwaitsAio /\ UNCHANGED <<m_transferEndReason, link, events>>
       \/ Fails("transfer_failure_critical") /\ UNCHANGED aio
    /\ LeavesReceive
    /\ UNCHANGED <<setup, acceptedPlain, flags, peer, data>>

(* The end of the file: the writer gets the rest of it. *)
FinalizeWrite ==
    /\ Receives("download") /\ CanWrite /\ incoming = 0 /\ peerClosed
    /\ handed' = handed + buffer_
    /\ \/ /\ m_transferEndReason' = "successful" /\ buffer_' = NoBuffer
          /\ UNCHANGED <<aio, link, events>>
       \/ /\ buffer_' = (IF buffer_ = 0 THEN 0 ELSE NoBuffer) /\ AwaitsAio
          /\ UNCHANGED <<m_transferEndReason, link, events>>
       \/ Fails("transfer_failure_critical") /\ UNCHANGED aio
    /\ LeavesReceive
    /\ UNCHANGED <<setup, acceptedPlain, flags, peer, fileLeft, moved>>

(* The server is to send one unit. *)
ReadResumeTest ==
    /\ Receives("resumetest") /\ incoming > 0
    /\ \E n \in 1..incoming :
          /\ n <= 2 /\ incoming' = incoming - n /\ moved' = moved + n
    /\ IF moved' > 1 THEN Fails("failed_resumetest") /\ Returns
                     ELSE UNCHANGED <<m_transferEndReason, link, buffer_, events, handler>>
    /\ UNCHANGED <<setup, acceptedPlain, flags, aio, peerSent, peerClosed, fileLeft, handed>>

EndResumeTest ==
    /\ Receives("resumetest") /\ incoming = 0 /\ peerClosed
    /\ IF moved = 1 THEN Succeeds /\ UNCHANGED events ELSE Fails("failed_resumetest")
    /\ Returns
    /\ UNCHANGED <<setup, acceptedPlain, flags, aio, peer, data>>

(* A server that sends something during an upload; its end of file is nothing. *)
ReadDuringUpload ==
    /\ Receives("upload") /\ (incoming > 0 \/ peerClosed)
    /\ IF incoming > 0 THEN Fails("transfer_failure")
       ELSE UNCHANGED <<m_transferEndReason, link, buffer_, events>>
    /\ LeavesReceive
    /\ UNCHANGED <<setup, acceptedPlain, flags, aio, peer, data>>

(* What comes after the end of the transfer is discarded. *)
Discard ==
    /\ running = "receive" /\ Ended /\ link = "connected"
    /\ Returns
    /\ \/ ResetSocket /\ UNCHANGED incoming
       \/ incoming > 0 /\ incoming' \in 0..incoming - 1 /\ UNCHANGED <<link, buffer_, events>>
       \/ (incoming > 0 \/ ~peerClosed) /\ Awaits("read") /\ UNCHANGED <<link, buffer_, incoming>>
    /\ UNCHANGED <<setup, acceptedPlain, flags, m_transferEndReason, aio, peerSent, peerClosed, data>>

-----------------------------------------------------------------------------
(* The loop of OnSend, in an upload. *)

Sends == running = "send" /\ link = "connected"

(* The reader has more of the file, wants to be waited for, or has failed. It sends
   its event as soon as it has more, or fails: until then it can only say `wait'. *)
CheckGetNextReadBuffer ==
    /\ Sends /\ buffer_ \in {NoBuffer, 0} /\ fileLeft > 0
    /\ \/ \E n \in 1..fileLeft :
             /\ n <= BufferSize /\ ~handler_waiting_
             /\ fileLeft' = fileLeft - n /\ buffer_' = n
             /\ UNCHANGED <<aio, handler, m_transferEndReason, link, events>>
       \/ /\ buffer_' = NoBuffer /\ AwaitsAio /\ Returns
          /\ UNCHANGED <<fileLeft, m_transferEndReason, link, events>>
       \/ /\ ~handler_waiting_
          /\ Fails("transfer_failure_critical") /\ Returns
          /\ UNCHANGED <<fileLeft, aio>>
    /\ UNCHANGED <<setup, acceptedPlain, flags, peer, moved, handed>>

(* At the end of the file the connection is shut down, or is going to be. *)
ShutDown ==
    /\ Sends /\ buffer_ \in {NoBuffer, 0} /\ fileLeft = 0
    /\ \/ Succeeds /\ (UNCHANGED events \/ Awaits("write"))
       \/ Fails("transfer_failure")
    /\ Returns
    /\ UNCHANGED <<setup, acceptedPlain, flags, aio, peer, data>>

Write ==
    /\ Sends /\ buffer_ \notin {NoBuffer, 0}
    /\ \E n \in 1..buffer_ : buffer_' = buffer_ - n /\ moved' = moved + n
    /\ Iterates("write")
    /\ UNCHANGED <<setup, acceptedPlain, link, flags, m_transferEndReason, aio, peer, fileLeft, handed>>

WritesAgain ==
    /\ Sends /\ buffer_ \notin {NoBuffer, 0}
    /\ Awaits("write") /\ Returns
    /\ UNCHANGED <<setup, acceptedPlain, link, flags, m_transferEndReason, buffer_, aio, peer, data>>

WriteFails ==
    /\ Sends /\ buffer_ \notin {NoBuffer, 0}
    /\ Fails("transfer_failure") /\ Returns
    /\ UNCHANGED <<setup, acceptedPlain, flags, aio, peer, data>>

-----------------------------------------------------------------------------
(* The peer, the socket thread, and the worker of the reader or writer. *)

PeerSends ==
    /\ link = "connected" /\ ~peerClosed /\ peerSent < Units /\ (commandSent \/ EarlyConnections)
    /\ incoming' = incoming + 1 /\ peerSent' = peerSent + 1
    /\ UNCHANGED <<setup, acceptedPlain, link, flags, m_transferEndReason, buffer_, aio, events, handler, peerClosed, data>>

PeerCloses ==
    /\ link = "connected" /\ ~peerClosed /\ (commandSent \/ EarlyConnections)
    /\ peerClosed' = TRUE
    /\ UNCHANGED <<setup, acceptedPlain, link, flags, m_transferEndReason, buffer_, aio, events, handler, incoming, peerSent, data>>

SocketReadable ==
    /\ link = "connected" /\ "read" \in waiting /\ (incoming > 0 \/ peerClosed)
    /\ waiting' = waiting \ {"read"} /\ readEvents' = readEvents \cup {"socket"}
    /\ UNCHANGED <<setup, acceptedPlain, link, flags, m_transferEndReason, buffer_, aio, writeEvents, again, handler, peer, data>>

SocketWritable ==
    /\ link = "connected" /\ "write" \in waiting
    /\ waiting' = waiting \ {"write"} /\ writeEvents' = [writeEvents EXCEPT !["socket"] = @ + 1]
    /\ UNCHANGED <<setup, acceptedPlain, link, flags, m_transferEndReason, buffer_, aio, readEvents, again, handler, peer, data>>

AioReady ==
    /\ handler_waiting_
    /\ handler_waiting_' = FALSE /\ aioEvents' = aioEvents + 1
    /\ UNCHANGED <<setup, acceptedPlain, link, flags, m_transferEndReason, buffer_, events, handler, peer, data>>

-----------------------------------------------------------------------------
Calls == SetupActiveTransfer \/ SetupPassiveTransfer \/ SetActive
         \/ ContinueWithoutSessionResumption \/ Destroy

Handlers ==
    \/ OnAccept \/ OnConnectionEvent \/ OnSocketError \/ OnAio
    \/ \E from \in {"socket", "own"} : OnReadEvent(from)
    \/ \E from \in WriteSources : OnWriteEvent(from)

Turns ==
    \/ ReadsAgain \/ ReadFails \/ ReadListing \/ ReadToEnd \/ CheckGetNextWriteBuffer \/ ReadFile
    \/ FinalizeWrite \/ ReadResumeTest \/ EndResumeTest \/ ReadDuringUpload \/ Discard
    \/ CheckGetNextReadBuffer \/ ShutDown
    \/ Write \/ WritesAgain \/ WriteFails

Environment == PeerSends \/ PeerCloses \/ SocketReadable \/ SocketWritable \/ AioReady

SocketNext == Calls \/ Handlers \/ Turns \/ Environment

(* Handlers run to their end and queued events are dispatched; the server
   connects, sends what it has and closes, the user answers. A socket that is
   readable or writable again and again moves data in the end, and so do the
   writer and the reader that say they are ready. *)
SocketFairness ==
    /\ WF_socketVars(Handlers) /\ WF_socketVars(Turns)
    /\ WF_socketVars(ContinueWithoutSessionResumption)
    /\ WF_socketVars(PeerCloses) /\ WF_socketVars(SocketReadable) /\ WF_socketVars(SocketWritable)
    /\ WF_socketVars(AioReady)
    /\ SF_socketVars(Write) /\ SF_socketVars(ReadListing \/ ReadFile \/ ReadResumeTest \/ ReadDuringUpload)
    /\ SF_socketVars(CheckGetNextWriteBuffer /\ ~handler_waiting_')
    /\ SF_socketVars(FinalizeWrite /\ ~handler_waiting_')
    /\ SF_socketVars(CheckGetNextReadBuffer /\ ~handler_waiting_')

SocketSpec == SocketInit /\ [][SocketNext]_socketVars /\ SocketFairness

-----------------------------------------------------------------------------
(* Properties. *)

(* A transfer that is said to be successful is complete: what the server sent
   before it closed the connection was handed over to the parser or the writer,
   the last buffer included, or the whole file was written to the connection.
   In a resume test the server sent one unit. *)
SuccessIsComplete ==
    m_transferEndReason = "successful" =>
        CASE m_transferMode \in {"list", "download"} -> peerClosed /\ handed = peerSent
          [] m_transferMode = "upload" -> moved = Units
          [] m_transferMode = "resumetest" -> peerClosed /\ peerSent = 1

(* No data crosses the connection before the transfer command, although the
   server may connect and send before, nor while the user is asked whether a
   connection that did not resume the TLS session is good enough. *)
ConsentComesFirst ==
    moved > 0 => commandSent /\ (handshake = "ask" => answered)

(* A read or a write that would have blocked is not repeated before its event,
   whether another event, the writer or the reader wakes the handler up, and no
   handler works on a connection that is gone: OnReceive, unlike OnSend, does not
   ask whether there is one. Writes to an accepted connection without TLS are
   excepted: OnAccept calls OnConnect, and with it OnSend, while the write event of
   set_event_handler is still queued, and that event writes again after an EAGAIN. *)
ReadsAndWritesWaitForEvents ==
    /\ running \in {"receive", "send"} => link = "connected"
    /\ running = "receive" => "read" \notin again
    /\ running = "send" /\ ~acceptedPlain => "write" \notin again

(* Once the transfer command is sent, the transfer ends: no event that was
   postponed, no notice of the reader or writer and no rest of a long loop is lost. *)
TransfersEnd == commandSent ~> (Ended \/ link = "gone")
=============================================================================
