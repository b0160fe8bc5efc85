---------------------------- MODULE FtpTransfer ----------------------------
(***************************************************************************)
(* The control connection of CFtpControlSocket (ftp/ftpcontrolsocket.cpp)  *)
(* with the transfers it runs (CFtpRawTransferOpData, ftp/rawtransfer.cpp) *)
(* and the end of their data connections (ftp/transfersocket.cpp).         *)
(*                                                                         *)
(* Commands are answered in order, and an answer does not say to which     *)
(* command it belongs: the control socket counts the answers that are due  *)
(* and those to be thrown away because nobody waits for them any more.     *)
(* What the data connection does arrives as an event, before, between or   *)
(* after the answers to the command.                                       *)
(*                                                                         *)
(* The server answers every command once, the transfer commands possibly   *)
(* with a preliminary answer first.  The logon is the welcome message.     *)
(***************************************************************************)
EXTENDS Integers, Sequences

CONSTANTS
    MaxOps,          \* bound: operations
    MaxKeepalives,   \* bound: keep-alive commands
    Modes,           \* how transfers are to be made, of TransferModes
    AllowFallback,   \* OPTION_ALLOW_TRANSFERMODEFALLBACK
    SendFailures,    \* whether a write to the control connection may fail
    EarlyFailures    \* whether an active data connection may fail before its command

TransferModes == {"passive", "active", "proxy"}

ASSUME ConstantsAssumption ==
    /\ MaxOps \in Nat /\ MaxKeepalives \in Nat
    /\ Modes \subseteq TransferModes
    /\ {AllowFallback, SendFailures, EarlyFailures} \subseteq BOOLEAN

VARIABLES
    active_layer_,        \* whether the control socket is connected
    operation,            \* operations_.back(), with what its parent has asked for
    m_pTransferSocket,    \* "none", "running" or its m_transferEndReason
    m_pendingReplies, m_repliesToSkip,
    m_lastTypeBinary, m_sentRestartOffset,
    m_idleTimer,          \* whether the keep-alive timer runs
    m_pIPResolver,        \* "none", "busy" or "done"
    endEvents, ipEvents,  \* the TransferEndEvents and CExternalIPResolveEvents queued
    broken,               \* whether a write to the connection has failed
    commands, replies,    \* what is on its way to the server and from it
    started,              \* whether the server has sent the preliminary answer
    serverType, serverRest, restSupported,
    ops, keepalives,      \* what the bounds count
    confirmed,            \* history: transfers the server has confirmed
    moved,                \* history: ... whose data connection ended in success
    completed             \* history: ... reported as successful

client == <<operation, m_pTransferSocket, m_pendingReplies, m_repliesToSkip, m_lastTypeBinary,
            m_sentRestartOffset, m_idleTimer, m_pIPResolver, commands, broken>>
server == <<started, serverType, serverRest, restSupported, confirmed>>
vars == <<active_layer_, client, server, endEvents, ipEvents, replies, ops, keepalives, moved, completed>>

EndReasons == {"successful", "failure", "failed_tls_resumption"}
RawStates == {"init", "type", "port_pasv", "rest", "transfer",
              "waitfinish", "waittransferpre", "waittransfer", "waitsocket"}

NewOp(kind, id, binary, resume, mode) ==
    [kind |-> kind, id |-> id, opState |-> "init", binary |-> binary, resume |-> resume,
     bPasv |-> mode # "active", bTriedPasv |-> FALSE, bTriedActive |-> mode = "proxy",
     tranferCommandSent |-> FALSE, transferEndReason |-> "successful"]

NoOp == NewOp("none", 0, FALSE, FALSE, "passive")

Ops == [kind : {"none", "logon", "simple", "raw"}, id : 0..MaxOps, opState : RawStates \cup {"wait"},
        binary : BOOLEAN, resume : BOOLEAN, bPasv : BOOLEAN, bTriedPasv : BOOLEAN,
        bTriedActive : BOOLEAN, tranferCommandSent : BOOLEAN, transferEndReason : EndReasons]

Commands == {"CMD", "TYPE", "PASV", "PORT", "REST", "RETR"}

(* The type invariant, with the relation of the two counters: no more answers
   are skipped than are due. *)
Ranges ==
    /\ operation \in Ops
    /\ m_pTransferSocket \in {"none", "running"} \cup EndReasons
    /\ m_pendingReplies \in Nat /\ m_repliesToSkip \in 0..m_pendingReplies
    /\ m_lastTypeBinary \in {-1, 0, 1} /\ m_pIPResolver \in {"none", "busy", "done"}
    /\ endEvents \in Nat /\ ipEvents \in Nat
    /\ commands \in Seq([cmd : Commands, op : 0..MaxOps, binary : BOOLEAN, resume : BOOLEAN])
    /\ replies \in Seq([cmd : Commands \cup {"welcome"}, op : 0..MaxOps, code : {1, 2, 5}])
    /\ ops \in 0..MaxOps /\ keepalives \in 0..MaxKeepalives
    /\ confirmed \subseteq 1..MaxOps /\ moved \subseteq 1..MaxOps /\ completed \subseteq 1..MaxOps

Flags ==
    /\ active_layer_ \in BOOLEAN /\ m_sentRestartOffset \in BOOLEAN
    /\ m_idleTimer \in BOOLEAN /\ broken \in BOOLEAN /\ started \in BOOLEAN
    /\ serverType \in BOOLEAN /\ serverRest \in BOOLEAN /\ restSupported \in BOOLEAN

TypeOK == Ranges /\ Flags

Init ==
    /\ active_layer_ = FALSE /\ operation = NoOp
    /\ m_pTransferSocket = "none"
    /\ m_pendingReplies = 1 /\ m_repliesToSkip = 0
    /\ m_lastTypeBinary = -1 /\ m_sentRestartOffset = FALSE
    /\ m_idleTimer = FALSE /\ m_pIPResolver = "none"
    /\ endEvents = 0 /\ ipEvents = 0 /\ broken = FALSE
    /\ commands = <<>> /\ replies = <<>> /\ started = FALSE
    /\ serverType = FALSE /\ serverRest = FALSE /\ restSupported \in BOOLEAN
    /\ ops = 0 /\ keepalives = 0
    /\ confirmed = {} /\ moved = {} /\ completed = {}

-----------------------------------------------------------------------------
(* The end of an operation. *)

(* StartKeepaliveTimer *)
KeepaliveTimer(pending, skip) == m_idleTimer \/ (pending = 0 /\ skip = 0)

(* Mutant: the answers that are still due are not skipped. *)
ResetOperationNoSkip(pending, disconnected) ==
    /\ operation' = NoOp
    /\ m_pTransferSocket' = "none" /\ m_pIPResolver' = "none"
    /\ m_pendingReplies' = pending /\ m_repliesToSkip' = 0
    /\ m_idleTimer' = (~disconnected /\ KeepaliveTimer(pending, pending))

(* ResetOperation of everything on the stack.  pending is what the caller has
   left of m_pendingReplies. *)
ResetOperation(pending, disconnected) ==
    /\ operation' = NoOp
    /\ m_pTransferSocket' = "none" /\ m_pIPResolver' = "none"
    /\ m_pendingReplies' = pending /\ m_repliesToSkip' = pending
    /\ m_idleTimer' = (~disconnected /\ KeepaliveTimer(pending, pending))

(* ResetSocket and then ResetOperation; what is on its way is lost. *)
DoClose ==
    /\ active_layer_' = FALSE
    /\ ResetOperation(0, TRUE)
    /\ commands' = <<>> /\ replies' = <<>> /\ started' = FALSE /\ broken' = FALSE
    /\ UNCHANGED <<m_lastTypeBinary, m_sentRestartOffset>>

-----------------------------------------------------------------------------
(* Sending.  A handler first works on c, the part of the state that it changes,
   and ends by sending the next command or by ending the operation. *)

Now == [op |-> operation, pending |-> m_pendingReplies, type |-> m_lastTypeBinary,
        rest |-> m_sentRestartOffset, socket |-> m_pTransferSocket]

Keep(c) ==
    /\ operation' = c.op /\ m_pTransferSocket' = c.socket
    /\ m_lastTypeBinary' = c.type /\ m_sentRestartOffset' = c.rest
    /\ m_repliesToSkip' = 0 /\ m_pIPResolver' = "none"
    /\ UNCHANGED m_idleTimer

(* Nothing is to be sent. *)
Wait(c) ==
    /\ Keep(c)
    /\ m_pendingReplies' = c.pending
    /\ UNCHANGED <<commands, broken>>

(* SendCommand takes the result of CRealControlSocket::Send for a bool, which
   it is not: an error is not zero either, and counts as sent. *)
Written(command) ==
    \/ ~broken /\ commands' = Append(commands, command) /\ UNCHANGED broken
    \/ (broken \/ SendFailures) /\ broken' = TRUE /\ UNCHANGED commands

SendCommand(c, cmd) ==
    /\ Keep(c)
    /\ m_pendingReplies' = c.pending + 1
    /\ Written([cmd |-> cmd, op |-> c.op.id, binary |-> c.op.binary, resume |-> c.op.resume])

(* The operation fails. *)
Fail(c) ==
    /\ ResetOperation(c.pending, FALSE)
    /\ m_lastTypeBinary' = c.type /\ m_sentRestartOffset' = c.rest
    /\ UNCHANGED <<commands, broken>>

Bit(binary) == IF binary THEN 1 ELSE 0

(* CFtpRawTransferOpData::Send, state by state. *)
SendType(c) == SendCommand([c EXCEPT !.type = -1], "TYPE")

SendPasv(c) == SendCommand([c EXCEPT !.op.bPasv = TRUE, !.op.bTriedPasv = TRUE], "PASV")

(* An active transfer needs to know the external address and a socket that
   listens. *)
SendPort(c) ==
    \/ /\ m_pIPResolver = "none"
       /\ m_pIPResolver' = "busy"
       /\ operation' = c.op /\ m_pTransferSocket' = c.socket
       /\ m_pendingReplies' = c.pending /\ m_lastTypeBinary' = c.type /\ m_sentRestartOffset' = c.rest
       /\ m_repliesToSkip' = 0
       /\ UNCHANGED <<m_idleTimer, commands, broken>>
    \/ SendCommand([c EXCEPT !.op.bTriedActive = TRUE], "PORT")
    \/ (~AllowFallback \/ c.op.bTriedPasv) /\ Fail(c)
    \/ AllowFallback /\ ~c.op.bTriedPasv /\ SendPasv([c EXCEPT !.op.bTriedActive = TRUE])

(* Mutant: the offset counts as sent once it has been answered. *)
SendRestLate(c) == SendCommand(c, "REST")

SendRest(c) == SendCommand([c EXCEPT !.rest = @ \/ c.op.resume], "REST")

(* A name of the user may not be in the charset of the server: ConvToServer fails. *)
SendNamed(c, cmd) == SendCommand(c, cmd) \/ Fail(c)

(* A passive transfer also fails if its connection cannot be made. *)
SendTransfer(c) == SendNamed([c EXCEPT !.op.tranferCommandSent = TRUE], "RETR")

RawSend(c) ==
    \/ c.op.opState = "type" /\ SendType(c)
    \/ c.op.opState = "port_pasv" /\ c.op.bPasv /\ SendPasv(c)
    \/ c.op.opState = "port_pasv" /\ ~c.op.bPasv /\ SendPort(c)
    \/ c.op.opState = "rest" /\ SendRest(c)
    \/ c.op.opState = "transfer" /\ SendTransfer(c)
    \/ c.op.opState \in {"waitfinish", "waittransferpre", "waittransfer", "waitsocket"} /\ Wait(c)

(* An operation sends its first command.  The parent of a transfer creates the
   transfer socket, and the data type is set if it is not known to be right. *)
Begin(c) ==
    \/ c.op.kind = "simple" /\ SendNamed([c EXCEPT !.op.opState = "wait"], "CMD")
    \/ /\ c.op.kind = "raw"
       /\ RawSend([c EXCEPT !.socket = "running",
                            !.op.opState = IF c.type = Bit(c.op.binary) THEN "port_pasv" ELSE "type"])

(* SendNextCommand: nothing is sent before all that is to be skipped has come. *)
CanSendNextCommand == m_repliesToSkip = 0
-----------------------------------------------------------------------------
(* Operations of the user, one at a time. *)

(* Connect, up to OnConnect: the welcome message is due. *)
Connect ==
    /\ operation = NoOp /\ ~active_layer_ /\ ops < MaxOps
    /\ ops' = ops + 1
    /\ active_layer_' = TRUE
    /\ operation' = [NewOp("logon", ops', FALSE, FALSE, "passive") EXCEPT !.opState = "wait"]
    /\ m_lastTypeBinary' = -1 /\ m_sentRestartOffset' = FALSE
    /\ m_pendingReplies' = 1
    /\ replies' = <<[cmd |-> "welcome", op |-> ops', code |-> 2]>>
    /\ serverType' = FALSE /\ serverRest' = FALSE
    /\ UNCHANGED <<m_pTransferSocket, m_repliesToSkip, m_idleTimer, m_pIPResolver, endEvents, ipEvents, broken,
                   commands, started, restSupported, keepalives, confirmed, moved, completed>>

(* A command that sends one command, or a transfer. *)
Execute(kind, binary, resume, mode) ==
    /\ operation = NoOp /\ active_layer_ /\ ops < MaxOps
    /\ ops' = ops + 1
    /\ LET op == NewOp(kind, ops', binary, resume, mode)
       IN IF CanSendNextCommand
          THEN Begin([Now EXCEPT !.op = op])
          ELSE /\ operation' = op
               /\ UNCHANGED <<m_pTransferSocket, m_pendingReplies, m_repliesToSkip, m_lastTypeBinary,
                              m_sentRestartOffset, m_idleTimer, m_pIPResolver, commands, broken>>
    /\ UNCHANGED <<active_layer_, server, endEvents, ipEvents, replies, keepalives, moved, completed>>

(* CControlSocket::Cancel *)
Cancel ==
    /\ operation # NoOp
    /\ \/ operation.kind = "logon" /\ DoClose
       \/ /\ operation.kind # "logon" /\ ResetOperation(m_pendingReplies, FALSE)
          /\ UNCHANGED <<active_layer_, m_lastTypeBinary, m_sentRestartOffset, commands, broken, replies, started>>
    /\ UNCHANGED <<serverType, serverRest, restSupported, endEvents, ipEvents, ops, keepalives,
                   confirmed, moved, completed>>

-----------------------------------------------------------------------------
(* Answers. *)

Succeed(c) ==
    /\ ResetOperation(c.pending, FALSE)
    /\ m_lastTypeBinary' = c.type /\ m_sentRestartOffset' = c.rest
    /\ completed' = completed \cup (IF c.op.kind = "raw" THEN {c.op.id} ELSE {})
    /\ UNCHANGED <<commands, broken>>

(* Mutant: the other mode is tried whatever has been tried already. *)
FallbackForEver(c) ==
    IF AllowFallback THEN RawSend([c EXCEPT !.op.bPasv = ~@]) ELSE Fail(c)

(* PASV or PORT has been rejected, or the answer to PASV is of no use: the other
   mode is tried unless it has been. *)
Fallback(c) ==
    IF AllowFallback /\ ~(c.op.bTriedPasv /\ c.op.bTriedActive)
    THEN RawSend([c EXCEPT !.op.bPasv = ~c.op.bTriedPasv])
    ELSE Fail(c)

GoOn(c, state) == RawSend([c EXCEPT !.op.opState = state])

(* CFtpRawTransferOpData::ParseResponse without the two answers that end the
   transfer in success. *)
RawParseResponse(c, code) ==
    \/ /\ c.op.opState = "type"
       /\ IF code = 2 THEN GoOn([c EXCEPT !.type = Bit(c.op.binary)], "port_pasv") ELSE Fail(c)
    \/ /\ c.op.opState = "port_pasv"
       /\ \/ code = 2 /\ GoOn(c, IF c.op.resume \/ c.rest THEN "rest" ELSE "transfer")
          \/ (code # 2 \/ c.op.bPasv) /\ Fallback(c)
    \/ /\ c.op.opState = "rest"
       /\ IF c.op.resume /\ code # 2 THEN Fail(c)
          ELSE GoOn([c EXCEPT !.rest = @ /\ c.op.resume], "transfer")
    \/ /\ c.op.opState = "transfer"
       /\ CASE code = 1 -> GoOn(c, "waitfinish")
            [] code = 2 -> GoOn(c, "waitsocket")
            [] OTHER    -> Fail(c)
    \/ /\ c.op.opState = "waittransferpre"
       /\ IF code = 1 THEN GoOn(c, "waittransfer") ELSE Fail(c)
    \/ /\ c.op.opState = "waitfinish"
       /\ IF code = 2 THEN GoOn(c, "waitsocket") ELSE Fail(c)
    \/ c.op.opState \in {"waittransfer", "waitsocket"} /\ Fail(c)

(* The data has been moved, and now the server confirms it. *)
Confirms(op, code) ==
    /\ op.opState \in {"waittransferpre", "waittransfer"}
    /\ code = 2 /\ op.transferEndReason = "successful"

(* Mutant: whoever waits for the answers to be skipped is not told. *)
SkipReplyQuietly(final, pending) ==
    /\ m_pendingReplies' = pending
    /\ m_repliesToSkip' = IF final THEN m_repliesToSkip - 1 ELSE m_repliesToSkip
    /\ m_idleTimer' = IF m_repliesToSkip' = 0 /\ operation = NoOp
                      THEN KeepaliveTimer(pending, 0) ELSE m_idleTimer
    /\ UNCHANGED <<operation, m_pTransferSocket, m_lastTypeBinary, m_sentRestartOffset, m_pIPResolver, commands, broken>>

(* An answer is thrown away.  After the last one the keep-alive timer is
   started, or the operation that waits is. *)
SkipReply(final, pending) ==
    IF final /\ m_repliesToSkip = 1 /\ operation # NoOp /\ pending = 0
    THEN Begin([Now EXCEPT !.pending = pending])
    ELSE /\ m_pendingReplies' = pending
         /\ m_repliesToSkip' = IF final THEN m_repliesToSkip - 1 ELSE m_repliesToSkip
         /\ m_idleTimer' = IF m_repliesToSkip' = 0 /\ operation = NoOp
                           THEN KeepaliveTimer(pending, 0) ELSE m_idleTimer
         /\ UNCHANGED <<operation, m_pTransferSocket, m_lastTypeBinary, m_sentRestartOffset, m_pIPResolver,
                        commands, broken>>

(* CFtpControlSocket::ParseResponse *)
ParseResponse ==
    /\ active_layer_ /\ replies # <<>>
    /\ replies' = Tail(replies)
    /\ LET code == Head(replies).code
           final == code # 1
           pending == IF final THEN m_pendingReplies - 1 ELSE m_pendingReplies
           c == [Now EXCEPT !.pending = pending]
       IN IF final /\ m_pendingReplies = 0 THEN UNCHANGED <<client, completed>>
          ELSE IF m_repliesToSkip > 0 THEN SkipReply(final, pending) /\ UNCHANGED completed
          ELSE IF operation = NoOp
          THEN m_pendingReplies' = pending /\ UNCHANGED completed /\ Keep(c) /\ UNCHANGED <<commands, broken>>
          ELSE IF operation.kind = "raw" /\ ~Confirms(operation, code)
          THEN RawParseResponse(c, code) /\ UNCHANGED completed
          ELSE Succeed(c)
    /\ UNCHANGED <<active_layer_, server, endEvents, ipEvents, ops, keepalives, moved>>
-----------------------------------------------------------------------------
(* The data connection. *)

(* CTransferSocket::TransferEnd.  The data connection is used once the transfer
   command has been sent; an active one may have been made, and have failed, before
   that. *)
DataEnds(reason) ==
    /\ m_pTransferSocket = "running"
    /\ \/ operation.tranferCommandSent
       \/ EarlyFailures /\ reason # "successful" /\ ~operation.bPasv /\ operation.bTriedActive
    /\ m_pTransferSocket' = reason
    /\ endEvents' = endEvents + 1
    /\ moved' = moved \cup (IF reason = "successful" THEN {operation.id} ELSE {})
    /\ UNCHANGED <<active_layer_, operation, m_pendingReplies, m_repliesToSkip, m_lastTypeBinary, m_sentRestartOffset,
                   m_idleTimer, m_pIPResolver, commands, broken, server, ipEvents, replies, ops, keepalives, completed>>

(* Mutant: an event of the previous transfer socket is taken for one of this. *)
UnusualTransferEndNull == operation.kind # "raw" \/ m_pTransferSocket = "none"

(* The event is one of a transfer socket that is gone. *)
UnusualTransferEnd ==
    operation.kind # "raw" \/ m_pTransferSocket \in {"none", "running"}

AfterTransferEnd == [transfer |-> "waittransferpre", waitfinish |-> "waittransfer"]

(* CFtpControlSocket::TransferEnd *)
TransferEnd ==
    /\ endEvents > 0
    /\ endEvents' = endEvents - 1
    /\ LET reason == m_pTransferSocket
           op == [operation EXCEPT !.transferEndReason = IF @ = "successful" /\ reason \in EndReasons THEN reason ELSE @]
       IN \/ UnusualTransferEnd /\ UNCHANGED <<client, completed>>
          \/ /\ ~UnusualTransferEnd /\ reason = "failed_tls_resumption"
             /\ ResetOperation(m_pendingReplies, TRUE)
             /\ UNCHANGED <<m_lastTypeBinary, m_sentRestartOffset, commands, broken, completed>>
          \/ /\ ~UnusualTransferEnd /\ reason # "failed_tls_resumption" /\ op.opState = "waitsocket"
             /\ IF reason = "failure" THEN Fail(Now) /\ UNCHANGED completed ELSE Succeed(Now)
          \/ /\ ~UnusualTransferEnd /\ reason # "failed_tls_resumption" /\ op.opState # "waitsocket"
             /\ operation' = IF op.opState \in DOMAIN AfterTransferEnd
                             THEN [op EXCEPT !.opState = AfterTransferEnd[op.opState]] ELSE op
             /\ UNCHANGED <<m_pTransferSocket, m_pendingReplies, m_repliesToSkip, m_lastTypeBinary,
                            m_sentRestartOffset, m_idleTimer, m_pIPResolver, commands, broken, completed>>
    /\ UNCHANGED <<active_layer_, server, ipEvents, replies, ops, keepalives, moved>>

(* The external address is found, or not. *)
Resolved ==
    /\ m_pIPResolver = "busy"
    /\ m_pIPResolver' = "done"
    /\ ipEvents' = ipEvents + 1
    /\ UNCHANGED <<active_layer_, operation, m_pTransferSocket, m_pendingReplies, m_repliesToSkip, m_lastTypeBinary,
                   m_sentRestartOffset, m_idleTimer, commands, broken, server, endEvents, replies, ops, keepalives,
                   moved, completed>>

(* The event may be one of a resolver that is gone. *)
OnExternalIPAddress ==
    /\ ipEvents > 0
    /\ ipEvents' = ipEvents - 1
    /\ IF m_pIPResolver = "none" THEN UNCHANGED client ELSE RawSend(Now)
    /\ UNCHANGED <<active_layer_, server, endEvents, replies, ops, keepalives, moved, completed>>

-----------------------------------------------------------------------------
(* The idle timer: NOOP, PWD, or TYPE with what is known of the type. *)
OnTimer ==
    /\ m_idleTimer /\ keepalives < MaxKeepalives
    /\ m_idleTimer' = FALSE
    /\ IF operation = NoOp /\ m_pendingReplies = 0 /\ m_repliesToSkip = 0
       THEN /\ keepalives' = keepalives + 1
            /\ m_pendingReplies' = 1 /\ m_repliesToSkip' = 1
            /\ \E cmd \in {"CMD", "TYPE"} :
                  Written([cmd |-> cmd, op |-> 0, binary |-> m_lastTypeBinary # 0, resume |-> FALSE])
       ELSE UNCHANGED <<keepalives, m_pendingReplies, m_repliesToSkip, commands, broken>>
    /\ UNCHANGED <<active_layer_, operation, m_pTransferSocket, m_lastTypeBinary, m_sentRestartOffset, m_pIPResolver,
                   server, endEvents, ipEvents, replies, ops, moved, completed>>

(* Something will happen to the operation: an answer comes, the data connection
   or the resolver is at work or its event is queued. *)
SomethingHappens ==
    \/ commands # <<>> \/ replies # <<>>
    \/ m_pTransferSocket = "running" /\ operation.tranferCommandSent
    \/ m_pTransferSocket \in EndReasons /\ endEvents > 0
    \/ m_pIPResolver # "none" /\ (m_pIPResolver = "busy" \/ ipEvents > 0)

(* CControlSocket::OnTimer, which ends what would wait for ever. *)
Timeout ==
    /\ active_layer_ /\ operation # NoOp /\ ~SomethingHappens
    /\ DoClose
    /\ UNCHANGED <<serverType, serverRest, restSupported, endEvents, ipEvents, ops, keepalives,
                   confirmed, moved, completed>>

(* The connection is lost at any time. *)
OnSocketError ==
    /\ active_layer_
    /\ DoClose
    /\ UNCHANGED <<serverType, serverRest, restSupported, endEvents, ipEvents, ops, keepalives,
                   confirmed, moved, completed>>

-----------------------------------------------------------------------------
(* The server, as the client expects it: it may keep the offset of a REST for
   more than one transfer, rejects REST always or never, and anything else when it
   likes. *)

ServerStarts ==
    /\ commands # <<>> /\ Head(commands).cmd = "RETR" /\ ~started
    /\ started' = TRUE
    /\ replies' = Append(replies, [cmd |-> "RETR", op |-> Head(commands).op, code |-> 1])
    /\ UNCHANGED <<active_layer_, client, serverType, serverRest, restSupported, endEvents, ipEvents, ops,
                   keepalives, confirmed, moved, completed>>

ServerAnswers(code) ==
    /\ commands # <<>>
    /\ LET command == Head(commands)
       IN /\ command.cmd = "REST" => (code = 2 <=> restSupported)
          /\ replies' = Append(replies, [cmd |-> command.cmd, op |-> command.op, code |-> code])
          /\ serverType' = IF command.cmd = "TYPE" /\ code = 2 THEN command.binary ELSE serverType
          /\ serverRest' = IF command.cmd = "REST" /\ code = 2 THEN command.resume ELSE serverRest
          /\ confirmed' = confirmed \cup (IF command.cmd = "RETR" /\ code = 2 THEN {command.op} ELSE {})
    /\ commands' = Tail(commands)
    /\ started' = FALSE
    /\ UNCHANGED <<active_layer_, operation, m_pTransferSocket, m_pendingReplies, m_repliesToSkip, m_lastTypeBinary,
                   m_sentRestartOffset, m_idleTimer, m_pIPResolver, broken, restSupported, endEvents, ipEvents, ops,
                   keepalives, moved, completed>>

User ==
    \/ Connect \/ Cancel
    \/ Execute("simple", FALSE, FALSE, "passive")
    \/ \E binary, resume \in BOOLEAN, mode \in Modes : Execute("raw", binary, resume, mode)
Loop == ParseResponse \/ TransferEnd \/ OnExternalIPAddress
Data == (\E reason \in EndReasons : DataEnds(reason)) \/ Resolved
Server == ServerStarts \/ \E code \in {2, 5} : ServerAnswers(code)

Next == User \/ Loop \/ Data \/ OnTimer \/ Timeout \/ OnSocketError \/ Server

(* The event loop handles what arrives, the server answers, data connections
   and resolvers come to an end of some kind, and the timer runs. *)
Fairness == WF_vars(Loop) /\ WF_vars(Server) /\ WF_vars(Data) /\ WF_vars(Timeout)

Spec == Init /\ [][Next]_vars /\ Fairness

-----------------------------------------------------------------------------
(* The properties. *)

(* What the operation waits for an answer to. *)
Awaited ==
    CASE operation.kind = "logon"  -> "welcome"
      [] operation.kind = "simple" -> "CMD"
      [] operation.opState = "type" -> "TYPE"
      [] operation.opState = "port_pasv" -> IF operation.bPasv THEN "PASV" ELSE "PORT"
      [] operation.opState = "rest" -> "REST"
      [] OTHER -> "RETR"

(* The answer an operation is given is the one to its own last command, whatever
   was cancelled or sent to keep the connection alive before. *)
RepliesReachTheirCommand ==
    replies # <<>> /\ m_repliesToSkip = 0 /\ operation # NoOp
       => Head(replies).op = operation.id /\ Head(replies).cmd = Awaited

(* A transfer is reported as successful only if the server has confirmed this
   very transfer and its own data connection has come to a good end, in whatever
   order the two are noticed, late events of earlier ones included. *)
SuccessIsReal == completed \subseteq confirmed \cap moved

(* A transfer is carried out with the data type it needs, and neither with the
   restart offset of an earlier one nor without its own. *)
TransferredAsAsked ==
    commands # <<>> /\ Head(commands).cmd = "RETR"
       => Head(commands).binary = serverType /\ Head(commands).resume = serverRest

(* "FZ_REPLY_WOULDBLOCK, waiting on some exvent": an operation that waits has
   something to wait for, and never needs the timeout. *)
WaitsForSomething == active_layer_ /\ operation # NoOp => SomethingHappens

(* The server has confirmed a transfer whose data connection had failed before the
   transfer command was sent, and its end is waited for. *)
FailedEarly == operation.opState = "waitsocket" /\ operation.transferEndReason # "successful"

(* With the two exceptions where only the timeout helps, a write that failed and
   a data connection that failed early, an operation waits for an answer, an end
   of the data connection or an address that is going to come. *)
WaitsHaveAReason == ~broken /\ ~FailedEarly => WaitsForSomething

(* Every operation ends: changing between the modes does not go on for ever, nor
   does waiting for answers to skip. *)
OperationsEnd == \A id \in 1..MaxOps : operation.id = id ~> operation.id # id
=============================================================================
