------------------------- MODULE FtpTransferProofs -------------------------
(***************************************************************************)
(* Proofs about the control connection and its transfers: for any number   *)
(* of operations and keep-alive commands and whatever the settings.        *)
(*                                                                         *)
(* The argument is that of all that is sent at most one command is         *)
(* unanswered, and that it is the one the operation waits for unless an    *)
(* answer is to be skipped.  What the control socket believes of the       *)
(* server's data type and restart offset is then right at the moment the   *)
(* transfer command is sent, and nothing can change it before the server   *)
(* reads the command.                                                      *)
(***************************************************************************)
EXTENDS FtpTransfer, SequenceTheorems, TLAPS

-----------------------------------------------------------------------------
(* The inductive invariant. *)

(* Once the transfer command is sent. *)
SentStates == {"transfer", "waitfinish", "waittransferpre", "waittransfer", "waitsocket"}
MovedStates == {"waittransferpre", "waittransfer"}

(* At most one answer is due, and an operation that has begun knows whether. *)
Counting ==
    /\ m_pendingReplies \in {0, 1} /\ m_repliesToSkip \in {0, m_pendingReplies}
    /\ m_repliesToSkip = 1 => operation = NoOp \/ operation.opState = "init"
    /\ operation = NoOp /\ active_layer_ => m_repliesToSkip = m_pendingReplies
    /\ operation # NoOp /\ operation.opState = "init" => m_repliesToSkip = 1
    /\ operation # NoOp /\ operation.opState # "init" =>
          m_pendingReplies = IF operation.opState = "waitsocket" \/ m_pIPResolver # "none" THEN 0 ELSE 1
    /\ ~active_layer_ => operation = NoOp /\ m_repliesToSkip = 0 /\ ~m_idleTimer /\ ~broken

(* The operation, its transfer socket and its resolver. *)
Stages ==
    /\ operation # NoOp => operation.kind # "none" /\ operation.id # 0
    /\ operation.kind = "logon" => operation.opState = "wait"
    /\ operation.kind = "simple" => operation.opState \in {"init", "wait"}
    /\ operation.kind = "raw" => operation.opState # "wait"
    /\ m_pTransferSocket = "none" <=> operation.kind # "raw" \/ operation.opState = "init"
    /\ m_pIPResolver # "none" => operation.kind = "raw" /\ operation.opState = "port_pasv" /\ ~operation.bPasv
    /\ operation.tranferCommandSent <=> operation.opState \in SentStates

(* An operation that has not begun is as it was created. *)
Waiting == operation.opState = "init" => operation.transferEndReason = "successful"

(* What is on its way is one command, or its answers. *)
InFlight ==
    /\ Len(commands) <= 1 /\ Len(replies) <= 2
    /\ commands # <<>> \/ replies # <<>> => m_pendingReplies = 1 /\ active_layer_ /\ ~broken
    /\ m_pendingReplies = 1 /\ active_layer_ /\ ~broken =>
          commands # <<>> \/ (replies # <<>> /\ replies[Len(replies)].code # 1)
    /\ commands # <<>> /\ replies # <<>> => started /\ Len(replies) = 1 /\ replies[1].code = 1
    /\ started => commands # <<>> /\ commands[1].cmd = "RETR"
    /\ Len(replies) = 2 => replies[1].code = 1 /\ replies[2].code # 1
    /\ \A i \in 1..Len(replies) : replies[i].code = 1 => replies[i].cmd = "RETR"
    /\ broken => m_pendingReplies = 1

(* If nothing is to be skipped it is the operation's own. *)
Owned ==
    m_repliesToSkip = 0 /\ operation # NoOp =>
       /\ commands # <<>> => /\ commands[1].op = operation.id /\ commands[1].cmd = Awaited
                             /\ commands[1].binary = operation.binary /\ commands[1].resume = operation.resume
       /\ \A i \in 1..Len(replies) :
             /\ replies[i].op = operation.id /\ replies[i].cmd = Awaited
             /\ replies[i].cmd = "TYPE" /\ replies[i].code = 2 => serverType = operation.binary
             /\ replies[i].cmd = "REST" /\ replies[i].code = 2 => serverRest = operation.resume

(* What is known of the server is true, and stays so when it reads the command. *)
Known ==
    /\ m_lastTypeBinary # -1 => m_lastTypeBinary = Bit(serverType)
    /\ serverRest => m_sentRestartOffset /\ restSupported
    /\ \A i \in 1..Len(replies) : replies[i].cmd = "REST" /\ replies[i].code = 5 => ~restSupported
    /\ commands # <<>> =>
          /\ commands[1].cmd = "TYPE" /\ m_lastTypeBinary # -1 => m_lastTypeBinary = Bit(commands[1].binary)
          /\ commands[1].cmd = "REST" /\ commands[1].resume => m_sentRestartOffset
          /\ commands[1].cmd = "RETR" => commands[1].binary = serverType /\ commands[1].resume = serverRest
    /\ operation.kind = "raw" =>
          /\ operation.opState \notin {"init", "type"} => m_lastTypeBinary = Bit(operation.binary)
          /\ operation.opState = "type" => m_lastTypeBinary = -1

(* Events that are waited for are queued. *)
Events ==
    /\ m_pIPResolver = "done" => ipEvents > 0
    /\ m_pTransferSocket = "successful" => operation.id \in moved /\ operation.tranferCommandSent
    /\ /\ m_pTransferSocket \in EndReasons /\ operation.transferEndReason = "successful"
       /\ operation.opState \notin MovedStates
       => endEvents > 0

(* What an operation has seen of its end is real. *)
Ends ==
    /\ commands # <<>> /\ commands[1].cmd = "RETR" => commands[1].op # 0
    /\ \A i \in 1..Len(replies) : replies[i].cmd = "RETR" /\ replies[i].code = 2 => replies[i].op \in confirmed
    /\ operation.opState \in MovedStates /\ operation.transferEndReason = "successful" => operation.id \in moved
    /\ operation.opState = "waitsocket" => operation.id \in confirmed
    /\ SuccessIsReal

IInv == Ranges /\ Flags /\ Counting /\ Stages /\ Waiting /\ InFlight /\ Owned /\ Known /\ Events /\ Ends

-----------------------------------------------------------------------------
(* A handler that runs when no answer is due and nothing is on its way. *)

CommandRecords == [cmd : Commands, op : 0..MaxOps, binary : BOOLEAN, resume : BOOLEAN]
ReplyRecords == [cmd : Commands \cup {"welcome"}, op : 0..MaxOps, code : {1, 2, 5}]

Quiet ==
    /\ active_layer_ /\ ~broken /\ ~started /\ commands = <<>> /\ replies' = <<>>
    /\ UNCHANGED <<active_layer_, server, endEvents, keepalives, moved>>
    /\ ipEvents' \in Nat /\ ops' \in 0..MaxOps

Works == [op : Ops, pending : {0, 1}, type : {-1, 0, 1}, rest : BOOLEAN,
          socket : {"none", "running"} \cup EndReasons]

(* What it has worked on is a transfer that is ready for its next command, or for
   the end of the data connection. *)
Sound(c) ==
    /\ c \in Works /\ c.op \in Ops /\ c.pending = 0 /\ c.socket # "none"
    /\ c.op.kind = "raw" /\ c.op.id # 0
    /\ c.op.opState \in {"type", "port_pasv", "rest", "transfer", "waitsocket"}
    /\ c.op.tranferCommandSent <=> c.op.opState = "waitsocket"
    /\ c.socket = "successful" => c.op.id \in moved /\ c.op.tranferCommandSent
    /\ c.socket \in EndReasons /\ c.op.transferEndReason = "successful" => endEvents > 0
    /\ c.type # -1 => c.type = Bit(serverType)
    /\ serverRest => c.rest
    /\ c.op.opState # "type" => c.type = Bit(c.op.binary)
    /\ c.op.opState = "transfer" => c.op.resume = serverRest
    /\ c.op.opState = "waitsocket" => c.op.id \in confirmed

LEMMA OneCommand ==
    ASSUME NEW S, NEW x \in S
    PROVE  Append(<<>>, x) = <<x>> /\ <<x>> \in Seq(S) /\ Len(<<x>>) = 1 /\ <<x>>[1] = x /\ <<x>> # <<>>
  OBVIOUS

LEMMA NothingSent ==
    <<>> \in Seq(CommandRecords) /\ <<>> \in Seq(ReplyRecords) /\ Len(<<>>) = 0
  OBVIOUS

LEMMA NoOpFields ==
    /\ NoOp \in Ops /\ NoOp.kind = "none" /\ NoOp.id = 0 /\ NoOp.opState = "init"
    /\ ~NoOp.tranferCommandSent /\ NoOp.transferEndReason = "successful"
  BY ConstantsAssumption DEF NoOp, NewOp, Ops, RawStates, EndReasons

LEMMA QuietFail ==
    ASSUME IInv, Quiet, NEW c, Fail(c), UNCHANGED completed,
           c.pending = 0, c.type \in {-1, 0, 1}, c.rest \in BOOLEAN,
           c.type # -1 => c.type = Bit(serverType), serverRest => c.rest
    PROVE  IInv'
<1> USE DEF IInv, Quiet, Fail, ResetOperation, server
<1>1. Ranges' /\ Flags'
  BY NoOpFields DEF Ranges, Flags, KeepaliveTimer
<1>2. Counting'
  BY NoOpFields DEF Counting
<1>3. Stages' /\ Waiting'
  BY NoOpFields DEF Stages, Waiting, SentStates
<1>4. InFlight' /\ Owned'
  BY NoOpFields DEF InFlight, Owned
<1>5. Known'
  BY NoOpFields DEF Known
<1>6. Events' /\ Ends'
  BY NoOpFields DEF Events, EndReasons, Ends, SuccessIsReal, MovedStates
<1>7. QED
  BY <1>1, <1>2, <1>3, <1>4, <1>5, <1>6

(* What the operation waits for an answer to, once a command is sent. *)
AwaitedBy(op) ==
    CASE op.kind = "logon"  -> "welcome"
      [] op.kind = "simple" -> "CMD"
      [] op.opState = "type" -> "TYPE"
      [] op.opState = "port_pasv" -> IF op.bPasv THEN "PASV" ELSE "PORT"
      [] op.opState = "rest" -> "REST"
      [] OTHER -> "RETR"

(* A command can be sent. *)
Sendable(c, cmd) ==
    /\ c.op \in Ops /\ c.pending = 0 /\ c.type \in {-1, 0, 1} /\ c.rest \in BOOLEAN
    /\ c.op.id # 0 /\ cmd = AwaitedBy(c.op)
    /\ c.type # -1 => c.type = Bit(serverType)
    /\ serverRest => c.rest
    /\ \/ c.op.kind = "simple" /\ c.op.opState = "wait" /\ c.socket = "none" /\ ~c.op.tranferCommandSent
       \/ /\ c.op.kind = "raw" /\ c.op.opState \in {"type", "port_pasv", "rest", "transfer"}
          /\ c.op.tranferCommandSent <=> c.op.opState = "transfer"
          /\ c.socket \in {"running", "failure", "failed_tls_resumption"}
          /\ c.socket \in EndReasons /\ c.op.transferEndReason = "successful" => endEvents > 0
          /\ c.type = IF c.op.opState = "type" THEN -1 ELSE Bit(c.op.binary)
          /\ c.op.opState = "rest" /\ c.op.resume => c.rest
          /\ c.op.opState = "transfer" => c.op.binary = serverType /\ c.op.resume = serverRest

LEMMA QuietSend ==
    ASSUME IInv, Quiet, NEW c, NEW cmd, SendCommand(c, cmd), UNCHANGED completed, Sendable(c, cmd)
    PROVE  IInv'
<1> DEFINE command == [cmd |-> cmd, op |-> c.op.id, binary |-> c.op.binary, resume |-> c.op.resume]
<1>1. cmd \in Commands /\ command \in CommandRecords
  BY DEF Sendable, AwaitedBy, Commands, CommandRecords, Ops
<1>2. /\ commands' = <<command>> \/ commands' = <<>>
      /\ broken' <=> commands' = <<>>
      /\ broken' \in BOOLEAN
  <2>1. <<command>> # <<>> /\ Append(<<>>, command) = <<command>>
    BY <1>1, OneCommand
  <2>2. CASE commands' = Append(commands, command) /\ UNCHANGED broken
    BY <2>1, <2>2 DEF Quiet, IInv, Flags
  <2>3. CASE broken' = TRUE /\ UNCHANGED commands
    BY <2>3 DEF Quiet
  <2>4. QED
    BY <2>2, <2>3 DEF SendCommand, Written
<1>3. commands' # <<>> => /\ commands'[1].cmd = cmd /\ commands'[1].op = c.op.id
                          /\ commands'[1].binary = c.op.binary /\ commands'[1].resume = c.op.resume
  BY <1>2, <1>1, OneCommand
<1>4. commands' \in Seq(CommandRecords) /\ Len(commands') <= 1
  <2>1. CASE commands' = <<>>
    BY <2>1, NothingSent
  <2>2. CASE commands' = <<command>>
    BY <2>2, <1>1, OneCommand
  <2>3. QED
    BY <2>1, <2>2, <1>2
<1>5. replies' \in Seq(ReplyRecords) /\ Len(replies') = 0
  BY NothingSent DEF Quiet
<1> HIDE DEF command
<1> USE DEF IInv, Quiet, SendCommand, Keep, server
<1>6. Ranges'
  BY <1>4, <1>5 DEF Ranges, Sendable, CommandRecords, ReplyRecords, EndReasons
<1>7. Flags'
  BY <1>2 DEF Flags, Sendable
<1>8. Counting'
  BY NoOpFields DEF Counting, Sendable
<1>9. Stages' /\ Waiting'
  BY DEF Stages, Waiting, SentStates, Sendable, EndReasons
<1>10. InFlight'
  BY <1>2, <1>3, <1>4, <1>5 DEF InFlight, Sendable
<1>11. Owned'
  BY <1>3, <1>5 DEF Owned, Sendable, Awaited, AwaitedBy
<1>12. Known'
  BY <1>3, <1>5 DEF Known, Sendable, AwaitedBy
<1>13. Events' /\ Ends'
  BY <1>3, <1>5 DEF Events, EndReasons, Ends, SuccessIsReal, MovedStates, Sendable, AwaitedBy
<1>14. QED
  BY <1>6, <1>7, <1>8, <1>9, <1>10, <1>11, <1>12, <1>13

LEMMA QuietWait ==
    ASSUME IInv, Quiet, NEW c, Wait(c), UNCHANGED completed, Sound(c), c.op.opState = "waitsocket"
    PROVE  IInv'
<1> USE DEF IInv, Quiet, Wait, Keep, server, Sound
<1>1. Ranges' /\ Flags'
  BY DEF Ranges, Flags, Works
<1>2. Counting' /\ Stages' /\ Waiting'
  BY NoOpFields DEF Counting, Stages, Waiting, SentStates
<1>3. InFlight' /\ Owned'
  BY NothingSent DEF InFlight, Owned
<1>4. Known'
  BY NothingSent DEF Known
<1>5. Events' /\ Ends'
  BY NothingSent DEF Events, Ends, SuccessIsReal, MovedStates
<1>6. QED
  BY <1>1, <1>2, <1>3, <1>4, <1>5

LEMMA QuietResolve ==
    ASSUME IInv, Quiet, NEW c, UNCHANGED completed, Sound(c), c.op.opState = "port_pasv", ~c.op.bPasv,
           m_pIPResolver' = "busy", operation' = c.op, m_pTransferSocket' = c.socket, m_pendingReplies' = c.pending,
           m_lastTypeBinary' = c.type, m_sentRestartOffset' = c.rest, m_repliesToSkip' = 0,
           UNCHANGED <<m_idleTimer, commands, broken>>
    PROVE  IInv'
<1> USE DEF IInv, Quiet, server, Sound
<1>1. Ranges' /\ Flags'
  BY DEF Ranges, Flags, Works
<1>2. Counting' /\ Stages' /\ Waiting'
  BY NoOpFields DEF Counting, Stages, Waiting, SentStates
<1>3. InFlight' /\ Owned'
  BY NothingSent DEF InFlight, Owned
<1>4. Known'
  BY NothingSent DEF Known
<1>5. Events' /\ Ends'
  BY NothingSent DEF Events, Ends, SuccessIsReal, MovedStates
<1>6. QED
  BY <1>1, <1>2, <1>3, <1>4, <1>5

LEMMA BitIsExact ==
    ASSUME NEW a \in BOOLEAN, NEW b \in BOOLEAN, Bit(a) = Bit(b)
    PROVE  a = b
  BY DEF Bit

LEMMA QuietRawSend ==
    ASSUME IInv, Quiet, NEW c, RawSend(c), UNCHANGED completed, Sound(c)
    PROVE  IInv'
<1>1. CASE c.op.opState = "type" /\ SendType(c)
  <2>1. Sendable([c EXCEPT !.type = -1], "TYPE")
    BY <1>1 DEF Sendable, Sound, Works, AwaitedBy, EndReasons
  <2>2. QED
    BY <1>1, <2>1, QuietSend DEF SendType
<1>2. CASE c.op.opState = "port_pasv" /\ c.op.bPasv /\ SendPasv(c)
  <2>1. Sendable([c EXCEPT !.op.bPasv = TRUE, !.op.bTriedPasv = TRUE], "PASV")
    BY <1>2 DEF Sendable, Sound, Works, AwaitedBy, Ops, EndReasons
  <2>2. QED
    BY <1>2, <2>1, QuietSend DEF SendPasv
<1>3. CASE c.op.opState = "port_pasv" /\ ~c.op.bPasv /\ SendPort(c)
  <2>1. Sendable([c EXCEPT !.op.bTriedActive = TRUE], "PORT")
    BY <1>3 DEF Sendable, Sound, Works, AwaitedBy, Ops, EndReasons
  <2>2. Sendable([[c EXCEPT !.op.bTriedActive = TRUE] EXCEPT !.op.bPasv = TRUE, !.op.bTriedPasv = TRUE], "PASV")
    BY <1>3 DEF Sendable, Sound, Works, AwaitedBy, Ops, EndReasons
  <2>3. CASE SendCommand([c EXCEPT !.op.bTriedActive = TRUE], "PORT")
    BY <2>1, <2>3, QuietSend
  <2>4. CASE Fail(c)
    BY <2>4, QuietFail DEF Sound, Works
  <2>5. CASE SendPasv([c EXCEPT !.op.bTriedActive = TRUE])
    BY <2>2, <2>5, QuietSend DEF SendPasv
  <2>6. QED
    BY <1>3, <2>3, <2>4, <2>5, QuietResolve DEF SendPort
<1>4. CASE c.op.opState = "rest" /\ SendRest(c)
  <2>1. Sendable([c EXCEPT !.rest = @ \/ c.op.resume], "REST")
    BY <1>4 DEF Sendable, Sound, Works, AwaitedBy, Ops, EndReasons
  <2>2. QED
    BY <1>4, <2>1, QuietSend DEF SendRest
<1>5. CASE c.op.opState = "transfer" /\ SendTransfer(c)
  <2>1. c.op.binary = serverType
    BY <1>5, BitIsExact DEF Sound, Works, Ops, Bit, IInv, Flags
  <2>2. Sendable([c EXCEPT !.op.tranferCommandSent = TRUE], "RETR")
    BY <1>5, <2>1 DEF Sendable, Sound, Works, AwaitedBy, Ops, EndReasons
  <2>3. CASE SendCommand([c EXCEPT !.op.tranferCommandSent = TRUE], "RETR")
    BY <2>2, <2>3, QuietSend
  <2>4. CASE Fail([c EXCEPT !.op.tranferCommandSent = TRUE])
    BY <2>4, QuietFail DEF Sound, Works
  <2>5. QED
    BY <1>5, <2>3, <2>4 DEF SendTransfer, SendNamed
<1>6. CASE c.op.opState = "waitsocket" /\ Wait(c)
  BY <1>6, QuietWait
<1>7. QED
  BY <1>1, <1>2, <1>3, <1>4, <1>5, <1>6 DEF RawSend, Sound

LEMMA QuietBegin ==
    ASSUME IInv, Quiet, NEW c \in Works, Begin(c), UNCHANGED completed,
           c.pending = 0, c.socket = "none", c.op.id # 0, c.op.opState = "init",
           ~c.op.tranferCommandSent, c.op.transferEndReason = "successful",
           c.type # -1 => c.type = Bit(serverType), serverRest => c.rest
    PROVE  IInv'
<1>4. CASE c.op.kind = "simple" /\ Fail([c EXCEPT !.op.opState = "wait"])
  BY <1>4, QuietFail DEF Works
<1>1. CASE c.op.kind = "simple" /\ SendCommand([c EXCEPT !.op.opState = "wait"], "CMD")
  <2>1. Sendable([c EXCEPT !.op.opState = "wait"], "CMD")
    BY <1>1 DEF Sendable, Works, AwaitedBy, Ops
  <2>2. QED
    BY <1>1, <2>1, QuietSend
<1>2. ASSUME c.op.kind = "raw",
             NEW state \in {"port_pasv", "type"}, state # "type" => c.type = Bit(c.op.binary),
             RawSend([c EXCEPT !.socket = "running", !.op.opState = state])
      PROVE  IInv'
  <2>1. Sound([c EXCEPT !.socket = "running", !.op.opState = state])
    BY <1>2 DEF Sound, Works, Ops, RawStates, EndReasons
  <2>2. QED
    BY <1>2, <2>1, QuietRawSend
<1>3. QED
  BY <1>1, <1>2, <1>4 DEF Begin, SendNamed

(* Success empties the stack as well. *)
LEMMA QuietSucceed ==
    ASSUME IInv, Quiet, NEW c \in Works, Succeed(c), c.pending = 0,
           c.type # -1 => c.type = Bit(serverType), serverRest => c.rest,
           c.op.kind = "raw" => c.op.id \in confirmed \cap moved
    PROVE  IInv'
<1> USE DEF IInv, Quiet, Succeed, ResetOperation, server
<1>1. completed' \subseteq 1..MaxOps
  BY DEF Ranges
<1>2. Ranges'
  BY <1>1, NoOpFields, NothingSent DEF Ranges, Works, ReplyRecords
<1>3. Flags'
  BY DEF Flags, Works, KeepaliveTimer
<1>4. Counting'
  BY NoOpFields DEF Counting
<1>5. Stages' /\ Waiting'
  BY NoOpFields DEF Stages, Waiting, SentStates
<1>6. InFlight' /\ Owned'
  BY NothingSent, NoOpFields DEF InFlight, Owned
<1>7. Known'
  BY NothingSent, NoOpFields DEF Known
<1>8. Events' /\ Ends'
  BY NothingSent, NoOpFields DEF Events, EndReasons, Ends, SuccessIsReal, MovedStates
<1>9. QED
  BY <1>2, <1>3, <1>4, <1>5, <1>6, <1>7, <1>8

-----------------------------------------------------------------------------
(* Answers. *)

(* An answer that arrives is due; a final one is the last thing on its way. *)
LEMMA ReplyTaken ==
    ASSUME IInv, ParseResponse
    PROVE  /\ m_pendingReplies = 1 /\ active_layer_ /\ ~broken
           /\ Head(replies) = replies[1] /\ Len(replies) \in {1, 2} /\ replies[1] \in ReplyRecords
           /\ replies' \in Seq(ReplyRecords) /\ Len(replies') = Len(replies) - 1
           /\ Len(replies) = 2 => replies'[1] = replies[2]
           /\ replies[1].code # 1 => replies' = <<>> /\ commands = <<>> /\ ~started
           /\ replies[1].code = 1 => replies[1].cmd = "RETR"
<1>1. replies \in Seq(ReplyRecords) /\ replies # <<>> /\ replies' = Tail(replies)
  BY DEF ParseResponse, IInv, Ranges, ReplyRecords
<1>2. /\ Head(replies) = replies[1] /\ replies[1] \in ReplyRecords
      /\ replies' \in Seq(ReplyRecords) /\ Len(replies') = Len(replies) - 1
      /\ Len(replies) \in Nat /\ Len(replies) >= 1
      /\ \A i \in 1..Len(replies') : replies'[i] = replies[i + 1]
  BY <1>1, HeadTailProperties
<1>3. m_pendingReplies = 1 /\ active_layer_ /\ ~broken
  BY <1>1 DEF IInv, InFlight
<1>4. Len(replies) \in {1, 2} /\ (Len(replies) = 2 => replies'[1] = replies[2])
  BY <1>2 DEF IInv, InFlight
<1>5. replies[1].code = 1 => replies[1].cmd = "RETR"
  BY <1>4 DEF IInv, InFlight
<1>6. ASSUME replies[1].code # 1
      PROVE  replies' = <<>> /\ commands = <<>> /\ ~started
  <2>1. Len(replies) = 1 /\ commands = <<>> /\ ~started
    BY <1>1, <1>4, <1>6 DEF IInv, InFlight
  <2>2. QED
    BY <2>1, <1>2, EmptySeq
<1>7. QED
  BY <1>2, <1>3, <1>4, <1>5, <1>6

(* The control socket works with what is true of it. *)
LEMMA NowIsKnown ==
    ASSUME IInv, NEW pending \in {0, 1}
    PROVE  LET c == [Now EXCEPT !.pending = pending]
           IN  /\ c \in Works /\ c.op = operation /\ c.pending = pending /\ c.socket = m_pTransferSocket
               /\ c.type = m_lastTypeBinary /\ c.rest = m_sentRestartOffset
               /\ c.type # -1 => c.type = Bit(serverType)
               /\ serverRest => c.rest
  BY DEF IInv, Ranges, Flags, Known, Now, Works

LEMMA NextState ==
    ASSUME NEW c \in Works, NEW state \in RawStates
    PROVE  LET d == [c EXCEPT !.op.opState = state]
           IN  /\ d \in Works /\ d.op \in Ops /\ d.op.opState = state
               /\ d.pending = c.pending /\ d.type = c.type /\ d.rest = c.rest /\ d.socket = c.socket
               /\ d.op.kind = c.op.kind /\ d.op.id = c.op.id /\ d.op.binary = c.op.binary
               /\ d.op.resume = c.op.resume /\ d.op.tranferCommandSent = c.op.tranferCommandSent
               /\ d.op.transferEndReason = c.op.transferEndReason
  BY DEF Works, Ops

(* A final answer to a transfer, other than the one that confirms it. *)
LEMMA RawParseKeeps ==
    ASSUME IInv, Quiet, UNCHANGED completed,
           NEW code \in {2, 5}, NEW c, c = [Now EXCEPT !.pending = 0],
           operation.kind = "raw", m_repliesToSkip = 0,
           Len(replies) >= 1, replies[1].code = code,
           RawParseResponse(c, code)
    PROVE  IInv'
<1> DEFINE state == operation.opState
<1>1. /\ c \in Works /\ c.op = operation /\ c.pending = 0 /\ c.socket = m_pTransferSocket
      /\ c.type = m_lastTypeBinary /\ c.rest = m_sentRestartOffset
      /\ c.type # -1 => c.type = Bit(serverType)
      /\ serverRest => c.rest
  BY NowIsKnown
<1>2. /\ operation # NoOp /\ operation \in Ops /\ operation.id # 0 /\ state # "init" /\ state # "wait"
      /\ c.socket # "none"
  BY <1>1, NoOpFields DEF IInv, Stages, Counting, Ranges
<1>3. replies[1].op = operation.id /\ replies[1].cmd = Awaited
  BY <1>2, 1 \in 1..Len(replies) DEF IInv, Owned, Ranges
<1>4. CASE Fail(c)
  BY <1>1, <1>4, QuietFail DEF Works
<1>5. ASSUME NEW d, RawSend(d), Sound(d)
      PROVE  IInv'
  BY <1>5, QuietRawSend
<1>6. /\ c.socket = "successful" => c.op.id \in moved /\ c.op.tranferCommandSent
      /\ c.socket \in EndReasons /\ c.op.transferEndReason = "successful" /\ state \notin MovedStates => endEvents > 0
      /\ c.op.tranferCommandSent <=> state \in SentStates
  BY <1>1 DEF IInv, Events, Stages
<1>7. CASE state = "type" /\ code = 2 /\ GoOn([c EXCEPT !.type = Bit(c.op.binary)], "port_pasv")
  <2>1. serverType = operation.binary
    BY <1>2, <1>3, <1>7, 1 \in 1..Len(replies) DEF IInv, Owned, Awaited, Ranges
  <2>2. Sound([[c EXCEPT !.type = Bit(c.op.binary)] EXCEPT !.op.opState = "port_pasv"])
    BY <1>1, <1>2, <1>6, <1>7, <2>1 DEF Sound, Works, Ops, RawStates, SentStates, MovedStates, Bit
  <2>3. QED
    BY <1>5, <1>7, <2>2 DEF GoOn
<1>8. CASE state = "port_pasv"
  <2>1. c.type = Bit(c.op.binary)
    BY <1>1, <1>2, <1>8 DEF IInv, Known
  <2>2. CASE GoOn(c, "rest")
    <3>1. Sound([c EXCEPT !.op.opState = "rest"])
      BY <1>1, <1>2, <1>6, <1>8, <2>1 DEF Sound, Works, Ops, RawStates, SentStates, MovedStates
    <3>2. QED
      BY <1>5, <2>2, <3>1 DEF GoOn
  <2>3. CASE ~(c.op.resume \/ c.rest) /\ GoOn(c, "transfer")
    <3>1. c.op.resume = serverRest
      BY <1>1, <2>3 DEF IInv, Flags, Works, Ops
    <3>2. Sound([c EXCEPT !.op.opState = "transfer"])
      BY <1>1, <1>2, <1>6, <1>8, <2>1, <3>1 DEF Sound, Works, Ops, RawStates, SentStates, MovedStates
    <3>3. QED
      BY <1>5, <2>3, <3>2 DEF GoOn
  <2>4. CASE Fallback(c)
    <3>1. Sound([c EXCEPT !.op.bPasv = ~c.op.bTriedPasv])
      BY <1>1, <1>2, <1>6, <1>8, <2>1 DEF Sound, Works, Ops, RawStates, SentStates, MovedStates
    <3>2. QED
      BY <1>4, <1>5, <2>4, <3>1 DEF Fallback
  <2>5. QED
    BY <1>1, <1>8, <2>2, <2>3, <2>4 DEF RawParseResponse
<1>9. CASE state = "rest" /\ ~(c.op.resume /\ code # 2) /\ GoOn([c EXCEPT !.rest = @ /\ c.op.resume], "transfer")
  <2>1. c.type = Bit(c.op.binary)
    BY <1>1, <1>2, <1>9 DEF IInv, Known
  <2>2. replies[1].cmd = "REST"
    BY <1>2, <1>3, <1>9 DEF Awaited
  <2>3. code = 2 => serverRest = operation.resume
    BY <1>2, <2>2, 1 \in 1..Len(replies) DEF IInv, Owned, Ranges
  <2>4. code = 5 => ~serverRest
    BY <2>2, 1 \in 1..Len(replies) DEF IInv, Known, Ranges
  <2>5. c.op.resume = serverRest
    BY <1>1, <1>9, <2>3, <2>4 DEF IInv, Flags, Works, Ops
  <2> DEFINE e == [c EXCEPT !.rest = @ /\ c.op.resume]
             d == [e EXCEPT !.op.opState = "transfer"]
  <2>8. /\ e \in Works /\ e.op = c.op /\ e.pending = c.pending /\ e.type = c.type /\ e.socket = c.socket
        /\ e.rest <=> c.rest /\ c.op.resume
    BY <1>1 DEF Works
  <2> HIDE DEF e
  <2>9. /\ d \in Works /\ d.op \in Ops /\ d.op.opState = "transfer"
        /\ d.pending = e.pending /\ d.type = e.type /\ d.rest = e.rest /\ d.socket = e.socket
        /\ d.op.kind = e.op.kind /\ d.op.id = e.op.id /\ d.op.binary = e.op.binary
        /\ d.op.resume = e.op.resume /\ d.op.tranferCommandSent = e.op.tranferCommandSent
        /\ d.op.transferEndReason = e.op.transferEndReason
    BY <2>8, NextState DEF RawStates
  <2> HIDE DEF d
  <2>6. Sound(d)
    BY <1>1, <1>2, <1>6, <1>9, <2>1, <2>5, <2>8, <2>9 DEF Sound, SentStates, MovedStates
  <2>7. QED
    BY <1>5, <1>9, <2>6 DEF GoOn, d, e
<1>10. CASE state \in {"transfer", "waitfinish"} /\ code = 2 /\ GoOn(c, "waitsocket")
  <2>1. c.type = Bit(c.op.binary)
    BY <1>1, <1>2, <1>10 DEF IInv, Known
  <2>2. replies[1].cmd = "RETR"
    BY <1>2, <1>3, <1>10 DEF Awaited
  <2>3. operation.id \in confirmed
    BY <1>3, <1>10, <2>2, 1 \in 1..Len(replies) DEF IInv, Ends, Ranges
  <2> DEFINE d == [c EXCEPT !.op.opState = "waitsocket"]
  <2>4. /\ d \in Works /\ d.op \in Ops /\ d.op.opState = "waitsocket"
        /\ d.pending = c.pending /\ d.type = c.type /\ d.rest = c.rest /\ d.socket = c.socket
        /\ d.op.kind = c.op.kind /\ d.op.id = c.op.id /\ d.op.binary = c.op.binary
        /\ d.op.resume = c.op.resume /\ d.op.tranferCommandSent = c.op.tranferCommandSent
        /\ d.op.transferEndReason = c.op.transferEndReason
    BY <1>1, NextState DEF RawStates
  <2> HIDE DEF d
  <2>5. Sound(d)
    BY <1>1, <1>2, <1>6, <1>10, <2>1, <2>3, <2>4 DEF Sound, SentStates, MovedStates
  <2>6. QED
    BY <1>5, <1>10, <2>5 DEF GoOn, d
<1>11. QED
  BY <1>1, <1>4, <1>7, <1>8, <1>9, <1>10 DEF RawParseResponse

(* A final answer. *)
LEMMA FinalReply ==
    ASSUME IInv, ParseResponse, Head(replies).code # 1
    PROVE  IInv'
<1> DEFINE c == [Now EXCEPT !.pending = 0]
           code == Head(replies).code
<1>1. /\ m_pendingReplies = 1 /\ active_layer_ /\ ~broken /\ Head(replies) = replies[1] /\ Len(replies) >= 1
      /\ replies' = <<>> /\ commands = <<>> /\ ~started /\ code \in {2, 5}
  BY ReplyTaken DEF ReplyRecords
<1>2. Quiet
  BY <1>1 DEF Quiet, ParseResponse, server, IInv, Ranges
<1>3. /\ c \in Works /\ c.op = operation /\ c.pending = 0 /\ c.socket = m_pTransferSocket
      /\ c.type = m_lastTypeBinary /\ c.rest = m_sentRestartOffset
      /\ c.type # -1 => c.type = Bit(serverType)
      /\ serverRest => c.rest
  BY NowIsKnown
<1>4. \/ m_repliesToSkip > 0 /\ SkipReply(TRUE, 0) /\ UNCHANGED completed
      \/ m_repliesToSkip = 0 /\ operation = NoOp
      \/ /\ m_repliesToSkip = 0 /\ operation # NoOp /\ operation.kind = "raw"
         /\ RawParseResponse(c, code) /\ UNCHANGED completed
      \/ /\ m_repliesToSkip = 0 /\ operation # NoOp /\ (operation.kind = "raw" => Confirms(operation, code))
         /\ Succeed(c)
  <2>1. (code # 1) = TRUE /\ (IF code # 1 THEN m_pendingReplies - 1 ELSE m_pendingReplies) = 0
    BY <1>1
  <2>2. m_repliesToSkip > 0 \/ m_repliesToSkip = 0
    BY DEF IInv, Ranges
  <2>3. ~(code # 1 /\ m_pendingReplies = 0)
    BY <1>1
  <2>4. m_repliesToSkip = 0 => ~(m_repliesToSkip > 0)
    OBVIOUS
  <2>5. QED
    BY <2>1, <2>2, <2>3, <2>4, Zenon DEF ParseResponse
<1> HIDE DEF c
<1>5. CASE m_repliesToSkip > 0 /\ SkipReply(TRUE, 0) /\ UNCHANGED completed
  <2>1. m_repliesToSkip = 1
    BY <1>1, <1>5 DEF IInv, Counting
  <2>2. CASE operation # NoOp
    <3>1. /\ operation.opState = "init" /\ operation.id # 0 /\ ~operation.tranferCommandSent
          /\ m_pTransferSocket = "none" /\ operation.transferEndReason = "successful"
      BY <2>1, <2>2 DEF IInv, Counting, Stages, SentStates, Waiting
    <3>2. Begin(c)
      BY <1>5, <2>1, <2>2 DEF SkipReply, c
    <3>3. QED
      BY <1>2, <1>3, <1>5, <3>1, <3>2, QuietBegin
  <2>3. CASE operation = NoOp
    <3>1. /\ m_pendingReplies' = 0 /\ m_repliesToSkip' = 0 /\ m_idleTimer' \in BOOLEAN
          /\ UNCHANGED <<operation, m_pTransferSocket, m_lastTypeBinary, m_sentRestartOffset, m_pIPResolver,
                         commands, broken, completed>>
      BY <1>5, <2>1, <2>3 DEF SkipReply, KeepaliveTimer, IInv, Flags
    <3> USE <1>1, <1>2, <2>3, <3>1, NoOpFields, NothingSent DEF IInv, Quiet, server
    <3>2. Ranges' /\ Flags'
      BY DEF Ranges, Flags, ReplyRecords
    <3>3. Counting' /\ Stages' /\ Waiting'
      BY DEF Counting, Stages, Waiting
    <3>4. InFlight' /\ Owned'
      BY DEF InFlight, Owned
    <3>5. Known'
      BY DEF Known
    <3>6. Events' /\ Ends'
      BY DEF Events, Stages, Ends, EndReasons, SuccessIsReal, MovedStates
    <3>7. QED
      BY <3>2, <3>3, <3>4, <3>5, <3>6
  <2>4. QED
    BY <2>2, <2>3
<1>6. CASE m_repliesToSkip = 0 /\ operation = NoOp
  BY <1>1, <1>6 DEF IInv, Counting
<1>7. CASE /\ m_repliesToSkip = 0 /\ operation # NoOp /\ operation.kind = "raw"
           /\ RawParseResponse(c, code) /\ UNCHANGED completed
  BY <1>1, <1>2, <1>7, RawParseKeeps DEF c
<1>8. CASE /\ m_repliesToSkip = 0 /\ operation # NoOp /\ (operation.kind = "raw" => Confirms(operation, code))
           /\ Succeed(c)
  <2>1. ASSUME operation.kind = "raw"
        PROVE  operation.id \in confirmed \cap moved
    <3>1. code = 2 /\ operation.opState \in MovedStates /\ operation.transferEndReason = "successful"
      BY <1>8, <2>1 DEF Confirms, MovedStates
    <3>2. operation.id \in moved
      BY <3>1 DEF IInv, Ends
    <3>3. replies[1].op = operation.id /\ replies[1].cmd = "RETR"
      BY <1>1, <1>8, <2>1, <3>1, 1 \in 1..Len(replies) DEF IInv, Owned, Awaited, MovedStates, Ranges
    <3>4. operation.id \in confirmed
      BY <1>1, <3>1, <3>3, 1 \in 1..Len(replies) DEF IInv, Ends, Ranges
    <3>5. QED
      BY <3>2, <3>4
  <2>2. QED
    BY <1>2, <1>3, <1>8, <2>1, QuietSucceed
<1>9. QED
  BY <1>4, <1>5, <1>6, <1>7, <1>8

(* A preliminary answer: the transfer goes on, and the final one is still due. *)
LEMMA PreliminaryReply ==
    ASSUME IInv, ParseResponse, Head(replies).code = 1
    PROVE  IInv'
<1> DEFINE c == [Now EXCEPT !.pending = 1]
<1>1. /\ m_pendingReplies = 1 /\ active_layer_ /\ ~broken /\ Head(replies) = replies[1] /\ Len(replies) \in {1, 2}
      /\ replies' \in Seq(ReplyRecords) /\ Len(replies') = Len(replies) - 1
      /\ Len(replies) = 2 => replies'[1] = replies[2]
      /\ replies[1].code = 1 /\ replies[1].cmd = "RETR"
  BY ReplyTaken
<1>2. \A i \in 1..Len(replies') : 2 \in 1..Len(replies) /\ replies'[i] = replies[2] /\ i = 1 /\ Len(replies) = 2
  BY <1>1
<1>3. UNCHANGED <<active_layer_, server, endEvents, ipEvents, ops, keepalives, moved>>
  BY DEF ParseResponse
<1>4. /\ c \in Works /\ c.op = operation /\ c.pending = 1 /\ c.socket = m_pTransferSocket
      /\ c.type = m_lastTypeBinary /\ c.rest = m_sentRestartOffset
  BY NowIsKnown
<1>5. \/ m_repliesToSkip > 0 /\ SkipReply(FALSE, 1) /\ UNCHANGED completed
      \/ m_repliesToSkip = 0 /\ operation = NoOp
      \/ m_repliesToSkip = 0 /\ operation # NoOp /\ operation.kind = "raw" /\ RawParseResponse(c, 1) /\ UNCHANGED completed
      \/ m_repliesToSkip = 0 /\ operation # NoOp /\ operation.kind # "raw"
  <2>1. (Head(replies).code # 1) = FALSE /\ (IF Head(replies).code # 1 THEN m_pendingReplies - 1 ELSE m_pendingReplies) = 1
    BY <1>1
  <2>2. m_repliesToSkip > 0 \/ m_repliesToSkip = 0
    BY DEF IInv, Ranges
  <2>3. m_repliesToSkip = 0 => ~(m_repliesToSkip > 0)
    OBVIOUS
  <2>4. ~Confirms(operation, Head(replies).code)
    BY DEF Confirms
  <2>5. QED
    BY <1>1, <2>1, <2>2, <2>3, <2>4, Zenon DEF ParseResponse
<1> HIDE DEF c
<1> USE DEF server
(* Whatever the operation does, it keeps this. *)
<1>6. ASSUME m_pendingReplies' = 1, UNCHANGED <<commands, broken, m_lastTypeBinary, m_sentRestartOffset>>
      PROVE  /\ InFlight'
             /\ \A i \in 1..Len(replies') :
                   /\ replies'[i].cmd = "REST" /\ replies'[i].code = 5 => ~restSupported'
                   /\ replies'[i].cmd = "RETR" /\ replies'[i].code = 2 => replies'[i].op \in confirmed'
  <2>1. InFlight'
    BY <1>1, <1>2, <1>3, <1>6, NothingSent DEF IInv, InFlight
  <2>2. \A i \in 1..Len(replies') :
                   /\ replies'[i].cmd = "REST" /\ replies'[i].code = 5 => ~restSupported'
                   /\ replies'[i].cmd = "RETR" /\ replies'[i].code = 2 => replies'[i].op \in confirmed'
    BY <1>2, <1>3 DEF IInv, Known, Ends
  <2>3. QED
    BY <2>1, <2>2
<1>7. CASE m_repliesToSkip > 0 /\ SkipReply(FALSE, 1) /\ UNCHANGED completed
  <2>1. m_repliesToSkip = 1
    BY <1>1, <1>7 DEF IInv, Counting
  <2>2. /\ m_pendingReplies' = 1
        /\ UNCHANGED <<m_repliesToSkip, m_idleTimer, operation, m_pTransferSocket, m_lastTypeBinary,
                       m_sentRestartOffset, m_pIPResolver, commands, broken, completed>>
    BY <1>7, <2>1 DEF SkipReply
  <2> USE <1>1, <1>3, <2>1, <2>2 DEF IInv
  <2>3. Ranges' /\ Flags'
    BY DEF Ranges, Flags, ReplyRecords
  <2>4. Counting' /\ Stages' /\ Waiting'
    BY DEF Counting, Stages, Waiting
  <2>5. InFlight' /\ Owned'
    BY <1>6 DEF Owned
  <2>6. Known'
    BY <1>6 DEF Known
  <2>7. Events' /\ Ends'
    BY <1>6 DEF Events, Ends, SuccessIsReal
  <2>8. QED
    BY <2>3, <2>4, <2>5, <2>6, <2>7
<1>8. CASE m_repliesToSkip = 0 /\ operation = NoOp
  BY <1>1, <1>8 DEF IInv, Counting
<1>9. CASE m_repliesToSkip = 0 /\ operation # NoOp /\ operation.kind # "raw"
  <2>1. Awaited = "RETR" /\ operation.kind \in {"logon", "simple"}
    BY <1>1, <1>9, 1 \in 1..Len(replies) DEF IInv, Owned, Stages, Ranges, Ops
  <2>2. QED
    BY <2>1 DEF Awaited
<1>10. CASE /\ m_repliesToSkip = 0 /\ operation # NoOp /\ operation.kind = "raw" /\ RawParseResponse(c, 1)
            /\ UNCHANGED completed
  <2>1. operation.opState \notin {"type", "port_pasv", "rest", "init", "wait"} /\ operation \in Ops
    BY <1>1, <1>10, 1 \in 1..Len(replies) DEF IInv, Owned, Stages, Counting, Awaited, Ranges
  <2>2. \/ Fail(c)
        \/ operation.opState = "transfer" /\ Wait([c EXCEPT !.op.opState = "waitfinish"])
        \/ operation.opState = "waittransferpre" /\ Wait([c EXCEPT !.op.opState = "waittransfer"])
    BY <1>4, <1>10, <2>1 DEF RawParseResponse, GoOn, RawSend, Works, Ops, RawStates
  <2>3. CASE Fail(c)
    <3> USE <1>1, <1>3, <1>4, <1>10, <2>3, NoOpFields DEF IInv, Fail, ResetOperation
    <3>1. Ranges' /\ Flags'
      BY DEF Ranges, Flags, ReplyRecords, KeepaliveTimer
    <3>2. Counting' /\ Stages' /\ Waiting'
      BY DEF Counting, Stages, Waiting, SentStates
    <3>3. InFlight' /\ Owned'
      BY <1>6 DEF Owned
    <3>4. Known'
      BY <1>6 DEF Known
    <3>5. Events' /\ Ends'
      BY <1>6 DEF Events, EndReasons, Ends, MovedStates, SuccessIsReal
    <3>6. QED
      BY <3>1, <3>2, <3>3, <3>4, <3>5
  <2>4. ASSUME NEW state, Wait([c EXCEPT !.op.opState = state]),
               \/ state = "waitfinish" /\ operation.opState = "transfer"
               \/ state = "waittransfer" /\ operation.opState = "waittransferpre"
        PROVE  IInv'
    <3> DEFINE d == [c EXCEPT !.op.opState = state]
    <3>1. /\ d \in Works /\ d.op \in Ops /\ d.op.opState = state
          /\ d.pending = 1 /\ d.type = m_lastTypeBinary /\ d.rest = m_sentRestartOffset /\ d.socket = m_pTransferSocket
          /\ d.op.kind = "raw" /\ d.op.id = operation.id /\ d.op.binary = operation.binary
          /\ d.op.resume = operation.resume /\ d.op.tranferCommandSent = operation.tranferCommandSent
          /\ d.op.transferEndReason = operation.transferEndReason
      <4>1. state \in RawStates /\ c \in Works
        BY <1>4, <2>4 DEF RawStates
      <4>2. /\ d \in Works /\ d.op \in Ops /\ d.op.opState = state
            /\ d.pending = c.pending /\ d.type = c.type /\ d.rest = c.rest /\ d.socket = c.socket
            /\ d.op.kind = c.op.kind /\ d.op.id = c.op.id /\ d.op.binary = c.op.binary
            /\ d.op.resume = c.op.resume /\ d.op.tranferCommandSent = c.op.tranferCommandSent
            /\ d.op.transferEndReason = c.op.transferEndReason
        BY <4>1, NextState
      <4>3. QED
        BY <1>4, <1>10, <4>2
    <3> HIDE DEF d
    <3>2. Wait(d)
      BY <2>4 DEF d
    <3> USE <1>1, <1>3, <1>10, <2>4, <3>1, <3>2, NoOpFields DEF IInv, Wait, Keep
    <3>3. Ranges' /\ Flags'
      BY DEF Ranges, Flags, ReplyRecords
    <3>4. Counting' /\ Stages' /\ Waiting'
      BY DEF Counting, Stages, Waiting, SentStates
    <3>5. InFlight'
      BY <1>6
    <3>6. Owned'
      BY <1>2 DEF Owned, Awaited
    <3>7. Known'
      BY <1>6 DEF Known
    <3>8. Events' /\ Ends'
      BY <1>6 DEF Events, EndReasons, Ends, MovedStates, SuccessIsReal
    <3>9. QED
      BY <3>3, <3>4, <3>5, <3>6, <3>7, <3>8
  <2>5. QED
    BY <2>2, <2>3, <2>4
<1>11. QED
  BY <1>5, <1>7, <1>8, <1>9, <1>10

-----------------------------------------------------------------------------
(* The user, the data connection, the timer and the server. *)

(* The connection is closed: nothing is left on its way. *)
LEMMA CloseKeeps ==
    ASSUME IInv, DoClose,
           UNCHANGED <<serverType, serverRest, restSupported, endEvents, ipEvents, ops, keepalives,
                       confirmed, moved, completed>>
    PROVE  IInv'
<1> USE NoOpFields, NothingSent DEF IInv, DoClose, ResetOperation
<1>a. Ranges'
  BY DEF Ranges, CommandRecords, ReplyRecords
<1>b. Flags'
  BY DEF Flags, KeepaliveTimer
<1>1. Ranges' /\ Flags'
  BY <1>a, <1>b
<1>2. Counting' /\ Stages' /\ Waiting'
  BY DEF Counting, Stages, Waiting, SentStates
<1>3. InFlight' /\ Owned'
  BY DEF InFlight, Owned
<1>4. Known'
  BY DEF Known
<1>5. Events' /\ Ends'
  BY DEF Events, EndReasons, Ends, MovedStates, SuccessIsReal
<1>6. QED
  BY <1>1, <1>2, <1>3, <1>4, <1>5

(* The operation ends while an answer to it may be due: the answer is skipped. *)
LEMMA ResetKeeps ==
    ASSUME IInv, operation # NoOp, NEW disconnected \in BOOLEAN, ResetOperation(m_pendingReplies, disconnected),
           UNCHANGED <<active_layer_, m_lastTypeBinary, m_sentRestartOffset, commands, broken, replies, server,
                       ipEvents, ops, keepalives, moved>>,
           endEvents' \in Nat, completed' \subseteq confirmed \cap moved
    PROVE  IInv'
<1> USE NoOpFields DEF IInv, ResetOperation, server
<1>1. Ranges' /\ Flags'
  BY DEF Ranges, Flags, KeepaliveTimer
<1>2. Counting' /\ Stages' /\ Waiting'
  BY DEF Counting, Stages, Waiting, SentStates
<1>3. InFlight' /\ Owned'
  BY DEF InFlight, Owned, Counting
<1>4. Known'
  BY DEF Known
<1>5. Events' /\ Ends'
  BY DEF Events, EndReasons, Ends, MovedStates, SuccessIsReal
<1>6. QED
  BY <1>1, <1>2, <1>3, <1>4, <1>5

LEMMA CancelKeeps ==
    ASSUME IInv, Cancel
    PROVE  IInv'
<1>1. CASE DoClose
  BY <1>1, CloseKeeps DEF Cancel
<1>2. CASE /\ ResetOperation(m_pendingReplies, FALSE)
           /\ UNCHANGED <<active_layer_, m_lastTypeBinary, m_sentRestartOffset, commands, broken, replies, started>>
  BY <1>2, ResetKeeps DEF Cancel, server, IInv, Ranges, Ends, SuccessIsReal
<1>3. QED
  BY <1>1, <1>2 DEF Cancel

LEMMA TransferEndKeeps ==
    ASSUME IInv, TransferEnd
    PROVE  IInv'
<1> DEFINE reason == m_pTransferSocket
           op == [operation EXCEPT !.transferEndReason =
                     IF @ = "successful" /\ reason \in EndReasons THEN reason ELSE @]
<1>1. /\ endEvents' \in Nat /\ endEvents' = endEvents - 1
      /\ UNCHANGED <<active_layer_, server, ipEvents, replies, ops, keepalives, moved>>
  BY DEF TransferEnd, IInv, Ranges
<1>2. CASE UnusualTransferEnd /\ UNCHANGED <<client, completed>>
  <2>1. m_pTransferSocket \notin EndReasons
    BY <1>2 DEF UnusualTransferEnd, EndReasons, IInv, Stages
  <2> USE <1>1, <1>2, <2>1 DEF IInv, client, server
  <2>2. Ranges' /\ Flags'
    BY DEF Ranges, Flags
  <2>3. Counting' /\ Stages' /\ Waiting'
    BY DEF Counting, Stages, Waiting
  <2>4. InFlight'
    BY DEF InFlight
  <2>5. Owned' /\ Known'
    BY DEF Owned, Known, Awaited
  <2>6. Events' /\ Ends'
    BY DEF Events, Ends, SuccessIsReal
  <2>7. QED
    BY <2>2, <2>3, <2>4, <2>5, <2>6
<1>3. ASSUME ~UnusualTransferEnd
      PROVE  /\ operation.kind = "raw" /\ operation # NoOp /\ reason \in EndReasons
             /\ operation \in Ops /\ operation.opState \notin {"init", "wait"}
  BY <1>3, NoOpFields DEF UnusualTransferEnd, IInv, Stages, Ranges
<1>4. CASE /\ ~UnusualTransferEnd /\ ResetOperation(m_pendingReplies, TRUE)
           /\ UNCHANGED <<m_lastTypeBinary, m_sentRestartOffset, commands, broken, completed>>
  BY <1>1, <1>3, <1>4, ResetKeeps DEF IInv, Ends, SuccessIsReal
<1>5. CASE /\ ~UnusualTransferEnd /\ reason # "failed_tls_resumption" /\ op.opState = "waitsocket"
           /\ IF reason = "failure" THEN Fail(Now) /\ UNCHANGED completed ELSE Succeed(Now)
  <2>1. operation.opState = "waitsocket" /\ operation.id \in confirmed
    BY <1>3, <1>5 DEF Ops, IInv, Ends
  <2>2. /\ Now.op = operation /\ Now.pending = m_pendingReplies
        /\ Now.type = m_lastTypeBinary /\ Now.rest = m_sentRestartOffset
    BY DEF Now
  <2>3. reason # "failure" => operation.id \in moved
    BY <1>3, <1>5 DEF EndReasons, IInv, Events
  <2>4. completed' \subseteq confirmed \cap moved
    BY <1>3, <1>5, <2>1, <2>2, <2>3 DEF Fail, Succeed, IInv, Ends, SuccessIsReal
  <2>5. /\ ResetOperation(m_pendingReplies, FALSE)
        /\ UNCHANGED <<m_lastTypeBinary, m_sentRestartOffset, commands, broken>>
    BY <1>5, <2>2 DEF Fail, Succeed
  <2>6. QED
    BY <1>1, <1>3, <1>5, <2>4, <2>5, ResetKeeps
<1>6. CASE /\ ~UnusualTransferEnd /\ reason # "failed_tls_resumption" /\ op.opState # "waitsocket"
           /\ operation' = IF op.opState \in DOMAIN AfterTransferEnd
                           THEN [op EXCEPT !.opState = AfterTransferEnd[op.opState]] ELSE op
           /\ UNCHANGED <<m_pTransferSocket, m_pendingReplies, m_repliesToSkip, m_lastTypeBinary,
                          m_sentRestartOffset, m_idleTimer, m_pIPResolver, commands, broken, completed>>
  <2>1. /\ operation' \in Ops /\ operation' # NoOp
        /\ operation'.kind = "raw" /\ operation'.id = operation.id /\ operation'.binary = operation.binary
        /\ operation'.resume = operation.resume /\ operation'.tranferCommandSent = operation.tranferCommandSent
        /\ operation'.bPasv = operation.bPasv
        /\ operation'.transferEndReason =
              IF operation.transferEndReason = "successful" THEN reason ELSE operation.transferEndReason
        /\ operation'.opState = IF operation.opState = "transfer" THEN "waittransferpre"
                                ELSE IF operation.opState = "waitfinish" THEN "waittransfer"
                                ELSE operation.opState
    <3>1. /\ op \in Ops /\ op.opState = operation.opState
          /\ op.kind = "raw" /\ op.id = operation.id /\ op.binary = operation.binary /\ op.bPasv = operation.bPasv
          /\ op.resume = operation.resume /\ op.tranferCommandSent = operation.tranferCommandSent
          /\ op.transferEndReason =
                IF operation.transferEndReason = "successful" THEN reason ELSE operation.transferEndReason
      BY <1>3, <1>6 DEF Ops
    <3>2. /\ DOMAIN AfterTransferEnd = {"transfer", "waitfinish"}
          /\ AfterTransferEnd["transfer"] = "waittransferpre" /\ AfterTransferEnd["waitfinish"] = "waittransfer"
      BY DEF AfterTransferEnd
    <3> HIDE DEF op
    <3>3. operation' = IF op.opState = "transfer" THEN [op EXCEPT !.opState = "waittransferpre"]
                       ELSE IF op.opState = "waitfinish" THEN [op EXCEPT !.opState = "waittransfer"] ELSE op
      BY <1>6, <3>2
    <3>4. QED
      BY <3>1, <3>3, NoOpFields DEF Ops, RawStates
  <2>2. reason = "successful" => operation.id \in moved /\ operation.opState \in SentStates
    BY DEF IInv, Events, Stages
  <2> USE <1>1, <1>3, <1>6, <2>1, <2>2 DEF IInv, server
  <2>3. Ranges' /\ Flags'
    BY DEF Ranges, Flags
  <2>4. Counting' /\ Stages' /\ Waiting'
    BY DEF Counting, Stages, Waiting, SentStates
  <2>5. InFlight'
    BY DEF InFlight
  <2>6. Owned'
    BY DEF Owned, Awaited
  <2>7. Known'
    BY DEF Known
  <2>8. Events' /\ Ends'
    BY DEF Events, Ends, SuccessIsReal, SentStates, MovedStates, EndReasons
  <2>9. QED
    BY <2>3, <2>4, <2>5, <2>6, <2>7, <2>8
<1>7. QED
  BY <1>2, <1>4, <1>5, <1>6 DEF TransferEnd

LEMMA NewOpFields ==
    ASSUME NEW kind \in {"logon", "simple", "raw"}, NEW id \in 1..MaxOps, NEW binary \in BOOLEAN,
           NEW resume \in BOOLEAN, NEW mode \in TransferModes
    PROVE  LET op == NewOp(kind, id, binary, resume, mode)
           IN  /\ op \in Ops /\ op # NoOp /\ op.kind = kind /\ op.id = id /\ op.id # 0 /\ op.opState = "init"
               /\ ~op.tranferCommandSent /\ op.transferEndReason = "successful"
  BY NoOpFields, ConstantsAssumption DEF NewOp, Ops, RawStates, EndReasons

LEMMA ConnectKeeps ==
    ASSUME IInv, Connect
    PROVE  IInv'
<1> DEFINE welcome == [cmd |-> "welcome", op |-> ops', code |-> 2]
           op == NewOp("logon", ops', FALSE, FALSE, "passive")
<1>1. ops' \in 1..MaxOps
  BY ConstantsAssumption DEF Connect, IInv, Ranges
<1>2. /\ operation' \in Ops /\ operation' # NoOp /\ operation'.kind = "logon" /\ operation'.id # 0 /\ operation'.id = ops'
      /\ operation'.opState = "wait" /\ ~operation'.tranferCommandSent /\ operation'.transferEndReason = "successful"
  <2>1. /\ op \in Ops /\ op.kind = "logon" /\ op.id = ops' /\ op.id # 0
        /\ ~op.tranferCommandSent /\ op.transferEndReason = "successful"
    BY <1>1, ConstantsAssumption DEF NewOp, Ops, RawStates, EndReasons
  <2> HIDE DEF op
  <2>2. operation' = [op EXCEPT !.opState = "wait"]
    BY DEF Connect, op
  <2>3. QED
    BY <2>1, <2>2, NoOpFields DEF Ops
<1>3. welcome \in ReplyRecords
  BY <1>1, ConstantsAssumption DEF ReplyRecords
<1>4. /\ replies' \in Seq(ReplyRecords) /\ Len(replies') = 1 /\ replies'[1] = welcome /\ replies' # <<>>
  BY <1>3, OneCommand DEF Connect
<1>5. replies'[1].cmd = "welcome" /\ replies'[1].op = ops' /\ replies'[1].code = 2
  BY <1>4
<1>6. \A i \in 1..Len(replies') : i = 1
  BY <1>4
<1>7. /\ m_pTransferSocket = "none" /\ m_pIPResolver = "none" /\ m_repliesToSkip = 0
      /\ commands = <<>> /\ ~broken /\ ~started
  BY NoOpFields DEF Connect, IInv, Stages, Counting, InFlight, Ranges
<1> HIDE DEF welcome, op
<1> USE <1>1, <1>2, <1>4, <1>5, <1>6, <1>7 DEF IInv, Connect
<1>8. Ranges'
  BY ConstantsAssumption DEF Ranges, ReplyRecords
<1>9. Flags'
  BY DEF Flags
<1>10. Counting'
  <2>1. active_layer_' /\ m_pendingReplies' = 1 /\ m_repliesToSkip' = 0 /\ m_pIPResolver' = "none"
    OBVIOUS
  <2> HIDE DEF Connect
  <2>2. QED
    BY <2>1, NoOpFields DEF Counting
<1>11. Stages' /\ Waiting'
  BY DEF Stages, Waiting, SentStates
<1>12. InFlight'
  BY NothingSent DEF InFlight
<1>13. Owned'
  BY DEF Owned, Awaited
<1>14. Known'
  BY DEF Known
<1>15. Events' /\ Ends'
  BY DEF Events, Ends, SuccessIsReal, MovedStates, EndReasons
<1>16. QED
  BY <1>8, <1>9, <1>10, <1>11, <1>12, <1>13, <1>14, <1>15

(* An operation begins at once if no answer is due, and waits otherwise. *)
LEMMA ExecuteKeeps ==
    ASSUME IInv, NEW kind \in {"simple", "raw"}, NEW binary \in BOOLEAN, NEW resume \in BOOLEAN,
           NEW mode \in TransferModes, Execute(kind, binary, resume, mode)
    PROVE  IInv'
<1> DEFINE op == NewOp(kind, ops', binary, resume, mode)
           c == [Now EXCEPT !.op = op]
<1>1. ops' \in 1..MaxOps
  BY ConstantsAssumption DEF Execute, IInv, Ranges
<1>2. /\ op \in Ops /\ op # NoOp /\ op.kind = kind /\ op.id = ops' /\ op.id # 0 /\ op.opState = "init"
      /\ ~op.tranferCommandSent /\ op.transferEndReason = "successful"
  BY <1>1, NewOpFields
<1>3. /\ m_pTransferSocket = "none" /\ m_pIPResolver = "none" /\ m_pendingReplies = m_repliesToSkip
      /\ m_pendingReplies \in {0, 1} /\ operation = NoOp /\ active_layer_
      /\ UNCHANGED <<active_layer_, server, endEvents, ipEvents, replies, keepalives, moved, completed>>
  BY NoOpFields DEF Execute, IInv, Stages, Counting
<1> HIDE DEF op
<1>4. CASE m_repliesToSkip = 0
  <2>1. commands = <<>> /\ replies = <<>> /\ ~broken /\ ~started
    BY <1>3, <1>4 DEF IInv, InFlight
  <2>2. Quiet
    BY <1>1, <1>3, <2>1 DEF Quiet, server, IInv, Ranges
  <2>3. Begin(c)
    BY <1>4 DEF Execute, CanSendNextCommand, op
  <2>4. /\ c \in Works /\ c.op = op /\ c.pending = 0 /\ c.socket = "none"
        /\ c.type = m_lastTypeBinary /\ c.rest = m_sentRestartOffset
    BY <1>2, <1>3, <1>4 DEF Now, Works, IInv, Ranges, Flags
  <2> HIDE DEF c
  <2>5. (c.type # -1 => c.type = Bit(serverType)) /\ (serverRest => c.rest)
    BY <2>4 DEF IInv, Known
  <2>6. QED
    BY <1>2, <1>3, <2>2, <2>3, <2>4, <2>5, QuietBegin
<1>5. CASE m_repliesToSkip = 1
  <2>1. /\ operation' = op
        /\ UNCHANGED <<m_pTransferSocket, m_pendingReplies, m_repliesToSkip, m_lastTypeBinary,
                       m_sentRestartOffset, m_idleTimer, m_pIPResolver, commands, broken>>
    BY <1>5 DEF Execute, CanSendNextCommand, op
  <2> USE <1>1, <1>2, <1>3, <1>5, <2>1 DEF IInv, server
  <2>2. Ranges' /\ Flags'
    BY DEF Ranges, Flags
  <2>3. Counting' /\ Stages' /\ Waiting'
    BY DEF Counting, Stages, Waiting, SentStates
  <2>4. InFlight' /\ Owned'
    BY DEF InFlight, Owned
  <2>5. Known'
    BY DEF Known
  <2>6. Events' /\ Ends'
    BY DEF Events, Ends, SuccessIsReal, MovedStates, EndReasons
  <2>7. QED
    BY <2>2, <2>3, <2>4, <2>5, <2>6
<1>6. QED
  BY <1>3, <1>4, <1>5

LEMMA DataEndsKeeps ==
    ASSUME IInv, NEW reason \in EndReasons, DataEnds(reason)
    PROVE  IInv'
<1>1. operation.kind = "raw" /\ operation.opState # "init" /\ operation.id \in 1..MaxOps
  BY NoOpFields, ConstantsAssumption DEF DataEnds, IInv, Stages, Ranges, Ops
<1>2. reason = "successful" => operation.tranferCommandSent
  BY DEF DataEnds
<1> USE <1>1, <1>2 DEF IInv, DataEnds, server
<1>a. moved' \subseteq 1..MaxOps
  BY DEF Ranges
<1>b. Ranges'
  BY <1>a DEF Ranges
<1>3. Ranges' /\ Flags'
  BY <1>b DEF Flags
<1>4. Counting' /\ Stages' /\ Waiting'
  BY DEF Counting, Stages, Waiting, EndReasons
<1>5. InFlight'
  BY DEF InFlight
<1>6. Owned' /\ Known'
  BY DEF Owned, Known, Awaited
<1>7. Events' /\ Ends'
  BY DEF Events, Ends, SuccessIsReal, Ranges, EndReasons
<1>8. QED
  BY <1>3, <1>4, <1>5, <1>6, <1>7

LEMMA ResolvedKeeps ==
    ASSUME IInv, Resolved
    PROVE  IInv'
<1> USE DEF IInv, Resolved, server
<1>3. Ranges' /\ Flags'
  BY DEF Ranges, Flags
<1>4. Counting' /\ Stages' /\ Waiting'
  BY DEF Counting, Stages, Waiting
<1>5. InFlight'
  BY DEF InFlight
<1>6. Owned' /\ Known'
  BY DEF Owned, Known, Awaited
<1>7. Events' /\ Ends'
  BY DEF Events, Ends, SuccessIsReal, Ranges
<1>8. QED
  BY <1>3, <1>4, <1>5, <1>6, <1>7

LEMMA OnExternalIPAddressKeeps ==
    ASSUME IInv, OnExternalIPAddress
    PROVE  IInv'
<1>1. /\ ipEvents' \in Nat
      /\ UNCHANGED <<active_layer_, server, endEvents, replies, ops, keepalives, moved, completed>>
  BY DEF OnExternalIPAddress, IInv, Ranges
<1>2. CASE m_pIPResolver = "none"
  <2> USE <1>1, <1>2 DEF IInv, OnExternalIPAddress, client, server
  <2>1. Ranges' /\ Flags'
    BY DEF Ranges, Flags
  <2>2. Counting' /\ Stages' /\ Waiting'
    BY DEF Counting, Stages, Waiting
  <2>3. InFlight'
    BY DEF InFlight
  <2>4. Owned' /\ Known'
    BY DEF Owned, Known, Awaited
  <2>5. Events' /\ Ends'
    BY DEF Events, Ends, SuccessIsReal
  <2>6. QED
    BY <2>1, <2>2, <2>3, <2>4, <2>5
<1>3. CASE m_pIPResolver # "none"
  <2>1. /\ operation.kind = "raw" /\ operation.opState = "port_pasv" /\ operation # NoOp /\ operation.id # 0
        /\ ~operation.tranferCommandSent /\ m_pTransferSocket # "none"
    BY <1>3, NoOpFields DEF IInv, Stages, SentStates
  <2>2. m_pendingReplies = 0 /\ active_layer_
    BY <1>3, <2>1 DEF IInv, Counting
  <2>3. commands = <<>> /\ replies = <<>> /\ ~broken /\ ~started
    BY <2>2 DEF IInv, InFlight
  <2>4. Quiet
    BY <1>1, <2>2, <2>3 DEF Quiet, IInv, Ranges
  <2>5. /\ Now \in Works /\ Now.op = operation /\ Now.pending = 0 /\ Now.socket = m_pTransferSocket
        /\ Now.type = m_lastTypeBinary /\ Now.rest = m_sentRestartOffset
    BY <2>2 DEF Now, Works, IInv, Ranges, Flags
  <2>6. Sound(Now)
    BY <2>1, <2>5 DEF Sound, IInv, Ranges, Known, Events, MovedStates
  <2>7. QED
    BY <1>1, <1>3, <2>4, <2>6, QuietRawSend DEF OnExternalIPAddress
<1>4. QED
  BY <1>2, <1>3

(* A keep-alive command is sent, its answer is skipped, and a TYPE among them says
   what the server knows already. *)
LEMMA OnTimerKeeps ==
    ASSUME IInv, OnTimer
    PROVE  IInv'
<1>1. /\ m_idleTimer' = FALSE
      /\ UNCHANGED <<active_layer_, operation, m_pTransferSocket, m_lastTypeBinary, m_sentRestartOffset, m_pIPResolver,
                     server, endEvents, ipEvents, replies, ops, moved, completed>>
  BY DEF OnTimer
<1>2. CASE UNCHANGED <<keepalives, m_pendingReplies, m_repliesToSkip, commands, broken>>
  <2> USE <1>1, <1>2 DEF IInv, server
  <2>a. Ranges'
    BY DEF Ranges
  <2>1. Ranges' /\ Flags'
    BY <2>a DEF Flags
  <2>2. Counting' /\ Stages' /\ Waiting'
    BY DEF Counting, Stages, Waiting
  <2>3. InFlight'
    BY DEF InFlight
  <2>4. Owned' /\ Known'
    BY DEF Owned, Known, Awaited
  <2>5. Events' /\ Ends'
    BY DEF Events, Ends, SuccessIsReal
  <2>6. QED
    BY <2>1, <2>2, <2>3, <2>4, <2>5
<1>3. ASSUME operation = NoOp, m_pendingReplies = 0, keepalives' = keepalives + 1,
             m_pendingReplies' = 1, m_repliesToSkip' = 1, NEW cmd \in {"CMD", "TYPE"},
             Written([cmd |-> cmd, op |-> 0, binary |-> m_lastTypeBinary # 0, resume |-> FALSE])
      PROVE  IInv'
  <2> DEFINE command == [cmd |-> cmd, op |-> 0, binary |-> m_lastTypeBinary # 0, resume |-> FALSE]
  <2>1. active_layer_ /\ commands = <<>> /\ replies = <<>> /\ ~started /\ ~broken
    BY <1>3 DEF OnTimer, IInv, Counting, InFlight
  <2>2. command \in CommandRecords
    BY ConstantsAssumption DEF CommandRecords, Commands
  <2>3. /\ commands' = <<command>> \/ commands' = <<>>
        /\ broken' <=> commands' = <<>>
        /\ broken' \in BOOLEAN
    <3>1. <<command>> # <<>> /\ Append(<<>>, command) = <<command>>
      BY <2>2, OneCommand
    <3>2. CASE commands' = Append(commands, command) /\ UNCHANGED broken
      BY <2>1, <3>1, <3>2 DEF IInv, Flags
    <3>3. CASE broken' = TRUE /\ UNCHANGED commands
      BY <2>1, <3>3
    <3>4. QED
      BY <1>3, <3>2, <3>3 DEF Written
  <2>4. commands' # <<>> => /\ commands'[1].cmd = cmd /\ commands'[1].op = 0
                            /\ commands'[1].binary = (m_lastTypeBinary # 0) /\ commands'[1].resume = FALSE
    BY <2>2, <2>3, OneCommand
  <2>5. commands' \in Seq(CommandRecords) /\ Len(commands') <= 1
    <3>1. CASE commands' = <<>>
      BY <3>1, NothingSent
    <3>2. CASE commands' = <<command>>
      BY <3>2, <2>2, OneCommand
    <3>3. QED
      BY <2>3, <3>1, <3>2
  <2>6. keepalives' \in 0..MaxKeepalives
    BY <1>3, ConstantsAssumption DEF OnTimer, IInv, Ranges
  <2> HIDE DEF command
  <2> USE <1>1, <1>3, <2>1, NoOpFields, NothingSent DEF IInv, server
  <2>a. Ranges'
    BY <2>5, <2>6 DEF Ranges, CommandRecords
  <2>7. Ranges' /\ Flags'
    BY <2>a, <2>3 DEF Flags
  <2>8. Counting' /\ Stages' /\ Waiting'
    BY DEF Counting, Stages, Waiting
  <2>9. InFlight' /\ Owned'
    BY <2>3, <2>4, <2>5 DEF InFlight, Owned
  <2>10. commands' # <<>> /\ m_lastTypeBinary # -1 => m_lastTypeBinary = Bit(commands'[1].binary)
    BY <2>4 DEF Bit, Ranges
  <2>11. Known'
    BY <2>4, <2>10 DEF Known
  <2>12. Events' /\ Ends'
    BY <2>4 DEF Events, Stages, Ends, SuccessIsReal, EndReasons, MovedStates
  <2>13. QED
    BY <2>7, <2>8, <2>9, <2>11, <2>12
<1>4. QED
  BY <1>2, <1>3 DEF OnTimer

(* What the server reads and answers is the one command on its way. *)
LEMMA ServerReads ==
    ASSUME IInv, commands # <<>>
    PROVE  /\ Len(commands) = 1 /\ Head(commands) = commands[1] /\ commands[1] \in CommandRecords
           /\ Tail(commands) = <<>>
           /\ replies \in Seq(ReplyRecords) /\ m_pendingReplies = 1 /\ active_layer_ /\ ~broken
           /\ replies = <<>> \/ (started /\ Len(replies) = 1 /\ replies[1].code = 1 /\ replies[1].cmd = "RETR")
<1>1. commands \in Seq(CommandRecords) /\ replies \in Seq(ReplyRecords)
  BY DEF IInv, Ranges, CommandRecords, ReplyRecords
<1>2. /\ Head(commands) = commands[1] /\ commands[1] \in CommandRecords
      /\ Len(commands) \in Nat /\ Len(commands) >= 1
      /\ Tail(commands) \in Seq(CommandRecords) /\ Len(Tail(commands)) = Len(commands) - 1
  BY <1>1, HeadTailProperties
<1>3. Len(commands) = 1
  BY <1>2 DEF IInv, InFlight
<1>4. Tail(commands) = <<>>
  <2>1. Tail(commands) \in Seq(CommandRecords) /\ Len(Tail(commands)) = 0
    BY <1>2, <1>3
  <2>2. QED
    BY <2>1, EmptySeq
<1>5. m_pendingReplies = 1 /\ active_layer_ /\ ~broken
  BY DEF IInv, InFlight
<1>6. replies = <<>> \/ (started /\ Len(replies) = 1 /\ replies[1].code = 1)
  BY DEF IInv, InFlight
<1>7. replies # <<>> => replies[1].cmd = "RETR"
  BY <1>6 DEF IInv, InFlight
<1>8. QED
  BY <1>1, <1>2, <1>3, <1>4, <1>5, <1>6, <1>7

LEMMA ServerStartsKeeps ==
    ASSUME IInv, ServerStarts
    PROVE  IInv'
<1> DEFINE reply == [cmd |-> "RETR", op |-> Head(commands).op, code |-> 1]
<1>1. /\ Len(commands) = 1 /\ Head(commands) = commands[1] /\ commands[1] \in CommandRecords
      /\ m_pendingReplies = 1 /\ active_layer_ /\ ~broken /\ replies = <<>> /\ commands # <<>>
      /\ commands[1].cmd = "RETR"
  BY ServerReads DEF ServerStarts
<1>2. reply \in ReplyRecords
  BY <1>1 DEF ReplyRecords, CommandRecords, Commands
<1>3. /\ replies' \in Seq(ReplyRecords) /\ Len(replies') = 1 /\ replies'[1] = reply /\ replies' # <<>>
  BY <1>1, <1>2, OneCommand DEF ServerStarts
<1>4. replies'[1].cmd = "RETR" /\ replies'[1].op = commands[1].op /\ replies'[1].code = 1
  BY <1>1, <1>3
<1>5. \A i \in 1..Len(replies') : i = 1
  BY <1>3
<1> HIDE DEF reply
<1> USE <1>1, <1>3, <1>4, <1>5 DEF IInv, ServerStarts, client
<1>6. Ranges' /\ Flags'
  BY DEF Ranges, Flags, ReplyRecords
<1>7. Counting' /\ Stages' /\ Waiting'
  BY DEF Counting, Stages, Waiting
<1>8. InFlight'
  BY DEF InFlight
<1>9. Owned'
  BY DEF Owned, Awaited
<1>10. Known'
  BY DEF Known
<1>11. Events' /\ Ends'
  BY DEF Events, Ends, SuccessIsReal
<1>12. QED
  BY <1>6, <1>7, <1>8, <1>9, <1>10, <1>11

LEMMA ServerAnswersKeeps ==
    ASSUME IInv, NEW code \in {2, 5}, ServerAnswers(code)
    PROVE  IInv'
<1> DEFINE command == commands[1]
           reply == [cmd |-> command.cmd, op |-> command.op, code |-> code]
           n == Len(replies)
<1>1. /\ Head(commands) = command /\ command \in CommandRecords /\ commands' = <<>>
      /\ m_pendingReplies = 1 /\ active_layer_ /\ ~broken /\ commands # <<>>
      /\ replies \in Seq(ReplyRecords)
      /\ replies = <<>> \/ (started /\ n = 1 /\ replies[1].code = 1 /\ replies[1].cmd = "RETR")
  BY ServerReads DEF ServerAnswers
<1>2. reply \in ReplyRecords
  BY <1>1 DEF ReplyRecords, CommandRecords, Commands
<1>3. replies' = Append(replies, reply)
  BY <1>1 DEF ServerAnswers
<1>4. /\ replies' \in Seq(ReplyRecords) /\ Len(replies') = n + 1 /\ replies'[n + 1] = reply
      /\ \A i \in 1..n : replies'[i] = replies[i]
  BY <1>1, <1>2, <1>3, AppendProperties
<1>5. n \in {0, 1} /\ replies' # <<>>
  BY <1>1, <1>4, NothingSent
<1>6. replies'[n + 1].cmd = command.cmd /\ replies'[n + 1].op = command.op /\ replies'[n + 1].code = code
  BY <1>4
<1>7. /\ \A i \in 1..Len(replies') : i = n + 1 \/ (i = 1 /\ n = 1 /\ 1 \in 1..n /\ replies'[1] = replies[1])
      /\ n = 1 => replies'[1].code = 1 /\ replies'[1].cmd = "RETR"
  BY <1>1, <1>4, <1>5, NothingSent
<1>8. /\ command.cmd = "REST" => (code = 2 <=> restSupported)
      /\ serverType' = IF command.cmd = "TYPE" /\ code = 2 THEN command.binary ELSE serverType
      /\ serverRest' = IF command.cmd = "REST" /\ code = 2 THEN command.resume ELSE serverRest
      /\ confirmed' = confirmed \cup (IF command.cmd = "RETR" /\ code = 2 THEN {command.op} ELSE {})
      /\ started' = FALSE
      /\ UNCHANGED <<active_layer_, operation, m_pTransferSocket, m_pendingReplies, m_repliesToSkip, m_lastTypeBinary,
                     m_sentRestartOffset, m_idleTimer, m_pIPResolver, broken, restSupported, endEvents, ipEvents, ops,
                     keepalives, moved, completed>>
  BY <1>1 DEF ServerAnswers
<1>9. command.cmd = "RETR" => command.op \in 1..MaxOps
  BY <1>1, ConstantsAssumption DEF IInv, Ends, CommandRecords
<1> HIDE DEF reply, command, n
<1> USE <1>8 DEF IInv
<1>10. Ranges'
  <2>1. confirmed' \subseteq 1..MaxOps
    BY <1>9 DEF Ranges
  <2>2. QED
    BY <1>1, <1>4, <2>1, NothingSent DEF Ranges, ReplyRecords, CommandRecords
<1>11. Flags'
  BY <1>1 DEF Flags, CommandRecords
<1>12. Counting' /\ Stages' /\ Waiting'
  BY DEF Counting, Stages, Waiting
<1>13. InFlight'
  BY <1>1, <1>4, <1>5, <1>6, <1>7, NothingSent DEF InFlight
<1>14. Owned'
  <2> SUFFICES ASSUME m_repliesToSkip = 0, operation # NoOp, NEW i \in 1..Len(replies')
               PROVE  /\ replies'[i].op = operation.id /\ replies'[i].cmd = Awaited
                      /\ replies'[i].cmd = "TYPE" /\ replies'[i].code = 2 => serverType' = operation.binary
                      /\ replies'[i].cmd = "REST" /\ replies'[i].code = 2 => serverRest' = operation.resume
    BY <1>1 DEF Owned, Awaited
  <2>1. /\ command.op = operation.id /\ command.cmd = Awaited
        /\ command.binary = operation.binary /\ command.resume = operation.resume
    BY <1>1 DEF Owned, command
  <2>2. CASE i = n + 1
    BY <1>6, <2>1, <2>2
  <2>3. CASE i = 1 /\ n = 1 /\ 1 \in 1..n /\ replies'[1] = replies[1]
    BY <1>7, <2>3 DEF Owned, n
  <2>4. QED
    BY <1>7, <2>2, <2>3
<1>15. Known'
  BY <1>1, <1>4, <1>5, <1>6, <1>7 DEF Known, command
<1>16. Events' /\ Ends'
  BY <1>1, <1>4, <1>5, <1>6, <1>7 DEF Events, Ends, SuccessIsReal
<1>17. QED
  BY <1>10, <1>11, <1>12, <1>13, <1>14, <1>15, <1>16

-----------------------------------------------------------------------------
LEMMA InitIInv ==
    ASSUME Init
    PROVE  IInv
<1> USE NoOpFields, NothingSent, ConstantsAssumption DEF Init
<1>1. Ranges
  BY DEF Ranges, CommandRecords, ReplyRecords
<1>2. Flags
  BY DEF Flags
<1>3. Counting /\ Stages /\ Waiting
  BY DEF Counting, Stages, Waiting, SentStates
<1>4. InFlight /\ Owned
  BY DEF InFlight, Owned
<1>5. Known
  BY DEF Known
<1>6. Events /\ Ends
  BY DEF Events, EndReasons, Ends, SuccessIsReal, MovedStates
<1>7. QED
  BY <1>1, <1>2, <1>3, <1>4, <1>5, <1>6 DEF IInv

LEMMA NextIInv ==
    ASSUME IInv, [Next]_vars
    PROVE  IInv'
<1>1. CASE User
  <2>1. ASSUME NEW binary \in BOOLEAN, NEW resume \in BOOLEAN, NEW mode \in Modes, Execute("raw", binary, resume, mode)
        PROVE  IInv'
    BY <2>1, ExecuteKeeps, ConstantsAssumption
  <2>2. CASE Execute("simple", FALSE, FALSE, "passive")
    BY <2>2, ExecuteKeeps DEF TransferModes
  <2>3. QED
    BY <1>1, <2>1, <2>2, ConnectKeeps, CancelKeeps DEF User
<1>2. CASE Loop
  BY <1>2, FinalReply, PreliminaryReply, TransferEndKeeps, OnExternalIPAddressKeeps DEF Loop
<1>3. CASE Data
  BY <1>3, DataEndsKeeps, ResolvedKeeps DEF Data
<1>4. CASE OnTimer
  BY <1>4, OnTimerKeeps
<1>5. CASE Timeout \/ OnSocketError
  BY <1>5, CloseKeeps DEF Timeout, OnSocketError
<1>6. CASE Server
  BY <1>6, ServerStartsKeeps, ServerAnswersKeeps DEF Server
<1>7. CASE UNCHANGED vars
  <2> USE <1>7 DEF IInv, vars, client, server
  <2>1. Ranges' /\ Flags'
    BY DEF Ranges, Flags
  <2>2. Counting' /\ Stages' /\ Waiting' /\ InFlight'
    BY DEF Counting, Stages, Waiting, InFlight
  <2>3. Owned' /\ Known'
    BY DEF Owned, Known, Awaited
  <2>4. Events' /\ Ends'
    BY DEF Events, Ends, SuccessIsReal
  <2>5. QED
    BY <2>1, <2>2, <2>3, <2>4
<1>8. QED
  BY <1>1, <1>2, <1>3, <1>4, <1>5, <1>6, <1>7 DEF Next

(* The inductive invariant: at most one command is unanswered, whose it is, and what
   is known of the server. *)
THEOREM Invariant == Spec => []IInv
<1>1. Init => IInv
  BY InitIInv
<1>2. IInv /\ [Next]_vars => IInv'
  BY NextIInv
<1>3. QED
  BY <1>1, <1>2, PTL DEF Spec

(* The fields of the control socket keep their types, and m_repliesToSkip never
   exceeds m_pendingReplies. *)
THEOREM TypeCorrect == Spec => []TypeOK
<1>1. IInv => TypeOK
  BY DEF IInv, TypeOK
<1>2. QED
  BY <1>1, Invariant, PTL

(* ParseResponse gives an operation the answers to its own last command only,
   whatever was cancelled, timed or sent to keep the connection alive before. *)
THEOREM RepliesDoReachTheirCommand == Spec => []RepliesReachTheirCommand
<1>1. ASSUME IInv
      PROVE  RepliesReachTheirCommand
  <2> SUFFICES ASSUME replies # <<>>, m_repliesToSkip = 0, operation # NoOp
               PROVE  Head(replies).op = operation.id /\ Head(replies).cmd = Awaited
    BY DEF RepliesReachTheirCommand
  <2>1. replies \in Seq(ReplyRecords)
    BY <1>1 DEF IInv, Ranges, ReplyRecords
  <2>2. Head(replies) = replies[1] /\ 1 \in 1..Len(replies)
    BY <2>1, HeadTailProperties
  <2>3. QED
    BY <1>1, <2>2 DEF IInv, Owned
<1>2. QED
  BY <1>1, Invariant, PTL

(* A transfer ends in success only after the server's confirmation of that very
   transfer and the good end of its own data connection. *)
THEOREM SuccessDoesNotLie == Spec => []SuccessIsReal
<1>1. IInv => SuccessIsReal
  BY DEF IInv, Ends
<1>2. QED
  BY <1>1, Invariant, PTL

(* When the server reads a RETR, STOR or LIST its data type and restart offset are
   those the transfer was asked for. *)
THEOREM TransfersAreAsAsked == Spec => []TransferredAsAsked
<1>1. ASSUME IInv
      PROVE  TransferredAsAsked
  <2>1. commands # <<>> => Head(commands) = commands[1]
    BY <1>1, ServerReads
  <2>2. QED
    BY <1>1, <2>1 DEF IInv, Known, TransferredAsAsked
<1>2. QED
  BY <1>1, Invariant, PTL

(* Unless a write failed or the data connection failed early, what an operation waits
   for is on its way, at work or queued. *)
THEOREM WaitsDoHaveAReason == Spec => []WaitsHaveAReason
<1>1. ASSUME IInv
      PROVE  WaitsHaveAReason
  <2> SUFFICES ASSUME ~broken, ~FailedEarly, active_layer_, operation # NoOp
               PROVE  SomethingHappens
    BY DEF WaitsHaveAReason, WaitsForSomething
  <2>1. CASE m_pendingReplies = 1
    BY <1>1, <2>1 DEF IInv, InFlight, SomethingHappens
  <2>2. CASE m_pIPResolver # "none"
    BY <1>1, <2>2 DEF IInv, Events, Ranges, SomethingHappens
  <2>3. CASE m_pendingReplies = 0 /\ m_pIPResolver = "none"
    <3>1. operation.opState = "waitsocket"
      BY <1>1, <2>3 DEF IInv, Counting
    <3>2. operation.kind = "raw" /\ operation.tranferCommandSent /\ m_pTransferSocket # "none"
      BY <1>1, <3>1 DEF IInv, Stages, SentStates, Ranges, Ops
    <3>3. operation.transferEndReason = "successful"
      BY <3>1 DEF FailedEarly
    <3>4. QED
      BY <1>1, <3>1, <3>2, <3>3 DEF IInv, Events, Ranges, MovedStates, SomethingHappens
  <2>4. QED
    BY <1>1, <2>1, <2>2, <2>3 DEF IInv, Counting
<1>2. QED
  BY <1>1, Invariant, PTL
=============================================================================
