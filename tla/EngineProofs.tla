---------------------------- MODULE EngineProofs ----------------------------
(***************************************************************************)
(* Proofs about CFileZillaEnginePrivate.  The first part, on the current   *)
(* command, the retry timer and the replies, needs no knowledge of the     *)
(* control socket or of the event queue: whatever order events, timers and *)
(* losses of the connection come in, and whatever stale event is           *)
(* dispatched, a command gets exactly one reply.  The attempts of a        *)
(* connect and the answers of the user depend on the stack of the control  *)
(* socket, and the answers on the event queue too.                         *)
(***************************************************************************)
EXTENDS Engine, TLAPS

CommandsOf == [type : CommandTypes, id : Nat \ {0}]

(* What the proofs need of the types. *)
EngineTypeOK ==
    /\ currentCommand_ \in {NoCommand} \cup CommandsOf
    /\ replies \in Seq([id : Nat, code : Codes])
    /\ commands \in Nat

(* The inductive invariant.  The two parts need each other: a command that is
   accepted while the timer of an earlier one runs would be answered by the end of
   that one, and the timer stops only because a connect stays current. *)
IInv == EngineTypeOK /\ OneReplyPerCommand /\ RetryTimerHasConnect

(* The codes that the engine itself makes up. *)
LEMMA EngineCodes ==
    {"ok", "disconnected", "cancelled", "notconnected", "alreadyconnected", "syntaxerror"} \subseteq Codes
  BY DEF Codes, SubCodes, ConnectFailures

(* Appending the reply that is due. *)
LEMMA AnsweredIInv ==
    ASSUME IInv, IsBusy, NEW code \in Codes, Reply(code), currentCommand_' = NoCommand,
           ~m_retryTimer', UNCHANGED commands
    PROVE  IInv'
<1> DEFINE r == [id |-> currentCommand_.id, code |-> code]
<1>1. currentCommand_ \in CommandsOf /\ currentCommand_.id = commands /\ commands = Len(replies) + 1
  BY DEF IInv, EngineTypeOK, OneReplyPerCommand, IsBusy
<1>2. r \in [id : Nat, code : Codes] /\ r.id = Len(replies) + 1
  BY <1>1 DEF CommandsOf
<1>3. replies' = Append(replies, r) /\ replies \in Seq([id : Nat, code : Codes])
  BY DEF Reply, IInv, EngineTypeOK
<1>4. replies' \in Seq([id : Nat, code : Codes]) /\ Len(replies') = Len(replies) + 1
  BY <1>2, <1>3
<1>5. \A i \in DOMAIN replies' : replies'[i].id = i
  <2> SUFFICES ASSUME NEW i \in DOMAIN replies'
               PROVE  replies'[i].id = i
    OBVIOUS
  <2>1. CASE i = Len(replies) + 1
    BY <1>2, <1>3, <2>1
  <2>2. CASE i # Len(replies) + 1
    <3>1. i \in DOMAIN replies /\ replies'[i] = replies[i]
      BY <1>3, <1>4, <2>2
    <3>2. QED
      BY <3>1 DEF IInv, OneReplyPerCommand
  <2>3. QED
    BY <2>1, <2>2
<1>6. EngineTypeOK'
  BY <1>4 DEF EngineTypeOK, IInv
<1>7. OneReplyPerCommand'
  BY <1>1, <1>4, <1>5 DEF OneReplyPerCommand, IsBusy
<1>8. QED
  BY <1>6, <1>7 DEF IInv, RetryTimerHasConnect

(* A connect that goes on, with or without the timer, changes nothing that the
   invariant speaks of. *)
LEMMA StillConnectingIInv ==
    ASSUME IInv, currentCommand_.type = "connect", UNCHANGED <<currentCommand_, replies, commands>>
    PROVE  IInv'
  BY DEF IInv, EngineTypeOK, OneReplyPerCommand, RetryTimerHasConnect, IsBusy, NoCommand

(* Nothing of the engine changes. *)
LEMMA EngineUnchangedIInv ==
    ASSUME IInv, UNCHANGED <<engine, commands>>
    PROVE  IInv'
  BY DEF IInv, engine, EngineTypeOK, OneReplyPerCommand, RetryTimerHasConnect, IsBusy, NoCommand

LEMMA InitIInv == Init => IInv
  BY DEF Init, IInv, EngineTypeOK, OneReplyPerCommand, RetryTimerHasConnect, IsBusy

LEMMA ResetOperationIInv ==
    ASSUME IInv, NEW code \in Codes, ResetOperation(code), UNCHANGED commands
    PROVE  IInv'
<1>1. CASE UNCHANGED engine
  BY <1>1, EngineUnchangedIInv
<1>2. CASE currentCommand_.type = "connect" /\ UNCHANGED <<currentCommand_, replies>>
  BY <1>2, StillConnectingIInv
<1>3. CASE /\ IsBusy /\ (currentCommand_.type = "connect" => ~m_retryTimer /\ ~Retries(code))
           /\ Reply(code) /\ currentCommand_' = NoCommand /\ UNCHANGED m_retryTimer
  <2>1. ~m_retryTimer
    BY <1>3 DEF IInv, RetryTimerHasConnect
  <2>2. QED
    BY <1>3, <2>1, AnsweredIInv
<1>4. QED
  BY <1>1, <1>2, <1>3 DEF ResetOperation

LEMMA SocketResetOperationIInv ==
    ASSUME IInv, NEW code \in Codes, SocketResetOperation(code), UNCHANGED commands
    PROVE  IInv'
  BY ResetOperationIInv, EngineUnchangedIInv DEF SocketResetOperation

LEMMA ContinueConnectIInv ==
    ASSUME IInv, NEW timer, NEW count, ContinueConnect(timer, count),
           currentCommand_.type = "connect", UNCHANGED commands
    PROVE  IInv'
<1>1. CASE UNCHANGED <<currentCommand_, replies>>
  BY <1>1, StillConnectingIInv
<1>2. CASE ~timer /\ m_retryTimer' = timer /\ Reply("syntaxerror") /\ currentCommand_' = NoCommand
  <2>1. IsBusy /\ ~m_retryTimer'
    BY <1>2 DEF IsBusy, NoCommand
  <2>2. QED
    BY EngineCodes, <1>2, <2>1, AnsweredIInv
<1>3. QED
  BY <1>1, <1>2 DEF ContinueConnect

(* Only Execute makes a command current, and only while none is: by
   RetryTimerHasConnect no timer runs then. *)
LEMMA ExecuteIInv ==
    ASSUME IInv, NEW type \in CommandTypes, Execute(type)
    PROVE  IInv'
<1>1. currentCommand_ = NoCommand /\ ~m_retryTimer /\ commands = Len(replies) /\ commands \in Nat
  BY DEF Execute, IInv, IsBusy, RetryTimerHasConnect, NoCommand, OneReplyPerCommand, EngineTypeOK
<1>2. /\ commands' = commands + 1 /\ UNCHANGED <<replies, m_retryTimer>>
      /\ currentCommand_' = [type |-> type, id |-> commands']
  BY DEF Execute
<1>3. currentCommand_' \in CommandsOf /\ currentCommand_'.id = commands' /\ currentCommand_' # NoCommand
  BY <1>1, <1>2 DEF CommandsOf, NoCommand
<1>4. QED
  BY <1>1, <1>2, <1>3 DEF IInv, EngineTypeOK, OneReplyPerCommand, RetryTimerHasConnect, IsBusy

LEMMA OnCommandEventIInv ==
    ASSUME IInv, OnCommandEvent
    PROVE  IInv'
<1>0. UNCHANGED commands
  BY DEF OnCommandEvent
<1>1. CASE UNCHANGED engine
  BY <1>0, <1>1, EngineUnchangedIInv
<1>2. CASE Connect
  BY EngineCodes, <1>0, <1>2, ResetOperationIInv, ContinueConnectIInv DEF Connect
<1>3. CASE Disconnect
  BY EngineCodes, <1>0, <1>3, ResetOperationIInv DEF Disconnect
<1>4. CASE Perform
  BY EngineCodes, <1>0, <1>4, ResetOperationIInv, EngineUnchangedIInv DEF Perform
<1>5. QED
  BY <1>1, <1>2, <1>3, <1>4 DEF OnCommandEvent

LEMMA SocketCancelIInv ==
    ASSUME IInv, SocketCancel, UNCHANGED commands
    PROVE  IInv'
  BY EngineCodes, SocketResetOperationIInv, EngineUnchangedIInv DEF SocketCancel, DoClose

LEMMA DoCancelIInv ==
    ASSUME IInv, DoCancel
    PROVE  IInv'
<1>0. UNCHANGED commands
  BY DEF DoCancel, counters
<1>1. CASE UNCHANGED engine
  BY <1>0, <1>1, EngineUnchangedIInv
<1>2. CASE CancelRetry
  <2>1. IsBusy /\ Reply("cancelled") /\ currentCommand_' = NoCommand /\ ~m_retryTimer'
    BY <1>2 DEF CancelRetry
  <2>2. QED
    BY EngineCodes, <1>0, <2>1, AnsweredIInv
<1>3. CASE SocketCancel
  BY <1>0, <1>3, SocketCancelIInv
<1>4. CASE ResetOperation("cancelled")
  BY EngineCodes, <1>0, <1>4, ResetOperationIInv
<1>5. QED
  BY <1>1, <1>2, <1>3, <1>4 DEF DoCancel

LEMMA OnTimerIInv ==
    ASSUME IInv, OnTimer
    PROVE  IInv'
<1>1. currentCommand_.type = "connect" /\ UNCHANGED commands
  BY DEF OnTimer, IInv, RetryTimerHasConnect
<1>2. ContinueConnect(FALSE, m_retryCount)
  BY <1>1 DEF OnTimer
<1>3. QED
  BY <1>1, <1>2, ContinueConnectIInv

LEMMA OperationEndsIInv ==
    ASSUME IInv, NEW code \in Codes, OperationEnds(code)
    PROVE  IInv'
<1>1. UNCHANGED commands
  BY DEF OperationEnds, counters
<1>2. SocketResetOperation(code)
  BY DEF OperationEnds, DoClose
<1>3. QED
  BY <1>1, <1>2, SocketResetOperationIInv

LEMMA NextIInv == IInv /\ [Next]_vars => IInv'
<1> SUFFICES ASSUME IInv, [Next]_vars
             PROVE  IInv'
  OBVIOUS
<1>1. CASE User
  <2>1. ASSUME NEW type \in CommandTypes, Execute(type)
        PROVE  IInv'
    BY <2>1, ExecuteIInv
  <2>2. CASE Cancel
    BY <2>2, EngineUnchangedIInv DEF Cancel
  <2>3. QED
    BY <1>1, <2>1, <2>2 DEF User
<1>2. CASE Answer
  BY <1>2, EngineUnchangedIInv DEF Answer, SetAsyncRequestReply, counters
<1>3. CASE Loop
  <2>1. CASE OnSetAsyncRequestReplyEvent
    BY <2>1, EngineUnchangedIInv DEF OnSetAsyncRequestReplyEvent, counters
  <2>2. QED
    BY <1>3, <2>1, OnCommandEventIInv, DoCancelIInv DEF Loop
<1>4. CASE OnTimer
  BY <1>4, OnTimerIInv
<1>5. CASE Connection
  <2>1. ASSUME NEW code \in Codes, OperationEnds(code)
        PROVE  IInv'
    BY <2>1, OperationEndsIInv
  <2>2. CASE PushSub \/ SendAsyncRequest
    BY <2>2, EngineUnchangedIInv DEF PushSub, SendAsyncRequest, counters
  <2>3. QED
    BY <1>5, <2>1, <2>2 DEF Connection
<1>6. CASE ConnectionLost
  BY EngineCodes, <1>6, SocketResetOperationIInv DEF ConnectionLost, DoClose, counters
<1>7. CASE UNCHANGED vars
  BY <1>7, EngineUnchangedIInv DEF vars, counters
<1>8. QED
  BY <1>1, <1>2, <1>3, <1>4, <1>5, <1>6, <1>7 DEF Next

(* The inductive invariant holds for every number of commands, cancels,
   requests and attempts. *)
THEOREM InvariantHolds == Spec => []IInv
  BY InitIInv, NextIInv, PTL DEF Spec

(* Every command that Execute accepts is answered by exactly one
   COperationNotification, in order, whatever CFileZillaEnginePrivate's
   ResetOperation, DoCancel, OnTimer and ContinueConnect are called for and
   when. *)
THEOREM RepliesAreExact == Spec => []OneReplyPerCommand
<1>1. IInv => OneReplyPerCommand
  BY DEF IInv
<1>2. QED
  BY <1>1, InvariantHolds, PTL

(* m_retryTimer never runs without the connect that it is to repeat: OnTimer
   never finds another command, or none. *)
THEOREM TimerIsForConnect == Spec => []RetryTimerHasConnect
<1>1. IInv => RetryTimerHasConnect
  BY DEF IInv
<1>2. QED
  BY <1>1, InvariantHolds, PTL

-----------------------------------------------------------------------------
(* The refinement.  Every step gives a command, answers the current one, or
   leaves both alone. *)

Given == ~IsBusy /\ currentCommand_'.id = commands + 1 /\ UNCHANGED replies
Answered == IsBusy /\ currentCommand_' = NoCommand /\ \E code \in Codes : Reply(code)
Kept == UNCHANGED <<currentCommand_, replies>>

LEMMA ResetOperationStep ==
    ASSUME NEW code \in Codes, ResetOperation(code)
    PROVE  Answered \/ Kept
  BY DEF ResetOperation, Answered, Kept, engine

LEMMA SocketResetOperationStep ==
    ASSUME NEW code \in Codes, SocketResetOperation(code)
    PROVE  Answered \/ Kept
  BY ResetOperationStep DEF SocketResetOperation, Kept, engine

LEMMA ContinueConnectStep ==
    ASSUME NEW timer, NEW count, ContinueConnect(timer, count), currentCommand_.type = "connect"
    PROVE  Answered \/ Kept
<1>1. IsBusy
  BY DEF IsBusy, NoCommand
<1>2. QED
  BY <1>1, EngineCodes DEF ContinueConnect, Answered, Kept

LEMMA OnCommandEventStep ==
    ASSUME OnCommandEvent
    PROVE  Answered \/ Kept
<1>1. CASE UNCHANGED engine
  BY <1>1 DEF Kept, engine
<1>2. CASE Connect
  BY <1>2, EngineCodes, ResetOperationStep, ContinueConnectStep DEF Connect
<1>3. CASE Disconnect
  BY <1>3, EngineCodes, ResetOperationStep DEF Disconnect
<1>4. CASE Perform
  BY <1>4, EngineCodes, ResetOperationStep DEF Perform, Kept, engine
<1>5. QED
  BY <1>1, <1>2, <1>3, <1>4 DEF OnCommandEvent

LEMMA DoCancelStep ==
    ASSUME DoCancel
    PROVE  Answered \/ Kept
<1>1. CASE UNCHANGED engine
  BY <1>1 DEF Kept, engine
<1>2. CASE CancelRetry
  BY <1>2, EngineCodes DEF CancelRetry, Answered
<1>3. CASE SocketCancel
  BY <1>3, EngineCodes, SocketResetOperationStep DEF SocketCancel, DoClose, Kept, engine
<1>4. CASE ResetOperation("cancelled")
  BY <1>4, EngineCodes, ResetOperationStep
<1>5. QED
  BY <1>1, <1>2, <1>3, <1>4 DEF DoCancel

LEMMA NextStep ==
    ASSUME [Next]_vars
    PROVE  Given \/ Answered \/ Kept
<1>1. CASE User
  <2>1. ASSUME NEW type \in CommandTypes, Execute(type)
        PROVE  Given
    BY <2>1 DEF Execute, Given
  <2>2. QED
    BY <1>1, <2>1 DEF User, Cancel, Kept, engine
<1>2. CASE Answer
  BY <1>2 DEF Answer, SetAsyncRequestReply, Kept, engine
<1>3. CASE Loop
  BY <1>3, OnCommandEventStep, DoCancelStep DEF Loop, OnSetAsyncRequestReplyEvent, Kept, engine
<1>4. CASE OnTimer
  BY <1>4, ContinueConnectStep DEF OnTimer, Kept
<1>5. CASE Connection
  <2>1. ASSUME NEW code \in Codes, OperationEnds(code)
        PROVE  Answered \/ Kept
    <3>1. SocketResetOperation(code)
      BY <2>1 DEF OperationEnds, DoClose
    <3>2. QED
      BY <3>1, SocketResetOperationStep
  <2>2. QED
    BY <1>5, <2>1 DEF Connection, PushSub, SendAsyncRequest, Kept, engine
<1>6. CASE ConnectionLost
  BY <1>6, EngineCodes, SocketResetOperationStep DEF ConnectionLost, DoClose
<1>7. CASE UNCHANGED vars
  BY <1>7 DEF vars, engine, Kept
<1>8. QED
  BY <1>1, <1>2, <1>3, <1>4, <1>5, <1>6, <1>7 DEF Next

(* One more reply is one more answer. *)
LEMMA AnswersAppend ==
    ASSUME IInv, IsBusy, NEW code \in Codes, Reply(code)
    PROVE  answers' = Append(answers, currentCommand_.id)
<1> DEFINE r == [id |-> currentCommand_.id, code |-> code]
<1>1. replies \in Seq([id : Nat, code : Codes]) /\ currentCommand_.id \in Nat
  BY DEF IInv, EngineTypeOK, IsBusy, CommandsOf
<1>2. replies' = Append(replies, r) /\ r.id = currentCommand_.id
  BY DEF Reply
<1>3. /\ Len(replies') = Len(replies) + 1 /\ DOMAIN replies' = 1..(Len(replies) + 1)
      /\ \A i \in 1..Len(replies) : replies'[i] = replies[i]
      /\ replies'[Len(replies) + 1] = r
  BY <1>1, <1>2
<1>4. answers \in Seq(Nat) /\ Len(answers) = Len(replies)
  <2>1. Len(replies) \in Nat /\ DOMAIN replies = 1..Len(replies)
    BY <1>1
  <2>2. \A i \in 1..Len(replies) : replies[i].id = i
    BY <2>1 DEF IInv, OneReplyPerCommand
  <2>3. answers \in [1..Len(replies) -> Nat]
    BY <2>1, <2>2 DEF answers
  <2>4. QED
    BY <2>1, <2>3
<1>5. answers' = [i \in 1..(Len(replies) + 1) |->
                     IF i <= Len(replies) THEN answers[i] ELSE currentCommand_.id]
  BY <1>1, <1>2, <1>3 DEF answers
<1>6. QED
  BY <1>1, <1>4, <1>5

(* The initial state of the engine is one of Commands. *)
LEMMA InitRefines == Init => C!Init
  BY DEF Init, C!Init, NoCommand, answers

(* Every step of the engine is a step of Commands, or changes nothing there. *)
LEMMA StepRefines == IInv /\ [Next]_vars => [C!Next]_C!vars
<1> SUFFICES ASSUME IInv, [Next]_vars
             PROVE  [C!Next]_C!vars
  OBVIOUS
<1>0. /\ replies \in Seq([id : Nat, code : Codes]) /\ commands \in Nat
      /\ ~IsBusy => currentCommand_.id = 0 /\ commands = Len(replies)
      /\ IsBusy => currentCommand_.id # 0
  BY DEF IInv, EngineTypeOK, OneReplyPerCommand, IsBusy, NoCommand, CommandsOf
<1>1. CASE Given
  <2>1. Len(answers) = Len(replies) /\ answers' = answers
    BY <1>0, <1>1 DEF Given, answers
  <2>2. C!Accept
    BY <1>0, <1>1, <2>1 DEF Given, C!Accept
  <2>3. QED
    BY <2>2 DEF C!Next
<1>2. CASE Answered
  <2>1. answers' = Append(answers, currentCommand_.id)
    BY <1>2, AnswersAppend DEF Answered
  <2>2. C!Answer
    BY <1>0, <1>2, <2>1 DEF Answered, NoCommand, C!Answer
  <2>3. QED
    BY <2>2 DEF C!Next
<1>3. CASE Kept
  BY <1>3 DEF Kept, C!vars, answers
<1>4. QED
  BY <1>1, <1>2, <1>3, NextStep

(* The engine implements the safety part of Commands, for every number of
   commands, cancels, requests and attempts: nothing CFileZillaEnginePrivate does
   answers a command twice, out of order, or not before it accepts the next. *)
THEOREM EngineImplementsCommands == Spec => C!Safety
  BY InvariantHolds, InitRefines, StepRefines, PTL DEF Spec, C!Safety

-----------------------------------------------------------------------------
(* The attempts of a connect. *)

(* m_retryCount counts no attempt that was not made: while the timer runs, as many
   attempts have failed as it says; while a control socket connects, that attempt
   is one more.  Before the event of the connect is handled the counter
   is that of an earlier connect; then there is no control socket, so nothing
   can fail. *)
Counted ==
    /\ m_retryCount \in Nat /\ attempts \in Nat
    /\ ~controlSocket_ => operations_ = <<>>
    /\ currentCommand_.type = "connect" =>
          /\ m_retryTimer => attempts >= m_retryCount
          /\ ~m_retryTimer /\ controlSocket_ => attempts >= m_retryCount + 1

(* A step fails a connect only if that has made all of its attempts. *)
Justified ==
    \A code \in ConnectFailures :
        /\ currentCommand_.type = "connect"
        /\ Len(replies') > Len(replies) /\ Last(replies').code = code
        => attempts >= ReconnectCount

LEMMA ReplyCode ==
    ASSUME IInv, IsBusy, NEW code \in Codes, Reply(code)
    PROVE  Last(replies').code = code
<1> DEFINE r == [id |-> currentCommand_.id, code |-> code]
<1>1. r \in [id : Nat, code : Codes] /\ r.code = code
  BY DEF IInv, EngineTypeOK, IsBusy, CommandsOf
<1>2. replies' = Append(replies, r) /\ replies \in Seq([id : Nat, code : Codes])
  BY DEF Reply, IInv, EngineTypeOK
<1> HIDE DEF r
<1>3. replies'[Len(replies')] = r
  BY <1>1, <1>2
<1>4. QED
  BY <1>1, <1>3 DEF Last

LEMMA KeptJustified == ASSUME UNCHANGED replies, IInv PROVE Justified
<1>1. Len(replies) \in Nat /\ Len(replies') = Len(replies)
  BY DEF IInv, EngineTypeOK
<1>2. QED
  BY <1>1 DEF Justified

LEMMA ResetOperationCounted ==
    ASSUME IInv, Counted, NEW code \in Codes, ResetOperation(code), UNCHANGED attempts,
           controlSocket_' => controlSocket_, ~controlSocket_' => operations_' = <<>>,
           currentCommand_.type = "connect" /\ code \in ConnectFailures => controlSocket_
    PROVE  Counted' /\ Justified
<1>1. CASE UNCHANGED engine
  <2>1. UNCHANGED <<currentCommand_, m_retryTimer, m_retryCount, replies>>
    BY <1>1 DEF engine
  <2>2. QED
    BY <2>1, KeptJustified DEF Counted
<1>2. CASE /\ currentCommand_.type = "connect" /\ ~m_retryTimer /\ Retries(code)
           /\ m_retryCount' = m_retryCount + 1 /\ m_retryTimer' = TRUE /\ UNCHANGED <<currentCommand_, replies>>
  <2>1. attempts >= m_retryCount + 1
    BY <1>2 DEF Counted, Retries
  <2>2. m_retryCount' \in Nat /\ attempts' >= m_retryCount' /\ attempts' \in Nat
    BY <1>2, <2>1 DEF Counted
  <2>3. QED
    BY <1>2, <2>2, KeptJustified DEF Counted
<1>3. CASE /\ IsBusy /\ (currentCommand_.type = "connect" => ~m_retryTimer /\ ~Retries(code))
           /\ Reply(code) /\ currentCommand_' = NoCommand
           /\ m_retryCount' = (IF currentCommand_.type = "connect" /\ code \in ConnectFailures
                               THEN m_retryCount + 1 ELSE m_retryCount)
  <2>1. Last(replies').code = code
    BY <1>3, ReplyCode
  <2>2. currentCommand_.type = "connect" /\ code \in ConnectFailures => attempts >= ReconnectCount
    BY <1>3, BoundsAssumption DEF Counted, Retries
  <2>3. Justified
    BY <2>1, <2>2 DEF Justified
  <2>4. m_retryCount' \in Nat /\ currentCommand_'.type # "connect"
    BY <1>3 DEF Counted, NoCommand
  <2>5. QED
    BY <2>3, <2>4 DEF Counted
<1>4. QED
  BY <1>1, <1>2, <1>3 DEF ResetOperation

LEMMA SocketResetOperationCounted ==
    ASSUME IInv, Counted, NEW code \in Codes, SocketResetOperation(code), UNCHANGED <<attempts, controlSocket_>>,
           controlSocket_
    PROVE  Counted' /\ Justified
<1>1. CASE ResetOperation(code)
  BY <1>1, ResetOperationCounted
<1>2. CASE UNCHANGED engine
  <2>1. UNCHANGED <<currentCommand_, m_retryTimer, m_retryCount, replies>>
    BY <1>2 DEF engine
  <2>2. QED
    BY <2>1, KeptJustified DEF Counted
<1>3. QED
  BY <1>1, <1>2 DEF SocketResetOperation

LEMMA ContinueConnectCounted ==
    ASSUME IInv, Counted, NEW timer, NEW count \in Nat, ContinueConnect(timer, count),
           currentCommand_.type = "connect", attempts >= count
    PROVE  Counted' /\ Justified
<1>0. attempts \in Nat /\ m_retryCount' = count
  BY DEF Counted, ContinueConnect
<1>1. CASE m_retryTimer' = TRUE /\ controlSocket_' = FALSE /\ operations_' = <<>>
           /\ UNCHANGED <<currentCommand_, replies, attempts>>
  BY <1>0, <1>1, KeptJustified DEF Counted
<1>2. CASE controlSocket_' = TRUE /\ attempts' = attempts + 1 /\ m_retryTimer' = timer /\ UNCHANGED <<currentCommand_, replies>>
  BY <1>0, <1>2, KeptJustified DEF Counted
<1>3. CASE /\ controlSocket_' = FALSE /\ operations_' = <<>> /\ m_retryTimer' = timer /\ UNCHANGED attempts
           /\ IF timer THEN UNCHANGED <<currentCommand_, replies>>
                       ELSE Reply("syntaxerror") /\ currentCommand_' = NoCommand
  <2>1. CASE timer
    BY <1>0, <1>3, <2>1, KeptJustified DEF Counted
  <2>2. CASE ~timer
    <3>1. Last(replies').code = "syntaxerror"
      BY <1>3, <2>2, ReplyCode, EngineCodes DEF IsBusy, NoCommand
    <3>2. Justified
      BY <3>1 DEF Justified, ConnectFailures
    <3>3. QED
      BY <1>0, <1>3, <2>2, <3>2 DEF Counted, NoCommand
  <2>3. QED
    BY <2>1, <2>2
<1>4. QED
  BY <1>1, <1>2, <1>3 DEF ContinueConnect

LEMMA OnCommandEventCounted ==
    ASSUME IInv, Counted, OnCommandEvent
    PROVE  Counted' /\ Justified
<1>1. CASE UNCHANGED <<engine, socket, delays, attempts>>
  <2>1. UNCHANGED <<currentCommand_, m_retryTimer, m_retryCount, replies, controlSocket_, operations_, attempts>>
    BY <1>1 DEF engine, socket
  <2>2. QED
    BY <2>1, KeptJustified DEF Counted
<1>2. CASE Connect
  <2>1. CASE controlSocket_ /\ ResetOperation("alreadyconnected") /\ UNCHANGED <<socket, delays, attempts>>
    <3>1. UNCHANGED <<controlSocket_, operations_, attempts>>
      BY <2>1 DEF socket
    <3>2. QED
      BY <2>1, <3>1, EngineCodes, ResetOperationCounted DEF Counted
  <2>2. CASE ~controlSocket_ /\ ContinueConnect(m_retryTimer, 0)
    <3>1. currentCommand_.type = "connect" /\ attempts >= 0 /\ 0 \in Nat
      BY <1>2 DEF Connect, Counted
    <3>2. QED
      BY <2>2, <3>1, ContinueConnectCounted
  <2>3. QED
    BY <1>2, <2>1, <2>2 DEF Connect
<1>3. CASE Disconnect
  <2>1. PICK code \in Codes : ResetOperation(code)
    BY <1>3, EngineCodes DEF Disconnect
  <2>2. /\ currentCommand_.type # "connect" /\ controlSocket_' = FALSE /\ operations_' = <<>>
        /\ UNCHANGED attempts
    BY <1>3 DEF Disconnect
  <2>3. QED
    BY <2>1, <2>2, ResetOperationCounted
<1>4. CASE Perform
  <2>1. currentCommand_.type # "connect" /\ UNCHANGED <<controlSocket_, attempts>>
    BY <1>4 DEF Perform, socket
  <2>2. CASE (\E code \in Codes : ResetOperation(code)) /\ UNCHANGED socket
    <3>1. UNCHANGED operations_
      BY <2>2 DEF socket
    <3>2. QED
      BY <2>1, <2>2, <3>1, ResetOperationCounted DEF Counted
  <2>3. CASE controlSocket_ /\ UNCHANGED engine
    <3>1. UNCHANGED <<currentCommand_, m_retryTimer, m_retryCount, replies>>
      BY <2>3 DEF engine
    <3>2. QED
      BY <2>1, <2>3, <3>1, KeptJustified DEF Counted
  <2>4. QED
    BY <1>4, <2>2, <2>3, EngineCodes DEF Perform
<1>5. QED
  BY <1>1, <1>2, <1>3, <1>4 DEF OnCommandEvent

LEMMA DoCancelCounted ==
    ASSUME IInv, Counted, DoCancel
    PROVE  Counted' /\ Justified
<1>0. UNCHANGED attempts /\ "cancelled" \in Codes /\ "cancelled" \notin ConnectFailures
  BY EngineCodes DEF DoCancel, ConnectFailures
<1>1. CASE UNCHANGED <<engine, socket>>
  <2>1. UNCHANGED <<currentCommand_, m_retryTimer, m_retryCount, replies, controlSocket_, operations_>>
    BY <1>1 DEF engine, socket
  <2>2. QED
    BY <1>0, <2>1, KeptJustified DEF Counted
<1>2. CASE CancelRetry
  <2>1. Last(replies').code = "cancelled"
    BY <1>0, <1>2, ReplyCode DEF CancelRetry
  <2>2. Justified
    BY <1>0, <2>1 DEF Justified
  <2>3. QED
    BY <1>0, <1>2, <2>2 DEF CancelRetry, Counted, NoCommand
<1>3. CASE controlSocket_ /\ SocketCancel
  <2>1. CASE operations_ # <<>> /\ SocketResetOperation("cancelled") /\ UNCHANGED controlSocket_
    BY <1>0, <1>3, <2>1, SocketResetOperationCounted
  <2>2. QED
    BY <1>1, <1>3, <2>1 DEF SocketCancel, DoClose
<1>4. CASE ~controlSocket_ /\ ResetOperation("cancelled") /\ UNCHANGED socket
  <2>1. UNCHANGED <<controlSocket_, operations_>>
    BY <1>4 DEF socket
  <2>2. QED
    BY <1>0, <1>4, <2>1, ResetOperationCounted DEF Counted
<1>5. QED
  BY <1>1, <1>2, <1>3, <1>4 DEF DoCancel

LEMMA OnTimerCounted ==
    ASSUME IInv, Counted, OnTimer
    PROVE  Counted' /\ Justified
<1>1. currentCommand_.type = "connect" /\ m_retryCount \in Nat /\ attempts >= m_retryCount
  BY DEF OnTimer, IInv, RetryTimerHasConnect, Counted
<1>2. ContinueConnect(FALSE, m_retryCount)
  BY <1>1 DEF OnTimer
<1>3. QED
  BY <1>1, <1>2, ContinueConnectCounted

LEMMA NextCounted ==
    ASSUME IInv, Counted, [Next]_vars
    PROVE  Counted' /\ Justified
<1>1. ASSUME NEW type \in CommandTypes, Execute(type)
      PROVE  Counted' /\ Justified
  <2>1. /\ currentCommand_'.type = type /\ attempts' = 0 /\ (type = "connect" => ~controlSocket_)
        /\ UNCHANGED <<m_retryTimer, m_retryCount, replies, controlSocket_, operations_>>
    BY <1>1 DEF Execute, CheckCommandPreconditions, socket
  <2>2. ~m_retryTimer
    BY <1>1 DEF Execute, IInv, RetryTimerHasConnect, IsBusy, NoCommand
  <2>3. QED
    BY <2>1, <2>2, KeptJustified DEF Counted
<1>2. ASSUME NEW code \in Codes, OperationEnds(code)
      PROVE  Counted' /\ Justified
  <2>1. controlSocket_ /\ SocketResetOperation(code) /\ UNCHANGED <<attempts, controlSocket_>>
    BY <1>2 DEF OperationEnds, DoClose, Running, Counted
  <2>2. QED
    BY <2>1, SocketResetOperationCounted
<1>3. CASE ConnectionLost
  BY <1>3, EngineCodes, SocketResetOperationCounted DEF ConnectionLost, DoClose
<1>4. CASE Cancel \/ Answer \/ OnSetAsyncRequestReplyEvent \/ PushSub \/ SendAsyncRequest \/ UNCHANGED vars
  <2>1. /\ UNCHANGED <<currentCommand_, m_retryTimer, m_retryCount, replies, controlSocket_, attempts>>
        /\ operations_ = <<>> => operations_' = <<>>
    BY <1>4 DEF Cancel, Answer, SetAsyncRequestReply, OnSetAsyncRequestReplyEvent, Awaiting, PushSub, SendAsyncRequest,
                Running, vars, engine, socket
  <2>2. QED
    BY <2>1, KeptJustified DEF Counted
<1>5. QED
  BY <1>1, <1>2, <1>3, <1>4, OnCommandEventCounted, DoCancelCounted, OnTimerCounted
     DEF Next, User, Loop, Connection

(* A connect that CFileZillaEnginePrivate::ResetOperation fails without a critical error has
   been attempted OPTION_RECONNECTCOUNT times, whatever delays, cancels and
   leftover events of other commands came between the attempts. *)
THEOREM AttemptsAreAllMade == Spec => AllAttemptsMade
<1>1. Init => Counted
  BY DEF Init, Counted
<1>2. IInv /\ Counted /\ [Next]_vars => Counted' /\ Justified
  BY NextCounted
<1>3. Justified => [\A code \in ConnectFailures :
          /\ currentCommand_.type = "connect"
          /\ Len(replies') > Len(replies) /\ Last(replies').code = code
          => attempts >= ReconnectCount]_vars
  BY DEF Justified
<1>4. QED
  BY <1>1, <1>2, <1>3, InvariantHolds, PTL DEF Spec, AllAttemptsMade

-----------------------------------------------------------------------------
(* The answers of the user. *)

OpsOf == [kind : {"connect", "op", "sub"}, id : Nat, wait : Nat]
EventsOf == [type : {"command", "cancel", "reply"}, nr : Nat]

(* The commands whose events are in the queue. *)
QueuedCommands == {events[i].nr : i \in {j \in DOMAIN events : events[j].type = "command"}}

(* The event of the current command has not been handled. *)
Fresh == IsBusy /\ currentCommand_.id \in QueuedCommands

(* Every command has one event. *)
EventsOnce ==
    /\ events \in Seq(EventsOf)
    /\ \A i \in DOMAIN events : events[i].type = "command" => events[i].nr <= commands
    /\ \A i, j \in DOMAIN events : events[i].type = "command" /\ events[j] = events[i] => j = i

(* Unless a leftover event was taken for it, a command finds nothing on the stack
   when its event is handled, and no connection attempt of its own under way. *)
CleanStart ==
    ~misled => /\ ~IsBusy => operations_ = <<>>
               /\ Fresh => operations_ = <<>> /\ ~m_retryTimer /\ (currentCommand_.type = "connect" => ~controlSocket_)

(* Then only the operation on top of the stack waits, for the last request. *)
TopWaits ==
    ~misled => \A i \in DOMAIN operations_ :
                   operations_[i].wait # 0 => i = Len(operations_) /\ operations_[i].wait = asyncRequestCounter_

AskInv ==
    /\ asyncRequestCounter_ \in Nat
    /\ operations_ \in Seq(OpsOf)
    /\ EventsOnce /\ CleanStart /\ TopWaits

LEMMA TailEvents ==
    ASSUME EventsOnce, events # <<>>, events' = Tail(events), UNCHANGED commands
    PROVE  /\ EventsOnce' /\ QueuedCommands' \subseteq QueuedCommands
           /\ Head(events).type = "command" =>
                 Head(events).nr \in QueuedCommands /\ Head(events).nr \notin QueuedCommands'
<1> DEFINE n == Len(events)
<1>1. /\ n \in Nat /\ n > 0 /\ DOMAIN events = 1..n /\ Head(events) = events[1]
      /\ events' \in Seq(EventsOf) /\ DOMAIN events' = 1..(n - 1) /\ \A i \in 1..(n - 1) : events'[i] = events[i + 1]
      /\ \A i \in 1..n : events[i] \in EventsOf
  BY DEF EventsOnce
<1> HIDE DEF n
<1>2. \A i \in 1..(n - 1) : i + 1 \in 1..n /\ i + 1 # 1
  BY <1>1
<1>3. 1 \in 1..n
  BY <1>1
<1>4. QueuedCommands' \subseteq QueuedCommands
  <2> SUFFICES ASSUME NEW i \in DOMAIN events', events'[i].type = "command"
               PROVE  events'[i].nr \in QueuedCommands
    BY DEF QueuedCommands
  <2>1. i + 1 \in DOMAIN events /\ events'[i] = events[i + 1]
    BY <1>1, <1>2
  <2>2. QED
    BY <2>1 DEF QueuedCommands
<1>5. EventsOnce'
  <2>1. ASSUME NEW i \in DOMAIN events', NEW j \in DOMAIN events', events'[i].type = "command", events'[j] = events'[i]
        PROVE  j = i
    <3>1. i \in 1..(n - 1) /\ j \in 1..(n - 1) /\ i + 1 \in DOMAIN events /\ j + 1 \in DOMAIN events
      BY <1>1, <1>2
    <3>2. j + 1 = i + 1
      BY <1>1, <2>1, <3>1 DEF EventsOnce
    <3>3. QED
      BY <1>1, <3>1, <3>2
  <2>2. ASSUME NEW i \in DOMAIN events', events'[i].type = "command"
        PROVE  events'[i].nr <= commands'
    BY <1>1, <1>2, <2>2 DEF EventsOnce
  <2>3. QED
    BY <1>1, <2>1, <2>2 DEF EventsOnce
<1>6. ASSUME Head(events).type = "command"
      PROVE  Head(events).nr \in QueuedCommands /\ Head(events).nr \notin QueuedCommands'
  <2>1. events[1].nr \in QueuedCommands
    BY <1>1, <1>3, <1>6 DEF QueuedCommands
  <2>2. ASSUME NEW i \in DOMAIN events', events'[i].type = "command", events'[i].nr = events[1].nr
        PROVE  FALSE
    <3>1. i + 1 \in DOMAIN events /\ events'[i] = events[i + 1] /\ i + 1 # 1
      BY <1>1, <1>2
    <3>2. events[1] \in EventsOf /\ events[i + 1] \in EventsOf /\ 1 \in DOMAIN events
      BY <1>1, <1>3, <3>1
    <3>3. events[i + 1] = events[1]
      BY <1>1, <1>6, <2>2, <3>1, <3>2 DEF EventsOf
    <3>4. QED
      BY <1>1, <1>6, <3>1, <3>2, <3>3 DEF EventsOnce
  <2>3. QED
    BY <1>1, <2>1, <2>2 DEF QueuedCommands
<1>7. QED
  BY <1>4, <1>5, <1>6

LEMMA AppendEvents ==
    ASSUME EventsOnce, NEW e \in EventsOf, events' = Append(events, e), commands \in Nat, commands' \in Nat,
           commands' >= commands,
           e.type = "command" => e.nr = commands' /\ commands' > commands
    PROVE  /\ EventsOnce'
           /\ \A nr \in QueuedCommands' : nr \in QueuedCommands \/ (e.type = "command" /\ nr = e.nr)
<1> DEFINE n == Len(events)
<1>1. /\ n \in Nat /\ DOMAIN events = 1..n /\ events' \in Seq(EventsOf) /\ DOMAIN events' = 1..(n + 1)
      /\ events'[n + 1] = e /\ \A i \in 1..n : events'[i] = events[i] /\ events[i] \in EventsOf
  BY DEF EventsOnce
<1> HIDE DEF n
<1>2. \A i \in DOMAIN events' : (i \in DOMAIN events /\ events'[i] = events[i]) \/ (i = n + 1 /\ events'[i] = e)
  <2>1. \A i \in 1..(n + 1) : i \in 1..n \/ i = n + 1
    BY <1>1
  <2>2. QED
    BY <1>1, <2>1
<1>3. \A nr \in QueuedCommands' : nr \in QueuedCommands \/ (e.type = "command" /\ nr = e.nr)
  <2> SUFFICES ASSUME NEW i \in DOMAIN events', events'[i].type = "command"
               PROVE  events'[i].nr \in QueuedCommands \/ (e.type = "command" /\ events'[i].nr = e.nr)
    BY DEF QueuedCommands
  <2>1. QED
    BY <1>2 DEF QueuedCommands
<1>4. ASSUME NEW i \in DOMAIN events', events'[i].type = "command"
      PROVE  events'[i].nr <= commands'
  BY <1>1, <1>2, <1>4 DEF EventsOnce, EventsOf
<1>5. ASSUME NEW i \in DOMAIN events', NEW j \in DOMAIN events', events'[i].type = "command", events'[j] = events'[i]
      PROVE  j = i
  <2>1. CASE i \in DOMAIN events /\ j \in DOMAIN events
    BY <1>1, <1>5, <2>1 DEF EventsOnce
  <2>2. CASE i = n + 1 /\ j = n + 1
    BY <2>2
  <2>3. CASE i \in DOMAIN events /\ j = n + 1
    BY <1>1, <1>5, <2>3 DEF EventsOnce, EventsOf
  <2>4. CASE i = n + 1 /\ j \in DOMAIN events
    BY <1>1, <1>5, <2>4 DEF EventsOnce, EventsOf
  <2>5. QED
    BY <1>2, <2>1, <2>2, <2>3, <2>4
<1>6. QED
  BY <1>1, <1>3, <1>4, <1>5 DEF EventsOnce

(* What ResetOperation does with a command that does not wait for the timer. *)
LEMMA ResetOperationEnds ==
    ASSUME NEW code, ResetOperation(code), IsBusy, ~m_retryTimer,
           code \notin ConnectFailures \/ currentCommand_.type # "connect"
    PROVE  currentCommand_' = NoCommand
  BY DEF ResetOperation, Retries

(* Fresh speaks of the current command and the queue only. *)
LEMMA FreshStays ==
    ASSUME currentCommand_' \in {currentCommand_, NoCommand}, QueuedCommands' \subseteq QueuedCommands
    PROVE  Fresh' => Fresh /\ currentCommand_' = currentCommand_
  BY DEF Fresh, IsBusy, NoCommand

LEMMA StepKeepsCommand ==
    ASSUME Answered \/ Kept
    PROVE  currentCommand_' \in {currentCommand_, NoCommand}
  BY DEF Answered, Kept

(* A stack that is emptied while the command ends, or goes on without its event
   in the queue. *)
LEMMA EmptiedAskInv ==
    ASSUME AskInv, operations_' = <<>>, UNCHANGED asyncRequestCounter_, EventsOnce', ~misled' => ~Fresh'
    PROVE  AskInv'
  BY DEF AskInv, CleanStart, TopWaits

LEMMA NewOpType ==
    ASSUME NEW kind \in {"connect", "op", "sub"}, NEW id \in Nat
    PROVE  NewOp(kind, id) \in OpsOf /\ NewOp(kind, id).wait = 0
  BY DEF NewOp, OpsOf

(* A stack where nobody waits, of a command whose event has been handled. *)
LEMMA UnwaitingAskInv ==
    ASSUME AskInv, operations_' \in Seq(OpsOf), UNCHANGED asyncRequestCounter_, EventsOnce',
           ~misled' => ~Fresh' /\ IsBusy' /\ \A i \in DOMAIN operations_' : operations_'[i].wait = 0
    PROVE  AskInv'
  BY DEF AskInv, CleanStart, TopWaits

LEMMA SingleStack ==
    ASSUME NEW S, NEW o \in S
    PROVE  <<o>> \in Seq(S) /\ \A i \in DOMAIN <<o>> : <<o>>[i] = o
  OBVIOUS

LEMMA PairStack ==
    ASSUME NEW S, NEW o \in S, NEW p \in S
    PROVE  <<o, p>> \in Seq(S) /\ \A i \in DOMAIN <<o, p>> : <<o, p>>[i] \in {o, p}
  OBVIOUS

LEMMA AppendStack ==
    ASSUME NEW S, NEW q \in Seq(S), NEW o \in S
    PROVE  /\ Append(q, o) \in Seq(S)
           /\ \A i \in DOMAIN Append(q, o) : (i \in DOMAIN q /\ Append(q, o)[i] = q[i]) \/ Append(q, o)[i] = o
  OBVIOUS

LEMMA Below ==
    ASSUME NEW n \in Nat, n > 1
    PROVE  n - 1 \in Nat /\ n - 1 > 0 /\ n - 1 < n /\ \A i \in 1..(n - 1) : i \in 1..n /\ i # n
  OBVIOUS

LEMMA InitialPart ==
    ASSUME NEW S, NEW m \in Nat, m > 0, NEW q, \A i \in 1..m : q[i] \in S, NEW r, r = [i \in 1..m |-> q[i]]
    PROVE  r \in Seq(S) /\ r # <<>> /\ Len(r) = m
  OBVIOUS

LEMMA FrontStack ==
    ASSUME NEW S, NEW q \in Seq(S), Len(q) > 1
    PROVE  /\ Front(q) \in Seq(S) /\ Front(q) # <<>> /\ Len(Front(q)) < Len(q)
           /\ \A i \in DOMAIN Front(q) : i \in DOMAIN q /\ Front(q)[i] = q[i] /\ i # Len(q)
<1>1. Len(q) \in Nat /\ DOMAIN q = 1..Len(q) /\ \A i \in 1..Len(q) : q[i] \in S
  OBVIOUS
<1>2. PICK m : m = Len(q) - 1
  OBVIOUS
<1>3. m \in Nat /\ m > 0 /\ m < Len(q) /\ \A i \in 1..m : i \in 1..Len(q) /\ i # Len(q)
  BY <1>1, <1>2, Below
<1>4. Front(q) = [i \in 1..m |-> q[i]]
  BY <1>1, <1>2 DEF Front
<1>5. \A i \in 1..m : q[i] \in S
  BY <1>1, <1>3
<1>6. Front(q) \in Seq(S) /\ Front(q) # <<>> /\ Len(Front(q)) = m
  BY <1>3, <1>4, <1>5, InitialPart
<1>7. DOMAIN Front(q) = 1..m /\ \A i \in 1..m : Front(q)[i] = q[i]
  BY <1>4
<1>8. QED
  BY <1>1, <1>3, <1>6, <1>7

LEMMA TopStack ==
    ASSUME NEW S, NEW q \in Seq(S), q # <<>>
    PROVE  Len(q) \in DOMAIN q /\ Last(q) = q[Len(q)] /\ Last(q) \in S
  BY DEF Last

LEMMA SetWait ==
    ASSUME NEW q \in Seq(OpsOf), q # <<>>, NEW w \in Nat, NEW r, r = [q EXCEPT ![Len(q)].wait = w]
    PROVE  /\ r \in Seq(OpsOf) /\ r # <<>> /\ Len(r) = Len(q) /\ DOMAIN r = DOMAIN q /\ r[Len(q)].wait = w
           /\ \A i \in DOMAIN q : i # Len(q) => r[i] = q[i]
<1>1. Len(q) \in DOMAIN q /\ q[Len(q)] \in OpsOf
  BY TopStack
<1>2. PICK o : o = [q[Len(q)] EXCEPT !.wait = w]
  OBVIOUS
<1>3. o \in OpsOf /\ o.wait = w
  BY <1>1, <1>2 DEF OpsOf
<1>4. r = [q EXCEPT ![Len(q)] = o]
  BY <1>1, <1>2
<1>5. QED
  BY <1>1, <1>3, <1>4

LEMMA ContinueConnectAskInv ==
    ASSUME IInv, AskInv, NEW timer, NEW count, ContinueConnect(timer, count), currentCommand_.type = "connect",
           UNCHANGED asyncRequestCounter_, EventsOnce', ~misled' => ~Fresh'
    PROVE  AskInv'
<1>1. CASE operations_' = <<>>
  BY <1>1, EmptiedAskInv
<1>2. CASE operations_' = <<NewOp("connect", currentCommand_.id)>> /\ UNCHANGED currentCommand_
  <2>1. IsBusy /\ currentCommand_.id \in Nat
    BY DEF IInv, EngineTypeOK, IsBusy, NoCommand, CommandsOf
  <2>2. PICK o : o = NewOp("connect", currentCommand_.id)
    OBVIOUS
  <2>3. o \in OpsOf /\ o.wait = 0
    BY <2>1, <2>2, NewOpType
  <2>4. operations_' = <<o>> /\ IsBusy'
    BY <1>2, <2>1, <2>2 DEF IsBusy, NoCommand
  <2>5. operations_' \in Seq(OpsOf) /\ \A i \in DOMAIN operations_' : operations_'[i] = o
    BY <2>3, <2>4, SingleStack
  <2>6. QED
    BY <2>3, <2>4, <2>5, UnwaitingAskInv
<1>3. QED
  BY <1>1, <1>2 DEF ContinueConnect

(* The event of the current command finds an empty stack; any other one is a
   leftover, and misleads a command if there is one. *)
LEMMA OnCommandEventAskInv ==
    ASSUME IInv, AskInv, OnCommandEvent
    PROVE  AskInv'
<1>1. /\ EventsOnce' /\ QueuedCommands' \subseteq QueuedCommands
      /\ Head(events).nr \in QueuedCommands /\ Head(events).nr \notin QueuedCommands'
  <2>1. events # <<>> /\ events' = Tail(events) /\ Head(events).type = "command" /\ UNCHANGED commands /\ EventsOnce
    BY DEF OnCommandEvent, Dispatch, AskInv
  <2>2. QED
    BY <2>1, TailEvents
<1>2. UNCHANGED asyncRequestCounter_ /\ (~misled' => ~misled /\ (IsBusy => currentCommand_.id = Head(events).nr))
  BY DEF OnCommandEvent
<1>3. currentCommand_' \in {currentCommand_, NoCommand}
  BY OnCommandEventStep, StepKeepsCommand
<1>4. ~misled' => ~Fresh'
  BY <1>1, <1>2, <1>3 DEF Fresh, IsBusy, NoCommand
<1>5. ~misled' => operations_ = <<>>
  BY <1>1, <1>2 DEF AskInv, CleanStart, Fresh
<1>6. CASE UNCHANGED operations_
  <2>1. AskInv'
    BY <1>1, <1>2, <1>4, <1>5, <1>6 DEF AskInv, CleanStart, TopWaits
  <2>2. QED
    BY <2>1
<1>7. CASE Connect /\ ~UNCHANGED operations_
  BY <1>1, <1>2, <1>4, <1>7, ContinueConnectAskInv DEF Connect, socket
<1>8. CASE Disconnect
  BY <1>1, <1>2, <1>4, <1>8, EmptiedAskInv DEF Disconnect
<1>9. CASE /\ currentCommand_.type = "op" /\ controlSocket_ /\ operations_' = Pushed(currentCommand_.id)
           /\ UNCHANGED <<engine, controlSocket_>>
  <2>1. IsBusy /\ currentCommand_.id \in Nat /\ IsBusy'
    BY <1>9 DEF IInv, EngineTypeOK, IsBusy, NoCommand, CommandsOf, engine
  <2>2. PICK o, c : o = NewOp("op", currentCommand_.id) /\ c = NewOp("connect", currentCommand_.id)
    OBVIOUS
  <2>3. o \in OpsOf /\ o.wait = 0 /\ c \in OpsOf /\ c.wait = 0
    BY <2>1, <2>2, NewOpType
  <2>4. /\ operations_' \in Seq(OpsOf)
        /\ \A i \in DOMAIN operations_' : (i \in DOMAIN operations_ /\ operations_'[i] = operations_[i])
                                          \/ operations_'[i] \in {o, c}
    <3>1. CASE operations_' = <<o, c>>
      BY <2>3, <3>1, PairStack
    <3>2. CASE operations_' = Append(operations_, o)
      <4>1. operations_ \in Seq(OpsOf)
        BY DEF AskInv
      <4>2. QED
        BY <2>3, <3>2, <4>1, AppendStack
    <3>3. QED
      BY <1>9, <2>2, <3>1, <3>2 DEF Pushed
  <2>5. ~misled' => \A i \in DOMAIN operations_' : operations_'[i].wait = 0
    <3>1. DOMAIN <<>> = {}
      OBVIOUS
    <3>2. QED
      BY <1>5, <2>3, <2>4, <3>1
  <2>6. QED
    BY <1>1, <1>2, <1>4, <2>1, <2>4, <2>5, UnwaitingAskInv
<1>10. QED
  BY <1>6, <1>7, <1>8, <1>9 DEF OnCommandEvent, Perform, socket

LEMMA DoCancelAskInv ==
    ASSUME IInv, Counted, AskInv, DoCancel
    PROVE  AskInv'
<1>1. EventsOnce' /\ QueuedCommands' \subseteq QueuedCommands
  <2>1. events # <<>> /\ events' = Tail(events) /\ UNCHANGED commands /\ EventsOnce
    BY DEF DoCancel, Dispatch, AskInv, counters
  <2>2. QED
    BY <2>1, TailEvents
<1>2. UNCHANGED <<asyncRequestCounter_, misled>> /\ "cancelled" \notin ConnectFailures /\ "cancelled" \notin SubCodes
  BY DEF DoCancel, ConnectFailures, SubCodes
<1>3. CASE UNCHANGED <<engine, socket>>
  <2>1. UNCHANGED <<currentCommand_, m_retryTimer, operations_, controlSocket_>>
    BY <1>3 DEF engine, socket
  <2>2. Fresh' => Fresh
    BY <1>1, <2>1, FreshStays
  <2>3. IsBusy' = IsBusy
    BY <2>1 DEF IsBusy, NoCommand
  <2>4. QED
    BY <1>1, <1>2, <2>1, <2>2, <2>3 DEF AskInv, CleanStart, TopWaits
<1>4. CASE operations_' = <<>> /\ currentCommand_' = NoCommand
  BY <1>1, <1>2, <1>4, EmptiedAskInv DEF Fresh, IsBusy
<1>5. CASE CancelRetry
  BY <1>4, <1>5 DEF CancelRetry
<1>6. CASE IsBusy /\ ~m_retryTimer /\ controlSocket_ /\ SocketCancel
  <2>1. CASE SocketResetOperation("cancelled")
    <3>1. operations_' = <<>> /\ ResetOperation("cancelled")
      BY <1>2, <2>1 DEF SocketResetOperation, OperationsLeft
    <3>2. QED
      BY <1>2, <1>4, <1>6, <3>1, ResetOperationEnds
  <2>2. QED
    BY <1>3, <1>6, <2>1 DEF SocketCancel, DoClose
<1>7. CASE IsBusy /\ ~m_retryTimer /\ ~controlSocket_ /\ ResetOperation("cancelled") /\ UNCHANGED socket
  <2>1. operations_' = <<>>
    BY <1>7 DEF Counted, socket
  <2>2. QED
    BY <1>2, <1>4, <1>7, <2>1, ResetOperationEnds
<1>8. QED
  BY <1>3, <1>5, <1>6, <1>7 DEF DoCancel

LEMMA OnSetAsyncRequestReplyEventAskInv ==
    ASSUME IInv, AskInv, OnSetAsyncRequestReplyEvent
    PROVE  AskInv'
<1>1. EventsOnce' /\ QueuedCommands' \subseteq QueuedCommands
  <2>1. events # <<>> /\ events' = Tail(events) /\ UNCHANGED commands /\ EventsOnce
    BY DEF OnSetAsyncRequestReplyEvent, Dispatch, AskInv, counters
  <2>2. QED
    BY <2>1, TailEvents
<1>2. UNCHANGED <<asyncRequestCounter_, misled, currentCommand_, m_retryTimer, controlSocket_>>
  BY DEF OnSetAsyncRequestReplyEvent, engine
<1>3. (Fresh' => Fresh) /\ IsBusy' = IsBusy
  BY <1>1, <1>2, FreshStays DEF IsBusy, NoCommand
<1>4. CASE UNCHANGED operations_
  BY <1>1, <1>2, <1>3, <1>4 DEF AskInv, CleanStart, TopWaits
<1>5. CASE IsBusy /\ operations_ # <<>> /\ operations_' = [operations_ EXCEPT ![Len(operations_)].wait = 0]
  <2>1. /\ operations_' \in Seq(OpsOf) /\ DOMAIN operations_' = DOMAIN operations_
        /\ operations_'[Len(operations_)].wait = 0
        /\ \A i \in DOMAIN operations_ : i # Len(operations_) => operations_'[i] = operations_[i]
    <3>1. operations_ \in Seq(OpsOf) /\ 0 \in Nat
      BY DEF AskInv
    <3>2. QED
      BY <1>5, <3>1, SetWait
  <2>2. ~misled' => \A i \in DOMAIN operations_' : operations_'[i].wait = 0
    BY <1>2, <2>1 DEF AskInv, TopWaits
  <2>3. ~misled' => ~Fresh' /\ IsBusy'
    BY <1>2, <1>3, <1>5 DEF AskInv, CleanStart
  <2>4. QED
    BY <1>1, <1>2, <2>1, <2>2, <2>3, UnwaitingAskInv
<1>6. QED
  BY <1>4, <1>5 DEF OnSetAsyncRequestReplyEvent, IsPendingAsyncRequestReply, Awaiting

(* Steps that leave the queue alone, of an operation or a connection attempt that
   has begun: the event of its command has been handled. *)
LEMMA BegunIsNotFresh ==
    ASSUME AskInv, ~misled, UNCHANGED events, currentCommand_' \in {currentCommand_, NoCommand},
           operations_ # <<>> \/ m_retryTimer
    PROVE  ~Fresh' /\ (operations_ # <<>> => IsBusy)
<1>1. QueuedCommands' = QueuedCommands
  BY DEF QueuedCommands
<1>2. QED
  BY <1>1, FreshStays DEF AskInv, CleanStart

LEMMA EventsUnchanged ==
    ASSUME EventsOnce, UNCHANGED <<events, commands>>
    PROVE  EventsOnce'
  BY DEF EventsOnce

LEMMA OnTimerAskInv ==
    ASSUME IInv, AskInv, OnTimer
    PROVE  AskInv'
<1>1. currentCommand_.type = "connect" /\ m_retryTimer /\ UNCHANGED <<asyncRequestCounter_, events, commands, misled>>
  BY DEF OnTimer, IInv, RetryTimerHasConnect
<1>2. ContinueConnect(FALSE, m_retryCount)
  BY <1>1 DEF OnTimer
<1>3. currentCommand_' \in {currentCommand_, NoCommand}
  BY <1>1, <1>2, ContinueConnectStep, StepKeepsCommand
<1>4. EventsOnce' /\ (~misled' => ~Fresh')
  BY <1>1, <1>3, BegunIsNotFresh, EventsUnchanged DEF AskInv
<1>5. QED
  BY <1>1, <1>2, <1>4, ContinueConnectAskInv

LEMMA OperationEndsAskInv ==
    ASSUME IInv, AskInv, NEW code \in Codes, OperationEnds(code)
    PROVE  AskInv'
<1>1. /\ operations_ # <<>> /\ Last(operations_).wait = 0 /\ SocketResetOperation(code)
      /\ UNCHANGED <<asyncRequestCounter_, events, commands, misled>>
  BY DEF OperationEnds, DoClose, Running, counters
<1>2. currentCommand_' \in {currentCommand_, NoCommand}
  BY <1>1, SocketResetOperationStep, StepKeepsCommand
<1>3. EventsOnce' /\ (~misled' => ~Fresh' /\ IsBusy)
  BY <1>1, <1>2, BegunIsNotFresh, EventsUnchanged DEF AskInv
<1>4. CASE operations_' = <<>>
  BY <1>1, <1>3, <1>4, EmptiedAskInv
<1>5. CASE operations_' # <<>>
  <2>1. Len(operations_) > 1 /\ operations_' = Front(operations_) /\ UNCHANGED engine /\ operations_ \in Seq(OpsOf)
    BY <1>1, <1>5 DEF SocketResetOperation, OperationsLeft, AskInv
  <2>2. /\ operations_' \in Seq(OpsOf)
        /\ \A i \in DOMAIN operations_' : i \in DOMAIN operations_ /\ operations_'[i] = operations_[i]
                                          /\ i # Len(operations_)
    BY <2>1, FrontStack
  <2>3. ~misled' => \A i \in DOMAIN operations_' : operations_'[i].wait = 0
    BY <1>1, <2>2 DEF AskInv, TopWaits
  <2>4. ~misled' => IsBusy'
    BY <1>3, <2>1 DEF engine, IsBusy, NoCommand
  <2>5. QED
    BY <1>1, <1>3, <2>2, <2>3, <2>4, UnwaitingAskInv
<1>6. QED
  BY <1>4, <1>5

(* A command whose event is still in the queue ends with the connection; a connect
   has no connection by then. *)
LEMMA ConnectionLostAskInv ==
    ASSUME IInv, AskInv, ConnectionLost
    PROVE  AskInv'
<1>1. /\ controlSocket_ /\ operations_' = <<>> /\ ResetOperation("disconnected")
      /\ UNCHANGED <<asyncRequestCounter_, events, commands, misled>>
  BY DEF ConnectionLost, DoClose, SocketResetOperation, OperationsLeft, SubCodes, counters
<1>2. currentCommand_' \in {currentCommand_, NoCommand}
  BY <1>1, EngineCodes, ResetOperationStep, StepKeepsCommand
<1>3. EventsOnce' /\ QueuedCommands' = QueuedCommands
  BY <1>1, EventsUnchanged DEF AskInv, QueuedCommands
<1>4. ~misled' => ~Fresh'
  <2> SUFFICES ASSUME ~misled', Fresh'
               PROVE  FALSE
    OBVIOUS
  <2>1. Fresh /\ currentCommand_' = currentCommand_
    BY <1>2, <1>3, FreshStays
  <2>2. IsBusy /\ ~m_retryTimer /\ currentCommand_.type # "connect"
    BY <1>1, <2>1 DEF AskInv, CleanStart, Fresh
  <2>3. currentCommand_' = NoCommand
    BY <1>1, <2>2, ResetOperationEnds
  <2>4. QED
    BY <2>1, <2>2, <2>3 DEF IsBusy
<1>5. QED
  BY <1>1, <1>3, <1>4, EmptiedAskInv

LEMMA PushSubAskInv ==
    ASSUME IInv, AskInv, PushSub
    PROVE  AskInv'
<1>1. /\ operations_ # <<>> /\ Last(operations_).wait = 0 /\ operations_ \in Seq(OpsOf)
      /\ UNCHANGED <<currentCommand_, asyncRequestCounter_, events, commands, misled>>
  BY DEF PushSub, Running, engine, AskInv
<1>2. EventsOnce' /\ (~misled' => ~Fresh' /\ IsBusy')
  BY <1>1, BegunIsNotFresh, EventsUnchanged DEF AskInv, IsBusy, NoCommand
<1>3. /\ Len(operations_) \in DOMAIN operations_ /\ Last(operations_) = operations_[Len(operations_)]
      /\ Last(operations_).id \in Nat
  <2>1. /\ Len(operations_) \in DOMAIN operations_ /\ Last(operations_) = operations_[Len(operations_)]
        /\ Last(operations_) \in OpsOf
    BY <1>1, TopStack
  <2>2. QED
    BY <2>1 DEF OpsOf
<1>4. PICK o : o = NewOp("sub", Last(operations_).id)
  OBVIOUS
<1>5. o \in OpsOf /\ o.wait = 0 /\ operations_' = Append(operations_, o)
  BY <1>3, <1>4, NewOpType DEF PushSub
<1>6. /\ operations_' \in Seq(OpsOf)
      /\ \A i \in DOMAIN operations_' : (i \in DOMAIN operations_ /\ operations_'[i] = operations_[i]) \/ operations_'[i] = o
  BY <1>1, <1>5, AppendStack
<1>7. ~misled' => \A i \in DOMAIN operations_' : operations_'[i].wait = 0
  BY <1>1, <1>3, <1>5, <1>6 DEF AskInv, TopWaits
<1>8. QED
  BY <1>1, <1>2, <1>6, <1>7, UnwaitingAskInv

LEMMA SendAsyncRequestAskInv ==
    ASSUME IInv, AskInv, SendAsyncRequest
    PROVE  AskInv'
<1>1. /\ operations_ # <<>> /\ Last(operations_).wait = 0 /\ operations_ \in Seq(OpsOf)
      /\ UNCHANGED <<currentCommand_, events, commands, misled>>
      /\ operations_' = [operations_ EXCEPT ![Len(operations_)].wait = asyncRequestCounter_']
  BY DEF SendAsyncRequest, Running, engine, counters, AskInv
<1>2. EventsOnce' /\ (~misled' => ~Fresh' /\ IsBusy')
  BY <1>1, BegunIsNotFresh, EventsUnchanged DEF AskInv, IsBusy, NoCommand
<1>3. asyncRequestCounter_' \in Nat
  BY DEF SendAsyncRequest, AskInv
<1>4. Last(operations_) = operations_[Len(operations_)]
  BY <1>1, TopStack
<1>5. /\ operations_' \in Seq(OpsOf) /\ Len(operations_') = Len(operations_)
      /\ DOMAIN operations_' = DOMAIN operations_ /\ operations_'[Len(operations_)].wait = asyncRequestCounter_'
      /\ \A i \in DOMAIN operations_ : i # Len(operations_) => operations_'[i] = operations_[i]
  BY <1>1, <1>3, SetWait
<1>6. TopWaits'
  BY <1>1, <1>4, <1>5 DEF AskInv, TopWaits
<1>7. CleanStart'
  BY <1>2 DEF CleanStart
<1>8. QED
  BY <1>2, <1>3, <1>5, <1>6, <1>7 DEF AskInv

LEMMA ExecuteAskInv ==
    ASSUME IInv, AskInv, NEW type \in CommandTypes, Execute(type)
    PROVE  AskInv'
<1>1. /\ commands \in Nat /\ commands' = commands + 1 /\ ~IsBusy /\ ~m_retryTimer
      /\ currentCommand_'.type = type /\ (type = "connect" => ~controlSocket_)
      /\ events' = Append(events, [type |-> "command", nr |-> commands'])
      /\ UNCHANGED <<operations_, m_retryTimer, controlSocket_, asyncRequestCounter_, misled>>
  BY DEF Execute, CheckCommandPreconditions, IInv, EngineTypeOK, RetryTimerHasConnect, IsBusy, NoCommand, socket
<1>2. PICK e : e = [type |-> "command", nr |-> commands']
  OBVIOUS
<1>3. e \in EventsOf /\ e.nr = commands' /\ commands' \in Nat /\ commands' > commands /\ events' = Append(events, e)
  BY <1>1, <1>2 DEF EventsOf
<1>4. EventsOnce'
  BY <1>1, <1>3, AppendEvents DEF AskInv
<1>5. CleanStart'
  BY <1>1 DEF AskInv, CleanStart
<1>6. TopWaits'
  BY <1>1 DEF AskInv, TopWaits
<1>7. QED
  BY <1>1, <1>4, <1>5, <1>6 DEF AskInv

LEMMA QuietAppendAskInv ==
    ASSUME IInv, AskInv, NEW e \in EventsOf, e.type # "command", events' = Append(events, e),
           UNCHANGED <<engine, socket, asyncRequestCounter_, commands, misled>>
    PROVE  AskInv'
<1>1. UNCHANGED <<currentCommand_, m_retryTimer, operations_, controlSocket_>> /\ commands \in Nat
  BY DEF engine, socket, IInv, EngineTypeOK
<1>2. EventsOnce' /\ \A nr \in QueuedCommands' : nr \in QueuedCommands
  BY <1>1, AppendEvents DEF AskInv
<1>3. (Fresh' => Fresh) /\ IsBusy' = IsBusy
  BY <1>1, <1>2 DEF Fresh, IsBusy, NoCommand
<1>4. CleanStart' /\ TopWaits'
  BY <1>1, <1>3 DEF AskInv, CleanStart, TopWaits
<1>5. QED
  BY <1>1, <1>2, <1>4 DEF AskInv

LEMMA NextAskInv ==
    ASSUME IInv, Counted, AskInv, [Next]_vars
    PROVE  AskInv'
<1>1. CASE Cancel
  <2>1. PICK e : e = [type |-> "cancel", nr |-> currentCommand_.id]
    OBVIOUS
  <2>2. e \in EventsOf /\ e.type # "command"
    BY <1>1, <2>1 DEF Cancel, EventsOf, IInv, EngineTypeOK, IsBusy, CommandsOf
  <2>3. events' = Append(events, e) /\ UNCHANGED <<engine, socket, asyncRequestCounter_, commands, misled>>
    BY <1>1, <2>1 DEF Cancel
  <2>4. QED
    BY <2>2, <2>3, QuietAppendAskInv
<1>2. CASE Answer
  <2>1. PICK nr \in 1..MaxRequests : SetAsyncRequestReply(nr)
    BY <1>2 DEF Answer
  <2>2. PICK e : e = [type |-> "reply", nr |-> nr]
    OBVIOUS
  <2>3. e \in EventsOf /\ e.type # "command"
    BY <2>1, <2>2 DEF EventsOf
  <2>4. events' = Append(events, e) /\ UNCHANGED <<engine, socket, asyncRequestCounter_, commands, misled>>
    BY <2>1, <2>2 DEF SetAsyncRequestReply, counters
  <2>5. QED
    BY <2>3, <2>4, QuietAppendAskInv
<1>3. CASE UNCHANGED vars
  <2>1. UNCHANGED <<currentCommand_, m_retryTimer, operations_, controlSocket_, asyncRequestCounter_, misled, events, commands>>
    BY <1>3 DEF vars, engine, socket, counters
  <2>2. QED
    BY <2>1 DEF AskInv, EventsOnce, CleanStart, TopWaits, Fresh, QueuedCommands, IsBusy, NoCommand
<1>4. QED
  BY <1>1, <1>2, <1>3, ExecuteAskInv, OnCommandEventAskInv, DoCancelAskInv, OnSetAsyncRequestReplyEventAskInv,
     OnTimerAskInv, OperationEndsAskInv, PushSubAskInv, SendAsyncRequestAskInv, ConnectionLostAskInv
     DEF Next, User, Loop, Connection

(* An operation is given only the answer to its own request: CallSetAsyncRequestReply knows
   the number of the last request and whether the operation on top of the stack waits,
   and that is enough for any number of requests, cancels and late answers, unless a
   leftover event has started one command twice. *)
THEOREM AnswersDoReachTheirRequest == Spec => AnswersReachTheirRequest
<1>1. Init => Counted /\ AskInv
  BY DEF Init, Counted, AskInv, EventsOnce, CleanStart, TopWaits, Fresh, QueuedCommands, IsBusy
<1>2. IInv /\ Counted /\ AskInv /\ [Next]_vars => Counted' /\ AskInv'
  BY NextCounted, NextAskInv
<1>3. AskInv => [OnSetAsyncRequestReplyEvent /\ operations_' # operations_ /\ ~misled
                    => Last(operations_).wait = Head(events).nr]_vars
  <2> SUFFICES ASSUME AskInv, OnSetAsyncRequestReplyEvent, operations_' # operations_, ~misled
               PROVE  Last(operations_).wait = Head(events).nr
    OBVIOUS
  <2>1. Head(events).nr = asyncRequestCounter_ /\ operations_ # <<>> /\ Last(operations_).wait > 0
    BY DEF OnSetAsyncRequestReplyEvent, IsPendingAsyncRequestReply, Awaiting
  <2>2. /\ Len(operations_) \in DOMAIN operations_ /\ Last(operations_) = operations_[Len(operations_)]
        /\ Last(operations_) \in OpsOf
    BY <2>1, TopStack DEF AskInv
  <2>3. Last(operations_).wait # 0
    BY <2>1
  <2>4. QED
    BY <2>1, <2>2, <2>3 DEF AskInv, TopWaits
<1>4. QED
  BY <1>1, <1>2, <1>3, InvariantHolds, PTL DEF Spec, AnswersReachTheirRequest
=============================================================================
