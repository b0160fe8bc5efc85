------------------------------- MODULE Engine -------------------------------
(***************************************************************************)
(* CFileZillaEnginePrivate (engine/engineprivate.cpp) with the operation   *)
(* stack of its control socket (engine/controlsocket.cpp).                 *)
(*                                                                         *)
(* The user interface, on its own thread, gives commands, cancels them and *)
(* answers requests.  Execute, Cancel and SetAsyncRequestReply only queue  *)
(* an event; the event loop handles the events in order, between them the  *)
(* timers and what happens on the connection.  An event does not say which *)
(* command it was sent for: it applies to whatever is current when it is   *)
(* dispatched.  The identities kept here are history.                      *)
(***************************************************************************)
EXTENDS Integers, Sequences, FiniteSets, SequencesExt

CONSTANTS
    ReconnectCount,  \* OPTION_RECONNECTCOUNT
    MaxCommands,     \* bound: commands accepted
    MaxCancels,      \* bound: calls of Cancel that queue an event
    MaxRequests,     \* bound: asynchronous requests
    MaxSubs,         \* bound: operations pushed by operations
    MaxDelays        \* bound: connection attempts delayed by a failure of another engine

ASSUME BoundsAssumption ==
    {ReconnectCount, MaxCommands, MaxCancels, MaxRequests, MaxSubs, MaxDelays} \subseteq Nat

VARIABLES
    currentCommand_,      \* the command being executed, or NoCommand
    controlSocket_,       \* whether there is a control socket
    operations_,          \* its stack of operations
    active_layer_,        \* whether it is connected or connecting
    m_retryTimer, m_retryCount,
    asyncRequestCounter_,
    events,               \* the queue of the event loop
    backlog,              \* how many of them were queued before the last operation began
    linkBacklog,          \* ... before the last connection attempt began
    replies,              \* history: the COperationNotifications, in order
    commands,             \* history: commands accepted
    attempts,             \* history: connection attempts of the command
    misled,               \* history: a command event was taken for a later command
    cancels, subs, delays \* what the bounds count

engine == <<currentCommand_, m_retryTimer, m_retryCount, replies>>
socket == <<controlSocket_, operations_, active_layer_>>
counters == <<commands, cancels, subs, delays>>
backlogs == <<backlog, linkBacklog>>
vars == <<engine, socket, asyncRequestCounter_, events, backlogs, counters, attempts, misled>>

CommandTypes == {"connect", "disconnect", "op"}
NoCommand == [type |-> "none", id |-> 0]
Ids == 1..MaxCommands

(* Of a reply code only what the two ResetOperation functions look at. *)
SubCodes == {"ok", "error"}     \* an operation with a parent continues with it
ConnectFailures == {"error", "disconnected"}   \* a connect may be retried
Codes == SubCodes \cup ConnectFailures \cup
         {"critical", "internalerror", "cancelled", "notconnected", "alreadyconnected", "syntaxerror"}

(* wait: the number of the request the operation waits for, 0 if
   waitForAsyncRequest is false. *)
Ops == [kind : {"connect", "op", "sub"}, id : Ids, wait : 0..MaxRequests]

TypeOK ==
    /\ currentCommand_ \in {NoCommand} \cup [type : CommandTypes, id : Ids]
    /\ controlSocket_ \in BOOLEAN /\ active_layer_ \in BOOLEAN
    /\ operations_ \in Seq(Ops)
    /\ m_retryTimer \in BOOLEAN /\ m_retryCount \in Nat
    /\ asyncRequestCounter_ \in 0..MaxRequests
    /\ events \in Seq([type : {"command", "cancel", "reply"}, nr : Nat])
    /\ replies \in Seq([id : Ids, code : Codes])
    /\ commands \in 0..MaxCommands /\ cancels \in 0..MaxCancels
    /\ backlog \in Nat /\ linkBacklog \in Nat /\ misled \in BOOLEAN
    /\ attempts \in Nat /\ subs \in 0..MaxSubs /\ delays \in 0..MaxDelays

Init ==
    /\ currentCommand_ = NoCommand
    /\ controlSocket_ = FALSE /\ operations_ = <<>> /\ active_layer_ = FALSE
    /\ m_retryTimer = FALSE /\ m_retryCount = 0
    /\ asyncRequestCounter_ = 0
    /\ events = <<>> /\ backlog = 0 /\ linkBacklog = 0
    /\ replies = <<>> /\ misled = FALSE
    /\ attempts = 0 /\ commands = 0 /\ cancels = 0 /\ subs = 0 /\ delays = 0

IsBusy == currentCommand_ # NoCommand

-----------------------------------------------------------------------------
(* The end of a command. *)

Reply(code) == replies' = Append(replies, [id |-> currentCommand_.id, code |-> code])

(* Mutant: one attempt too few. *)
RetriesLess(code) ==
    /\ code \in ConnectFailures
    /\ m_retryCount + 2 < ReconnectCount

Retries(code) ==
    /\ code \in ConnectFailures
    /\ m_retryCount + 1 < ReconnectCount

(* Mutant: the timer is not started. *)
ResetOperationNoTimer(code) ==
    \/ /\ ~IsBusy
       /\ UNCHANGED engine
    \/ /\ currentCommand_.type = "connect" /\ m_retryTimer
       /\ UNCHANGED engine
    \/ /\ currentCommand_.type = "connect" /\ ~m_retryTimer /\ Retries(code)
       /\ m_retryCount' = m_retryCount + 1
       /\ UNCHANGED <<currentCommand_, m_retryTimer, replies>>
    \/ /\ IsBusy
       /\ currentCommand_.type = "connect" => ~m_retryTimer /\ ~Retries(code)
       /\ Reply(code)
       /\ currentCommand_' = NoCommand
       /\ m_retryCount' = IF currentCommand_.type = "connect" /\ code \in ConnectFailures
                          THEN m_retryCount + 1 ELSE m_retryCount
       /\ UNCHANGED m_retryTimer

(* CFileZillaEnginePrivate::ResetOperation.  A connect waits for the retry
   timer instead of failing. *)
ResetOperation(code) ==
    \/ /\ ~IsBusy
       /\ UNCHANGED engine
    \/ /\ currentCommand_.type = "connect" /\ m_retryTimer
       /\ UNCHANGED engine
    \/ /\ currentCommand_.type = "connect" /\ ~m_retryTimer /\ Retries(code)
       /\ m_retryCount' = m_retryCount + 1
       /\ m_retryTimer' = TRUE
       /\ UNCHANGED <<currentCommand_, replies>>
    \/ /\ IsBusy
       /\ currentCommand_.type = "connect" => ~m_retryTimer /\ ~Retries(code)
       /\ Reply(code)
       /\ currentCommand_' = NoCommand
       /\ m_retryCount' = IF currentCommand_.type = "connect" /\ code \in ConnectFailures
                          THEN m_retryCount + 1 ELSE m_retryCount
       /\ UNCHANGED m_retryTimer

(* CControlSocket::ResetOperation: the operations that are left. *)
OperationsLeft(code) ==
    IF code \in SubCodes /\ Len(operations_) > 1 THEN Front(operations_) ELSE <<>>

SocketResetOperation(code) ==
    /\ operations_' = OperationsLeft(code)
    /\ IF operations_' = <<>> THEN ResetOperation(code) ELSE UNCHANGED engine

(* DoClose: everything on the stack ends. *)
DoClose(code) ==
    /\ active_layer_' = FALSE
    /\ SocketResetOperation(code)

-----------------------------------------------------------------------------
(* The user interface. *)

CheckCommandPreconditions(type) ==
    /\ type = "op" => controlSocket_
    /\ type = "connect" => ~controlSocket_

(* Mutant: another command is accepted before the first one has ended. *)
ExecuteWhenBusy(type) ==
    /\ CheckCommandPreconditions(type)
    /\ commands < MaxCommands
    /\ commands' = commands + 1
    /\ currentCommand_' = [type |-> type, id |-> commands']
    /\ events' = Append(events, [type |-> "command", nr |-> commands'])
    /\ attempts' = 0
    /\ UNCHANGED <<m_retryTimer, m_retryCount, replies, socket, asyncRequestCounter_,
                   cancels, subs, delays, backlogs, misled>>

Execute(type) ==
    /\ ~IsBusy /\ CheckCommandPreconditions(type)
    /\ commands < MaxCommands
    /\ commands' = commands + 1
    /\ currentCommand_' = [type |-> type, id |-> commands']
    /\ events' = Append(events, [type |-> "command", nr |-> commands'])
    /\ attempts' = 0
    /\ UNCHANGED <<m_retryTimer, m_retryCount, replies, socket, asyncRequestCounter_,
                   cancels, subs, delays, backlogs, misled>>

Cancel ==
    /\ IsBusy /\ cancels < MaxCancels
    /\ cancels' = cancels + 1
    /\ events' = Append(events, [type |-> "cancel", nr |-> currentCommand_.id])
    /\ UNCHANGED <<engine, socket, asyncRequestCounter_, commands, subs, delays, attempts, backlogs, misled>>

(* Mutant: any request that was ever made may be answered. *)
IsPendingAsyncRequestReplyAny(nr) == IsBusy

IsPendingAsyncRequestReply(nr) == IsBusy /\ nr = asyncRequestCounter_

(* The user interface answers a request once, possibly after the command, or
   the connection, that asked is gone. *)
SetAsyncRequestReply(nr) ==
    /\ IsPendingAsyncRequestReply(nr)
    /\ \A i \in DOMAIN events : events[i] # [type |-> "reply", nr |-> nr]
    /\ events' = Append(events, [type |-> "reply", nr |-> nr])
    /\ UNCHANGED <<engine, socket, asyncRequestCounter_, counters, attempts, backlogs, misled>>

-----------------------------------------------------------------------------
(* The event loop. *)

NewOp(kind, id) == [kind |-> kind, id |-> id, wait |-> 0]

(* A control socket for the protocol is created and connects, unless the server
   must not be contacted yet or the protocol is not supported.  timer and count
   are what the caller has left of m_retryTimer and m_retryCount. *)
ContinueConnect(timer, count) ==
    /\ m_retryCount' = count
    /\ \/ /\ delays < MaxDelays
          /\ delays' = delays + 1
          /\ m_retryTimer' = TRUE
          /\ controlSocket_' = FALSE /\ operations_' = <<>> /\ active_layer_' = FALSE
          /\ UNCHANGED <<currentCommand_, replies, attempts>>
       \/ /\ controlSocket_' = TRUE
          /\ operations_' = <<NewOp("connect", currentCommand_.id)>>
          /\ active_layer_' = TRUE
          /\ attempts' = attempts + 1
          /\ m_retryTimer' = timer
          /\ UNCHANGED <<currentCommand_, replies, delays>>
       \/ /\ controlSocket_' = FALSE /\ operations_' = <<>> /\ active_layer_' = FALSE
          /\ m_retryTimer' = timer
          /\ IF timer THEN UNCHANGED <<currentCommand_, replies>>
                      ELSE Reply("syntaxerror") /\ currentCommand_' = NoCommand
          /\ UNCHANGED <<delays, attempts>>

Connect ==
    /\ currentCommand_.type = "connect"
    /\ \/ controlSocket_ /\ ResetOperation("alreadyconnected") /\ UNCHANGED <<socket, delays, attempts>>
       \/ ~controlSocket_ /\ ContinueConnect(m_retryTimer, 0)

(* The socket's own DoClose already ends the command. *)
Disconnect ==
    /\ currentCommand_.type = "disconnect"
    /\ ResetOperation(IF controlSocket_ THEN "disconnected" ELSE "ok")
    /\ controlSocket_' = FALSE /\ operations_' = <<>> /\ active_layer_' = FALSE
    /\ UNCHANGED <<delays, attempts>>

(* Push: a control socket that has lost its connection reconnects first. *)
Pushed(id) ==
    IF operations_ = <<>> /\ ~active_layer_
    THEN <<NewOp("op", id), NewOp("connect", id)>>
    ELSE Append(operations_, NewOp("op", id))

(* All the other commands.  A listing may be answered from the cache. *)
Perform ==
    /\ currentCommand_.type = "op"
    /\ \/ ~controlSocket_ /\ ResetOperation("notconnected") /\ UNCHANGED socket
       \/ controlSocket_ /\ ResetOperation("ok") /\ UNCHANGED socket
       \/ /\ controlSocket_
          /\ operations_' = Pushed(currentCommand_.id)
          /\ active_layer_' = TRUE
          /\ UNCHANGED <<engine, controlSocket_>>
    /\ UNCHANGED <<delays, attempts>>

Less(n) == IF n > 0 THEN n - 1 ELSE 0

(* What happens to an operation or a connection is queued like everything else:
   it is handled after all that was in the queue when they began. *)
Backlog ==
    /\ backlog' = IF Len(operations_') > Len(operations_) THEN Len(events') ELSE Less(backlog)
    /\ linkBacklog' = IF active_layer_' /\ ~active_layer_ THEN Len(events') ELSE Less(linkBacklog)

Dispatch(type) ==
    /\ events # <<>> /\ Head(events).type = type
    /\ events' = Tail(events)

OnCommandEvent ==
    /\ Dispatch("command")
    /\ \/ ~IsBusy /\ UNCHANGED <<engine, socket, delays, attempts>>
       \/ Connect \/ Disconnect \/ Perform
    /\ Backlog
    /\ misled' = (misled \/ (IsBusy /\ currentCommand_.id # Head(events).nr))
    /\ UNCHANGED <<asyncRequestCounter_, commands, cancels, subs>>

(* CControlSocket::Cancel.  Only a connection attempt, and every operation of an
   SFTP control socket, is cancelled by closing the connection. *)
SocketCancel ==
    \/ operations_ = <<>> /\ UNCHANGED <<engine, socket>>
    \/ /\ operations_ # <<>>
       /\ DoClose("cancelled")
       /\ UNCHANGED controlSocket_
    \/ /\ operations_ # <<>> /\ Last(operations_).kind # "connect"
       /\ SocketResetOperation("cancelled")
       /\ UNCHANGED <<controlSocket_, active_layer_>>

(* Mutant: the timer goes on. *)
CancelRetryKeepsTimer ==
    /\ IsBusy /\ m_retryTimer
    /\ Reply("cancelled")
    /\ currentCommand_' = NoCommand
    /\ controlSocket_' = FALSE /\ operations_' = <<>> /\ active_layer_' = FALSE
    /\ UNCHANGED <<m_retryTimer, m_retryCount>>

(* The control socket is destroyed before the timer is stopped: what its
   destructor makes of the command comes to nothing. *)
CancelRetry ==
    /\ IsBusy /\ m_retryTimer
    /\ Reply("cancelled")
    /\ currentCommand_' = NoCommand
    /\ m_retryTimer' = FALSE
    /\ controlSocket_' = FALSE /\ operations_' = <<>> /\ active_layer_' = FALSE
    /\ UNCHANGED m_retryCount

DoCancel ==
    /\ Dispatch("cancel")
    /\ \/ ~IsBusy /\ UNCHANGED <<engine, socket>>
       \/ CancelRetry
       \/ IsBusy /\ ~m_retryTimer /\ controlSocket_ /\ SocketCancel
       \/ IsBusy /\ ~m_retryTimer /\ ~controlSocket_ /\ ResetOperation("cancelled") /\ UNCHANGED socket
    /\ Backlog
    /\ UNCHANGED <<asyncRequestCounter_, counters, attempts, misled>>

OnTimer ==
    /\ m_retryTimer
    /\ \/ /\ currentCommand_.type = "connect"
          /\ ContinueConnect(FALSE, m_retryCount)
          /\ backlog' = Len(events) /\ linkBacklog' = Len(events)
       \/ /\ currentCommand_.type # "connect"
          /\ m_retryTimer' = FALSE
          /\ UNCHANGED <<currentCommand_, m_retryCount, replies, socket, delays, attempts, backlogs>>
    /\ UNCHANGED <<asyncRequestCounter_, events, commands, cancels, subs, misled>>

(* CallSetAsyncRequestReply: only an operation that waits is given the reply. *)
Awaiting == operations_ # <<>> /\ Last(operations_).wait > 0

OnSetAsyncRequestReplyEvent ==
    /\ Dispatch("reply")
    /\ IF controlSocket_ /\ IsPendingAsyncRequestReply(Head(events).nr) /\ Awaiting
       THEN operations_' = [operations_ EXCEPT ![Len(operations_)].wait = 0]
       ELSE UNCHANGED operations_
    /\ UNCHANGED <<engine, controlSocket_, active_layer_, asyncRequestCounter_, counters, attempts, misled>>
    /\ Backlog

-----------------------------------------------------------------------------
(* What happens on the connection. *)

Running == operations_ # <<>> /\ Last(operations_).wait = 0 /\ backlog = 0

(* The operation on top of the stack ends.  A connection attempt that fails
   closes the connection. *)
OperationEnds(code) ==
    /\ Running
    /\ Last(operations_).kind = "connect" => code # "error"
    /\ \/ code \in SubCodes \cup {"internalerror"} /\ SocketResetOperation(code) /\ UNCHANGED active_layer_
       \/ code = "critical" /\ DoClose(code)
    /\ UNCHANGED <<controlSocket_, asyncRequestCounter_, events, counters, attempts, backlogs, misled>>

PushSub ==
    /\ Running /\ Last(operations_).kind = "op"
    /\ subs < MaxSubs
    /\ subs' = subs + 1
    /\ operations_' = Append(operations_, NewOp("sub", Last(operations_).id))
    /\ UNCHANGED <<engine, controlSocket_, active_layer_, asyncRequestCounter_, events,
                   commands, cancels, delays, attempts, backlogs, misled>>

SendAsyncRequest ==
    /\ Running
    /\ asyncRequestCounter_ < MaxRequests
    /\ asyncRequestCounter_' = asyncRequestCounter_ + 1
    /\ operations_' = [operations_ EXCEPT ![Len(operations_)].wait = asyncRequestCounter_']
    /\ UNCHANGED <<engine, controlSocket_, active_layer_, events, counters, attempts, backlogs, misled>>

(* The connection is lost, or times out, whatever is going on. *)
ConnectionLost ==
    /\ controlSocket_ /\ active_layer_ /\ linkBacklog = 0
    /\ DoClose("disconnected")
    /\ UNCHANGED <<controlSocket_, asyncRequestCounter_, events, counters, attempts, backlogs, misled>>

User == (\E type \in CommandTypes : Execute(type)) \/ Cancel
Answer == \E nr \in 1..MaxRequests : SetAsyncRequestReply(nr)
Loop == OnCommandEvent \/ DoCancel \/ OnSetAsyncRequestReplyEvent
Connection == (\E code \in Codes : OperationEnds(code)) \/ PushSub \/ SendAsyncRequest

Next == User \/ Answer \/ Loop \/ OnTimer \/ Connection \/ ConnectionLost

(* Events and timers are handled; an operation ends, asks for something or
   hands over to another one within the bounds (CControlSocket::OnTimer ends one
   whose server says nothing); the user answers, or nothing would end. *)
Fairness ==
    /\ WF_vars(Loop) /\ WF_vars(OnTimer) /\ WF_vars(Connection)
    /\ WF_vars(Answer)

Spec == Init /\ [][Next]_vars /\ Fairness

-----------------------------------------------------------------------------
(* The properties. *)

(* Every command accepted by Execute is answered by exactly one
   COperationNotification, in order, and it is current until then. *)
OneReplyPerCommand ==
    /\ \A i \in DOMAIN replies : replies[i].id = i
    /\ commands = Len(replies) + (IF IsBusy THEN 1 ELSE 0)
    /\ IsBusy => currentCommand_.id = commands

(* The retry timer runs only for the connect that waits for it: nothing else
   can become current while it runs. *)
RetryTimerHasConnect == m_retryTimer => currentCommand_.type = "connect"

(* A connect that fails without a critical error has made all the attempts it
   was to make: an attempt that was only delayed does not count as one.  The
   command is one with RetryConnecting(). *)
AllAttemptsMade ==
    [][\A code \in ConnectFailures :
          /\ currentCommand_.type = "connect"
          /\ Len(replies') > Len(replies) /\ Last(replies').code = code
          => attempts >= ReconnectCount]_vars

(* An answer reaches the operation that asked for it, or none, not one that was
   started after the request was made, with the same exception. *)
AnswersReachTheirRequest ==
    [][OnSetAsyncRequestReplyEvent /\ operations_' # operations_ /\ ~misled
          => Last(operations_).wait = Head(events).nr]_vars

(* The command being executed and the numbers of those answered are what Commands
   promises: whatever is cancelled, lost, retried or answered late, each command
   is answered once, in order, and at last. *)
answers == [i \in DOMAIN replies |-> replies[i].id]
C == INSTANCE Commands WITH pending <- currentCommand_.id, answers <- answers
ImplementsCommands == C!Spec

(* "Will be returned by connect if already connected": only if there was a
   connection before. *)
AlreadyConnectedOnlyIfConnected ==
    \A i \in DOMAIN replies : replies[i].code # "alreadyconnected"
=============================================================================
