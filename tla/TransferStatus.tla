--------------------------- MODULE TransferStatus ---------------------------
(***************************************************************************)
(* CTransferStatusManager (engine/engineprivate.cpp): how the progress of  *)
(* a transfer gets from the thread that moves the data to the status line  *)
(* of the user interface.  Update, called for every piece of data, adds to *)
(* an atomic counter without taking the mutex; it takes the mutex only if  *)
(* the counter was zero, and sends a notification only if send_state_ says *)
(* that nobody polls.  A notification makes the user interface poll with   *)
(* Get until Get says that nothing has changed.                            *)
(*                                                                         *)
(* Notifications go through the list of the engine: the user interface is  *)
(* told when the first one is added, and then asks for them until there is *)
(* none left; only then it has to be told again.                           *)
(*                                                                         *)
(* Besides the user interface, the control socket calls Get too: once      *)
(* when a transfer ends, and an SFTP control socket for every progress     *)
(* message of its subprocess.                                              *)
(***************************************************************************)
EXTENDS Integers, Sequences

CONSTANTS
    Kinds,        \* the kinds of transfer that occur
    MaxUpdates,   \* bound: calls of Update in a transfer
    MaxInits      \* bound: calls of Init

AllKinds == {"list", "download", "upload", "sftp_download"}

ASSUME KindsAssumption == Kinds \subseteq AllKinds
ASSUME BoundsAssumption == MaxUpdates \in Nat /\ MaxInits \in Nat

VARIABLES
    status_, currentOffset_, send_state_, made_progress_,
    kind,             \* what is being transferred, or "none"
    ending,           \* how far ResetOperation has come: "no", "logged", "cleared"
    m_madeProgress,   \* of the transfer socket: 1 after the first EAGAIN, 2 after data
    updater,          \* where the thread that calls Update is
    notification,     \* what it is about to send
    sum,              \* history: units of data of the present transfer
    queue,            \* m_NotificationList: the status notifications in it
    m_maySendNotificationEvent,
    told,             \* an event of notification_cb_ is queued for the user interface
    asking,           \* the user interface calls GetNextNotification until it gets none
    shown,            \* CStatusLineCtrl::status_
    timer,            \* m_transferStatusTimer is running
    inits             \* calls of Init

manager == <<status_, currentOffset_, send_state_, made_progress_>>
list == <<queue, m_maySendNotificationEvent, told, asking>>
ui == <<list, shown, timer>>
vars == <<manager, kind, ending, m_madeProgress, updater, notification, sum, ui, inits>>

(* A CTransferStatus, with the number of the transfer it belongs to. *)
Statuses == [open : BOOLEAN, offset : 0..MaxUpdates, made : BOOLEAN, nr : 0..MaxInits]
NoStatus == [open |-> FALSE, offset |-> 0, made |-> FALSE, nr |-> 0]
NewStatus(n) == [open |-> TRUE, offset |-> 0, made |-> FALSE, nr |-> n]

TypeOK ==
    /\ status_ \in Statuses /\ currentOffset_ \in 0..MaxUpdates
    /\ send_state_ \in 0..2 /\ made_progress_ \in BOOLEAN
    /\ kind \in AllKinds \cup {"none"} /\ ending \in {"no", "logged", "cleared"} /\ m_madeProgress \in 0..2
    /\ updater \in {"idle", "lock", "send"} /\ notification \in Statuses
    /\ sum \in 0..MaxUpdates /\ queue \in Seq(Statuses)
    /\ m_maySendNotificationEvent \in BOOLEAN /\ told \in BOOLEAN /\ asking \in BOOLEAN
    /\ shown \in Statuses /\ timer \in BOOLEAN
    /\ inits \in 0..MaxInits

Start ==
    /\ status_ = NoStatus /\ currentOffset_ = 0
    /\ send_state_ = 0 /\ made_progress_ = FALSE
    /\ kind = "none" /\ ending = "no" /\ m_madeProgress = 0
    /\ updater = "idle" /\ notification = NoStatus
    /\ sum = 0 /\ queue = <<>>
    /\ m_maySendNotificationEvent = TRUE /\ told = FALSE /\ asking = FALSE
    /\ shown = NoStatus /\ timer = FALSE
    /\ inits = 0

AddNotification(status) ==
    /\ queue' = Append(queue, status)
    /\ told' = (told \/ m_maySendNotificationEvent)
    /\ m_maySendNotificationEvent' = FALSE
    /\ UNCHANGED asking

-----------------------------------------------------------------------------
(* The control socket.  No data is moved while it starts or ends a transfer, but
   the writer of an SFTP download goes with the operation, after its result has
   been logged. *)

(* Mutant: what the previous transfer left in the counter is kept. *)
InitKeepsCounter(k) ==
    /\ updater = "idle" /\ inits < MaxInits /\ ending = "no"
    /\ kind = "list" \/ (kind = "none" /\ queue = <<>>)
    /\ status_' = NewStatus(inits + 1)
    /\ made_progress_' = FALSE
    /\ kind' = k /\ m_madeProgress' = 0 /\ sum' = 0
    /\ inits' = inits + 1
    /\ UNCHANGED <<currentOffset_, send_state_, ending, updater, notification, ui>>

(* A new transfer.  A first one begins after the user interface has seen the
   end of the previous one; another one may follow a listing in the same operation, as
   the file does that needs the listing. *)
Init(k) ==
    /\ updater = "idle" /\ inits < MaxInits /\ ending = "no"
    /\ kind = "list" \/ (kind = "none" /\ queue = <<>>)
    /\ status_' = NewStatus(inits + 1)
    /\ currentOffset_' = 0
    /\ made_progress_' = FALSE
    /\ kind' = k /\ m_madeProgress' = 0 /\ sum' = 0
    /\ inits' = inits + 1
    /\ UNCHANGED <<send_state_, ending, updater, notification, ui>>

(* What Reset makes of send_state_. *)
InitialState == 0

(* The state after Get, and what it returns. *)
Absorbed == [status_ EXCEPT !.offset = @ + currentOffset_]

Changed == status_.open /\ send_state_ = 2

(* Mutant: the counter is read, but not reset. *)
GetKeepsCounter ==
    /\ status_' = IF status_.open THEN Absorbed ELSE status_
    /\ send_state_' = IF Changed THEN 1 ELSE 0
    /\ UNCHANGED <<currentOffset_, made_progress_>>

Get ==
    /\ status_' = IF status_.open THEN Absorbed ELSE status_
    /\ currentOffset_' = IF status_.open THEN 0 ELSE currentOffset_
    /\ send_state_' = IF Changed THEN 1 ELSE 0
    /\ UNCHANGED made_progress_

(* ResetOperation, in three steps: the user interface may call Get between them.
   LogTransferResultMessage calls Get when the operation is a transfer, which may
   not have come further than a listing. *)
LogTransferResultMessage ==
    /\ kind # "none" /\ ending = "no" /\ (updater = "idle" \/ kind = "sftp_download")
    /\ Get
    /\ ending' = "logged"
    /\ UNCHANGED <<kind, m_madeProgress, updater, notification, sum, ui, inits>>

(* Reset, with the mutex.  When a listing ends, nothing is logged before. *)
Reset ==
    /\ kind # "none" /\ updater = "idle"
    /\ ending = "logged" \/ (ending = "no" /\ kind = "list")
    /\ status_' = NoStatus
    /\ send_state_' = InitialState
    /\ ending' = "cleared"
    /\ UNCHANGED <<currentOffset_, made_progress_, kind, m_madeProgress, updater, notification, sum, ui, inits>>

(* ... and after the mutex has been released. *)
ResetNotify ==
    /\ ending = "cleared"
    /\ AddNotification(NoStatus)
    /\ ending' = "no" /\ kind' = "none"
    /\ UNCHANGED <<manager, m_madeProgress, updater, notification, sum, shown, timer, inits>>

(* sftpEvent::Transfer during a download. *)
OnSftpTransfer ==
    /\ kind = "sftp_download" /\ ending = "no"
    /\ status_' = Absorbed
    /\ currentOffset_' = 0
    /\ send_state_' = IF Changed THEN 1 ELSE 0
    /\ made_progress_' \in {made_progress_, TRUE}
    /\ UNCHANGED <<kind, ending, m_madeProgress, updater, notification, sum, ui, inits>>

(* An upload cannot send for the first time. *)
WouldBlock ==
    /\ kind = "upload" /\ updater = "idle" /\ ending = "no"
    /\ m_madeProgress = 0
    /\ m_madeProgress' = 1
    /\ made_progress_' = TRUE
    /\ UNCHANGED <<status_, currentOffset_, send_state_, kind, ending, updater, notification, sum, ui, inits>>

-----------------------------------------------------------------------------
(* Data has been moved: SetMadeProgress where it is called, then Update. *)

(* currentOffset_.fetch_add, without the mutex. *)
UpdateAdd ==
    /\ kind # "none" /\ updater = "idle" /\ sum < MaxUpdates
    /\ ending = "no" \/ (ending = "logged" /\ kind = "sftp_download")
    /\ sum' = sum + 1
    /\ currentOffset_' = currentOffset_ + 1
    /\ made_progress_' = (made_progress_ \/ kind # "upload" \/ m_madeProgress = 1)
    /\ m_madeProgress' = IF kind = "upload" /\ m_madeProgress = 1 THEN 2 ELSE m_madeProgress
    /\ updater' = IF currentOffset_ = 0 THEN "lock" ELSE "idle"
    /\ UNCHANGED <<status_, send_state_, kind, ending, notification, ui, inits>>

(* Mutant: the state is set only together with the notification. *)
UpdateStateQuiet == IF send_state_ = 0 THEN 2 ELSE send_state_

UpdateState == 2

(* The part with the mutex. *)
UpdateLocked ==
    /\ updater = "lock"
    /\ IF status_.open /\ send_state_ = 0
       THEN /\ status_' = [Absorbed EXCEPT !.made = made_progress_]
            /\ currentOffset_' = 0
            /\ notification' = status_'
            /\ updater' = "send"
       ELSE /\ updater' = "idle"
            /\ UNCHANGED <<status_, currentOffset_, notification>>
    /\ send_state_' = IF status_.open THEN UpdateState ELSE send_state_
    /\ UNCHANGED <<made_progress_, kind, ending, m_madeProgress, sum, ui, inits>>

(* AddNotification, after the mutex has been released. *)
UpdateSend ==
    /\ updater = "send"
    /\ AddNotification(notification)
    /\ updater' = "idle"
    /\ UNCHANGED <<manager, kind, ending, m_madeProgress, notification, sum, shown, timer, inits>>

-----------------------------------------------------------------------------
(* The user interface: SetTransferStatus, and the timer that polls. *)

(* Mutant: the timer is not started. *)
SetTransferStatusOnly(status) ==
    /\ shown' = status
    /\ timer' = (timer /\ status.open)

SetTransferStatus(status) ==
    /\ shown' = status
    /\ timer' = status.open

(* The event of notification_cb_ is handled. *)
OnEngineEvent ==
    /\ told /\ ~asking
    /\ told' = FALSE /\ asking' = TRUE
    /\ UNCHANGED <<manager, kind, ending, m_madeProgress, updater, notification, sum, queue,
                   m_maySendNotificationEvent, shown, timer, inits>>

(* GetNextNotification returns one. *)
OnNotification ==
    /\ asking /\ queue # <<>>
    /\ SetTransferStatus(Head(queue))
    /\ queue' = Tail(queue)
    /\ UNCHANGED <<manager, kind, ending, m_madeProgress, updater, notification, sum,
                   m_maySendNotificationEvent, told, asking, inits>>

(* Mutant: the flag stays as it is when the list is empty. *)
NoMoreNotificationsQuiet ==
    /\ asking /\ queue = <<>>
    /\ asking' = FALSE
    /\ UNCHANGED <<manager, kind, ending, m_madeProgress, updater, notification, sum, queue,
                   m_maySendNotificationEvent, told, shown, timer, inits>>

(* It returns none. *)
NoMoreNotifications ==
    /\ asking /\ queue = <<>>
    /\ asking' = FALSE /\ m_maySendNotificationEvent' = TRUE
    /\ UNCHANGED <<manager, kind, ending, m_madeProgress, updater, notification, sum, queue, told, shown, timer, inits>>

OnTimer ==
    /\ timer
    /\ Get
    /\ \/ (~status_.open \/ Changed) /\ SetTransferStatus(status_')
       \/ status_.open /\ ~Changed /\ timer' = FALSE /\ UNCHANGED shown
    /\ UNCHANGED <<kind, ending, m_madeProgress, updater, notification, sum, list, inits>>

Next ==
    \/ \E k \in Kinds : Init(k)
    \/ LogTransferResultMessage \/ Reset \/ ResetNotify
    \/ OnSftpTransfer \/ WouldBlock
    \/ UpdateAdd \/ UpdateLocked \/ UpdateSend
    \/ OnEngineEvent \/ OnNotification \/ NoMoreNotifications \/ OnTimer

(* Calls of Update and of ResetOperation that have begun come to their ends; the
   user interface handles its notifications and timers.  Nothing is assumed about
   the transfer. *)
Fairness ==
    /\ WF_vars(UpdateLocked) /\ WF_vars(UpdateSend)
    /\ WF_vars(ending # "no" /\ Reset) /\ WF_vars(ResetNotify)
    /\ WF_vars(OnEngineEvent \/ OnNotification \/ NoMoreNotifications) /\ WF_vars(OnTimer)

Spec == Start /\ [][Next]_vars /\ Fairness

-----------------------------------------------------------------------------
(* The properties. *)

(* Nothing that was counted is lost or counted twice. *)
EverythingCounted == status_.open => status_.offset + currentOffset_ = sum

(* Data still in the atomic counter will be fetched: either send_state_ asks
   for another poll, or an Update is about to take the mutex. *)
CounterIsWatched ==
    status_.open /\ currentOffset_ > 0 => send_state_ = 2 \/ updater = "lock"

(* A notification in the list will be fetched: the user interface has been told,
   or is asking already.  It is told only once for any number of notifications,
   and one may be added while it asks for the last. *)
NotificationsFetched == queue # <<>> => told \/ asking

(* "changed will be set to true if the data has been updated compared to the
   last time GetTransferStatus was called": a poll that says that nothing has
   changed leaves nothing to be shown, unless an Update is in progress, which will
   send a notification.  This holds of listings, downloads and uploads with FTP,
   where nobody but the user interface calls Get, until the transfer has ended:
   LogTransferResultMessage takes the last change away, and before Reset closes
   the status a poll may miss it. *)
FtpChangedIfUpdated ==
    [][OnTimer /\ ~Changed /\ status_.open /\ updater = "idle" /\ kind # "sftp_download" /\ ending = "no"
          => shown.offset = status_'.offset \/ shown.nr # status_.nr]_vars

(* Whatever has been transferred with FTP is shown at some time, also if no more
   data comes. *)
ShownCatchesUp ==
    \A n \in 1..MaxUpdates :
        (status_.open /\ kind # "sftp_download" /\ sum = n) ~> (~status_.open \/ sum # n \/ (shown.nr = status_.nr /\ shown.offset = n))
=============================================================================
