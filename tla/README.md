# FileZilla client: TLA+ specifications of the engine

This directory holds TLA+ models of the transfer engine of the FileZilla client
(`src/src/engine` and the headers in `src/src/include`), TLC configurations that
check them on small instances, and TLAPS proofs of the properties that should hold
for every instance. Paths below are relative to `src/src/engine` unless they start
with `src/`.

`PROJECT.json` lists the components, the runs, the mutants that show that each
property can fail, the source lines behind each definition, the hazards, the findings
and the theorems.

## 1. The system

A FileZilla process has one `CFileZillaEngineContext` and several engines. The user
interface gives an engine one command at a time and learns of its end through a
notification. An engine owns at most one control socket, which runs a stack of
operations. Everything of an engine happens on an event loop thread, except:

- calls of the user interface (`Execute`, `Cancel`, `SetAsyncRequestReply`,
  `GetTransferStatus`, `GetNextNotification`) come from its own thread;
- each file writer and reader has a worker thread;
- engines may run on different event loops and share the lock table, the directory
  and path caches, and the list of failed logins.

| Component | State | Operations | Hard behaviour | Module |
|---|---|---|---|---|
| Operation locks (`oplock_manager.cpp`) | table of locks per control socket; handles are indices | Lock, Unlock, Wakeup, ObtainWaiting | index handles into shrinking vectors, lost wakeups, mutual waiting | `OpLockManager`, `OpLockClients` |
| File writer (`writer.cpp`) | ring of buffers, flags, a worker thread | get_write_buffer, retire, finalize, close | two threads share a ring without holding the mutex during I/O | `AioWriter` |
| File reader (`reader.cpp`) | the same, with read position | read, seek, close | read ahead, seek during a read | `AioReader` |
| Transfer status (`engineprivate.cpp` 849-949) and notifications (161-195) | status, atomic counter, `send_state_`; list of notifications, `m_maySendNotificationEvent` | Init, Update, Get, Reset, SetMadeProgress; AddNotification, GetNextNotification | lock-free counter, polling that stops itself; flag and list must agree | `TransferStatus` |
| Engine (`engineprivate.cpp`) with the operation stack (`controlsocket.cpp`) | current command, retry timer, control socket, operations, event queue | Execute, Cancel, SetAsyncRequestReply, event handlers, ResetOperation | events that outlive their command, retry, cancel, late answers | `Engine`, which implements `Commands` |
| FTP control connection and raw transfers (`ftp/ftpcontrolsocket.cpp`, `ftp/rawtransfer.cpp`) | replies due and to skip, type and restart offset last sent, state of the transfer | SendCommand, ParseResponse, TransferEnd, keep-alive, cancel, fallback PASV/PORT | answers carry no identity; two connections end in any order | `FtpTransfer` |
| FTP data connection (`ftp/transfersocket.cpp`) | socket, postponed events, buffer, end reason | setup, OnReceive, OnSend, OnAccept, OnConnect, finalize, TransferEnd | edge-triggered events, backpressure, TLS session resumption | `TransferSocket` |
| ASCII conversion (`ftp/transfersocket.cpp` 27-190) | one bit between buffers | transform on write, read | buffer boundaries | `AsciiTransfer` |
| Directory cache (`directorycache.cpp`) | listings with unsure flags and ages, list in order of use, number of files | Store, Lookup, InvalidateFile, UpdateFile, RemoveFile, RemoveDir, Rename, Prune | shared by all engines, listings stale when used | `DirectoryCache` |
| FTP file operations (`ftp/list.cpp`, `delete.cpp`, `rename.cpp`, `rmd.cpp`, `mkd.cpp`, `chmod.cpp`, `rawcommand.cpp`) | state of the operation, lock, what was sent | Send, ParseResponse, SubcommandResult, Reset | the server acts between the call and the reply, or after the connection was lost; other engines in between | `FileOperations` |
| FTP file transfer (`ftp/filetransfer.cpp`) with overwrite decisions (`controlsocket.cpp`: `CheckOverwriteFile`, `SetFileExistsAction`) | sizes, resume flag, capabilities of the server | listing, SIZE, MDTM, question, test of resuming, transfer | decisions from old data; servers that count wrongly from 2 or 4 GB on | `FileTransfer` |
| Path cache, FTP logon, SFTP, HTTP, Storj | | | | not modelled, see section 8 |
| User interface, transfer queue, settings, parsers, vendored code | | | | not modelled, see section 8 |

How they interact: a command makes the engine push an operation on its control
socket; a listing, a change of directory or a new directory first takes an operation
lock; every operation that changes remote files tells the directory cache, before its
command, with its reply or both; a file transfer decides by the cache what it will find,
asks the user, opens a writer or reader, then pushes a raw transfer that creates a
data connection; the data connection moves buffers between its socket and the writer
or reader, counts bytes in the transfer status, and sends a `TransferEndEvent` to the
control socket; the operation ends with a result that pops it, and the last one ends
the command in `CFileZillaEnginePrivate::ResetOperation`.

## 2. Modules

Each `MC...` module only extends the module it checks and gives values to constants;
the `.cfg` files hold the bounds. The proofs of a component are in a `...Proofs` module;
`TransferProofs` has those of `TransferSocket`, `TransferStatus` and `AsciiTransfer`, so the
first and the last of these name their specifications `SocketSpec` and `AsciiSpec`. The paragraphs say how state and actions correspond
to the code.

**OpLockManager.** `socket_locks_` is the two-level vector as a sequence of records,
`handles` the `OpLock` objects alive as triples (socket, index, index), `events` the
number of queued obtain events of each socket. `Lock`, `Unlock` and `OnObtainLock`
are atomic because the code holds the mutex throughout. Whether paths conflict
(`inclusive` locks cover subdirectories) is the operator `Conflicts` over a constant
`ParentOf`. The removal of trailing entries and the released ones that stay in the middle are kept,
since they are what makes the index handles delicate.

**OpLockClients** extends it with the operations that take locks: a list, mkd or cwd
operation per socket, and the mkd that a failed cwd pushes on top of itself. Its run
checks the table too. The operations of a socket end in reverse order, so these callers
never release a lock in the middle of its vector (`oplock_manager.cpp:126-129`); that
calls in any order are right is what the proofs about `OpLockManager` show.

**AioWriter**, **AioReader.** The mutex is a lock held over whole calls of the client
and over the worker's section between waits; a write or read of the file happens
without it, in a step of its own, and may be partial or fail. The condition variable
remembers a signal (`signalled_`), as that of libfilezilla does. The content of a file
is the sequence 1, 2, 3, ..., so "in order, nothing missing, nothing twice" is visible
in the result. The client is the data connection: it follows the protocol of
`transfersocket.cpp` (wait for the event after `aio_result::wait`, and finalize again).

**TransferStatus.** `UpdateAdd` is the atomic `fetch_add`, `UpdateLocked` the part
under the mutex, `UpdateSend` the notification sent after it: other threads run
between them. So do they between the steps with which an operation ends (`ending`):
`LogTransferResultMessage` calls `Get`, `Reset` clears the status under the mutex,
`ResetNotify` sends the notification. `OnNotification` and `OnTimer` are the status line
(`src/src/interface/statuslinectrl.cpp`) that starts to poll and polls. `OnSftpTransfer`
is the progress message of an SFTP connection. `queue` is `m_NotificationList`; `AddNotification` tells the user interface (`told`)
only if the flag allows it, the user interface then asks until nothing is left
(`asking`), and `GetNextNotification` sets the flag again when it finds the list empty.

**Engine.** `events` is the event queue of the engine; commands, cancels and answers
are appended by the user interface and dispatched in order. The commands carry
numbers only as history, the events of the code have none. The protocol is abstract:
an operation ends with any result, pushes a sub-operation, asks the user, or the
connection is lost. `ResetOperation` (engine) and `SocketResetOperation` (control
socket) are the two halves of the code path that ends a command. `misled` records that
a leftover command event (finding 1) was taken for another command;
`AnswersReachTheirRequest` is stated for behaviours without it, the others hold in all.

**Commands** is the abstract specification of an engine, as the interface in
`src/src/include` presents it: a command is accepted when none is being executed and is
answered once, in order, at last. `Engine` instantiates it with `pending` the number of
`currentCommand_` and `answers` those of the replies sent, and checks the abstract
specification as a property (`ImplementsCommands`), liveness included.

**FtpTransfer.** `m_pendingReplies` and `m_repliesToSkip` are counters as in the code;
commands and answers travel in order in `commands` and `replies`, and carry the
operation and command as history only. A command with a name in it may fail to be converted
to the server's charset (`SendNamed`). Each state of `CFtpRawTransferOpData` is kept
(init, type, port_pasv, rest, transfer, waitfinish, waittransferpre, waittransfer,
waitsocket). The data connection is `m_pTransferSocket` with its end event, in any
order with the answers. Answers are single lines; the bytes of the data connection are
in `TransferSocket`.

**TransferSocket.** `readEvents` and `writeEvents` are the socket events in the event loop's
queue, told apart by who sent them: the socket, the handler itself, or `set_event_handler`, which
sends a write event when `OnAccept` takes over a connection without TLS, on which `OnConnect` then
calls `OnSend` as well. `handler_waiting_` and `aioEvents` are the wait for the writer or reader
and its event. `waiting` says
for which directions the socket thread will send one, `again` which calls last returned
EAGAIN. Each turn of the receive and send loops is one step, with the peer and the
worker of the writer or reader running in between, and the loop's limit on turns
(100 in the code) is the constant `MaxIterations`.

**DirectoryCache** has no state of its own: each operation is a function from a cache to
a cache, used by the module below. A path is a sequence of names, a listing a sequence of entries, `lru`
the list in order of use, `count` is `m_totalFileCount`. The limits of `Prune` are
constants. Names that differ in case are kept, since most lookups ignore case and some do
not. The times of a listing are two facts: whether it is older than the ttl
(`outdated`), and who took a time to compare with before it was stored (`after`).

**FileOperations.** Engines on the same servers, each with one operation at a time. A
command is sent (`Send`, after the calls that invalidate), carried out by the server at
some later time (`ServerDoes`), answered later still (`Reply`); meanwhile the operation may
be cancelled (`SkipReply` takes the answer) or the connection lost, and the server may carry out what it has
of a lost connection (`ghosts`). `remote` is what the servers really have. Locks are
reduced to who holds them; how they are kept is in `OpLockManager`. The `excused` fields of a
command and of a listing are history, for the exceptions named at the property.

**FileTransfer.** The states of `CFtpFileTransferOpData` for downloads and uploads with
every answer of `SetFileExistsAction`. Sizes are small numbers with 2 and 3 in the place of 2 and
4 GB; a file is its size and whether it holds the beginning of the source, so that a wrong
offset shows in the result. `server` says what the server supports and from which offset on
it counts wrongly; `caps` is what the client has learned of it, from FEAT or from answers. A server
may refuse SIZE and MDTM for a file it has although it knows them; `op.refused` remembers it, as
history. Another engine or program changes
target or source at any time, noticed by the cache or not.

**AsciiTransfer.** The conversion buffer by buffer (`transform` and `Expanded` are the loops over
one buffer), compared with a definition on the whole text (`Stripped`, `Completed`).

## 3. Runs

| Run | Bounds | States | What it shows |
|---|---|---|---|
| `oplocks` | 3 sockets on one server, 4 locks | 32,786 | conflicting locks are never held together; handles stay valid; nobody waits without an event on its way, nor while holding a lock; every wait ends |
| `aio_writer` | 3 buffers of 2, 5 units | 17,562 | file is a prefix of the data, complete when finalized; buffers are never shared; no lost wakeup; calls and close end |
| `aio_reader` | 2 buffers of 2, a file of 5, 1 seek | 267,375 | data in order from the last seek on; end of file only at the end; no lost wakeup; read, seek and close end |
| `transfer_status` | 3 updates, 3 transfers, FTP and SFTP | 75,005 | no byte is lost or counted twice; data in the counter is going to be fetched; no notification is left in the list unannounced; Get says changed if something was added (FTP, until the end of the transfer); what is shown catches up |
| `engine` | 3 commands, 2 cancels, 2 requests, 1 sub-operation, 1 delay, 2 attempts | 325,136 | one reply for each command; retry timer only for a connect; attempts all made; late answers reach nobody else; the engine implements `Commands`: every command is answered once, in order, at last |
| `ftp_transfers` | 3 operations, 1 keep-alive, all modes, fallback | 169,943 | answers reach their command; success is real; type and offset are the ones asked for; every wait has a reason; operations end |
| `data_connection` | 4 units, buffers of 2, 2 turns, all modes | 25,373 | success is complete; no data before the command and the user's consent; no call after EAGAIN without event, but for writes on an accepted connection without TLS; transfers end |
| `ascii_conversion` | up to 7 characters, buffers of 3 | 11,515 | conversion does not depend on how data is cut |
| `directory_cache` | 2 engines on one server that ignores case, a tree of 2 directories and 2 files, 17 different commands, 3 of them given, listings dropped beyond 2 or by number of files, symmetry | about 1,207,700 | a listing that is not marked unsure is what the server has; list of uses and number of files match the listings |
| `file_transfer` | 2 names, sizes to 4 with limits at 2 and 3, 4 kinds of server, 2 transfers or 1 and a change by others | 937,262 | nothing that a listing or the server told of is overwritten without a question; a transfer that ends well leaves the complete file, resumed or not; transfers end |
| `leftover_command`, `ftp_send_failure` | small | - | the two findings of section 6 |

*Why the bounds are enough.* A ring of 2 or 3 buffers wraps more than once with 5
units, and a file that is not a multiple of a buffer exercises the partial last one.
Three sockets on
one server let two wait for the third. Three commands are a cancelled or lost one,
its successor that meets leftover events, and one that starts clean. Three FTP
operations are the same for replies to skip. Two turns of the receive loop with four
units reach the limit on turns both with data left and at the end of it. Three
file operations of two engines are a listing, a change of it by another engine, and one that uses the
result, with every point at which the two overlap. Sizes up to 4 have a value below, at and
above each limit; two transfers are one that leaves a part of the file and one that
resumes.

*Exceptions.* Five properties would fail as a reader would first write them, and name
what has to be excepted, in their comments and in section 6. `SureListingsAreTrue`: a
listing received while another engine changed the directory; operations that tell the
cache only with the reply, until it comes, or if it never comes; the parent of a directory
made with its full path; a renamed directory, and what is below it, if the listing of its
parent did not show it as one; a directory removed or renamed under a name of another case
than the server's.
`NoSilentOverwrite`: changes by others since the decision, names the listing does not
show, unchecked new names, and, when there is no listing, servers that refuse SIZE and MDTM, or refuse
SIZE and are not asked for MDTM because they are known to have SIZE.
`ResumedFileIsRight`: targets that were not the beginning of the source, changes by others,
uploads resumed at the size of an unsure entry or at a size the server counts wrongly.
`FtpChangedIfUpdated`: the time between the `Get` of `LogTransferResultMessage` and `Reset`.
`ReadsAndWritesWaitForEvents`: writes on a connection that was accepted and has no TLS. TLC violates
each of the last two, and `NoSilentOverwrite`, if the exception is left out.

*Deadlock.* All runs say `CHECK_DEADLOCK FALSE`: a system in which all commands are
answered and all files are closed may stop, and the bounded counters stop it too. That
nothing stops too early is what the liveness properties say.

## 4. Fairness

Weak fairness is assumed of what threads and event loops do by themselves: the event
loop dispatches queued events and expired timers; a worker thread that can run runs; a
`join` returns once the thread has ended; a queued notification is handled. In `Engine` and
`FtpTransfer` and `FileTransfer` the server is weakly fair only together with the timeout: an
operation ends because the server answers or because `OnTimer` closes the connection.
In `Engine` and `FtpTransfer` the user eventually answers a request; `FileTransfer` does
not assume it, so its `TransfersEnd` says "ends, or the user is asked". None is assumed of commands, cancels, lost
connections, failures of reads and writes, and keep-alives.

`TransferSocket` assumes strong fairness of reads, writes and of the writer or reader
being ready: a handler may meet EAGAIN or `wait` any number of times, but not always,
which is what progress of the network and of the disk means. A stalled network is
ended by the timeout of the control connection, outside this module.

## 5. Proofs

TLAPS proves, for every value of the constants (any number of sockets, paths, commands,
attempts, updates, buffers, any size of the data), from the named assumptions of the
modules (`SocketsAssumption`, `ServerAssumption`, `BoundAssumption`, `BoundsAssumption`,
`KindsAssumption`, `ReasonsAssumption`, `ConstantsAssumption`, `TransferAssumption`,
`CacheAssumption`, `OperationsAssumption` and those on
the sizes of rings, buffers and files), every safety property that the passing runs
check. Each component has an inductive invariant (`IInv`; `SocketIInv` and `AsciiIInv` where
proofs share a module) that TLC checked before it was proved.

*Induction over data.* The induction theorems of the library have an operator as a
parameter, which the provers cannot instantiate. The proofs use a set in its place: a set of
numbers that is not empty has a least one (`LeastNat`), hence `NatSetInduction`, and from it
`SeqSetInduction` over sequences and `FiniteSetInduction` over finite sets. A recursive
function, or a fold of the community modules, is a `CHOOSE` until a function with its
equations is shown to exist (`LoopExists`, `SetRecursion`) and to be the only one
(`LoopUnique`, `CountsUnique`). That gives what a sum over listings, a filter of the list of
uses or a conversion of a text computes for every input. The modules therefore declare no
`RECURSIVE` operators.

- `OpLockManagerProofs`: `TypeCorrect`, `MutualExclusionHolds`, `HandlesStayValid`,
  `WakeupsAreNotLost`. `MutualExclusion` is not inductive alone: an obtain event looks
  up the entry of its socket, so there must be at most one (`OneEntryPerSocket`), an entry
  without socket must be empty and a released lock must not wait (`EmptyEntries`). `NoLostWakeup` needs that conflicts are
  symmetric (`ConflictsSymmetric`) and that handles are valid, since `Unlock` releases
  what its handle points at. The lemmas `LockAtEffect`, `MarkReleasedEffect`,
  `PopLockEffect`, `UnlockEffect`, `OnObtainLockEffect` say what an operation does to
  the table (which locks stay, which are gone, what only shrinks), and the
  `...Inductive` lemmas use nothing else of it.
  The clients: `ClientsUseTheTable` is the refinement `ClientSpec => Spec`, so all of the
  above holds of the control sockets; `NoneHoldsAndWaits` is the absence of hold-and-wait.
  Its invariant (`Stack`) says that an operation owns the lock its handle names
  (`Owned`), that there are at most two operations on a stack and that, when there are two,
  neither waits. The second lock is obtained at once because the first one is
  held for the same path and reason, so whoever blocked the second would
  contradict `MutualExclusion`.
- `EngineProofs`: `RepliesAreExact`, `TimerIsForConnect`, `EngineImplementsCommands`. The two properties need each
  other: a command accepted while the timer of another runs would be answered by it. The
  proof uses nothing of the event queue, so it holds for every order and
  number of leftover events, including those of finding 1. The refinement theorem shows
  that every step of `Engine` is an `Accept`, an `Answer` or a stutter of `Commands`, from the
  same invariant; the weak fairness of `Answer` stays with TLC.
  `AttemptsAreAllMade` rests on `Counted`: `m_retryCount` never counts an attempt that was
  not made, and while it still holds the count of an earlier connect there is no control
  socket that could fail. `AnswersDoReachTheirRequest` rests on `AskInv`: unless a leftover
  event has misled a command, a command finds an empty stack when its own event, of which
  there is one, is handled (`EventsOnce`, `CleanStart`), so only the top operation
  waits, and for the last request (`TopWaits`).
- `AioWriterProofs`: `BuffersStayDisjoint`, `FileStaysPrefix`, `FinalizedMeansComplete`,
  `WakeupsAreNotLost`, `TypeCorrect`. The invariant describes the ring as a chain (`Chain`):
  the oldest ready buffer goes on where the file ends, each one where its predecessor ends,
  and the last one ends with what was received last; `Phases` relates the flags to what the two
  threads are doing. That different places of the ring are different slots, for every
  number of buffers, is arithmetic modulo that number, in lemmas of its own (`RingSlot`,
  `RingInjective`, `RingShift`).
- `AioReaderProofs`: `BuffersStayDisjoint`, `DeliveryIsInOrder`, `EofMeansComplete`,
  `WakeupsAreNotLost`, `TypeCorrect`. The same chain in the other direction: it begins
  where the client is and ends at the position of the file. It is claimed only while the ring is in use
  (`InUse`): a seek first joins the worker and then empties the ring. `EmptyIsLast` says that
  the empty buffer, which means the end of the file, comes only from a worker that returns.
- `TransferProofs`, on the transfer status: `TypeCorrect`, `NothingIsLost`, `CounterWillBeFetched`,
  `NotificationsAreFetched`, `NoChangeMeansNoNews`. The
  invariant is `TypeOK`, `OpenDuringTransfer`, `EndOfTransfer`, `EverythingCounted` and
  `CounterIsWatched`; each step between the lock-free addition and the mutex keeps the
  sum of the two counters, and `UpdateAdd` may skip the mutex only because
  `CounterIsWatched` holds already. `NotificationsAreFetched` has an invariant of its own
  (`ListInv`): the flag is up exactly when the user interface has neither been told nor is
  asking, and it is never both (`FlagMatches`). Without it, a notification added while the
  flag is down could stay. `NoChangeMeansNoNews` needs `PollInv`: during an FTP transfer
  there is one notice at a time (about to be sent, in the list, or the running timer), so
  no old notification can replace what a later poll has shown. It ends with the `Get` of
  `LogTransferResultMessage` (`ending`), which uses up the notice of a change like a poll does.
- The same module, on the data connection: `SuccessMeansComplete`, `ConsentAlwaysComesFirst`,
  `ReadsAndWritesDoWait`, `SocketTypeCorrect`. The right to call read, and the right to call
  write, is a token that the running handler has, or the socket thread, a queued event, the writer
  or reader that was waited for, or a postponed call, and never two of them (`ReadToken`,
  `WriteToken`). On an accepted connection without TLS there may be two tokens to write, which the
  invariant counts, and the property is not claimed; `Blocked` says what `activity_block_` counts, `Counted` where the units of data are. The first attempt failed: two guards of `OnAio` overlapped, so the
  model allowed a choice the code does not have. They are disjoint now.
- The same module, on the ASCII conversion: `AsciiConversion`, `AsciiTypeCorrect`, for files of
  any length and buffers of any size from two. `TransformStrips` and `ExpandedCompletes` say that the
  loops of `ascii_writer` and `ascii_reader`, run over the whole input, compute `Stripped`
  and `Completed`, which are defined by looking at neighbours; `ExpandedConcat` says what a loop
  over two buffers has to do with one over both, `RoundTrip` that a text without CRs comes back. The
  invariant (`Downloading`) is that what is out, with what the loop makes of the buffer, is what
  it makes of all of the input, and that no CR is kept back while there is a buffer to put it in.
- `FtpTransferProofs`: `RepliesDoReachTheirCommand`, `SuccessDoesNotLie`,
  `TransfersAreAsAsked`, `WaitsDoHaveAReason`, `TypeCorrect`. At most one command
  is unanswered at any time (`Counting`, `InFlight`), and unless an answer is to be skipped it is the
  one the operation waits for (`Owned`). So what the control socket believes of the server's
  data type and restart offset is true when the transfer command is sent, and stays true until the
  server reads it (`Known`). `Events` and `Ends` say that an end of the data connection that is
  waited for is queued, and that what an operation has seen of its end is real.
- `FileTransferProofs`: `ResumedFilesAreRight`, `NothingOverwrittenSilently`, `TypeCorrect`.
  The invariant follows what is known: that the
  listing is right unless something was not seen (`Missing`, `Shown`), hence the sizes (`Sized`, `Local`,
  `AtMdtm`, with what the server refused), hence whether the user has to be asked (`Decided`), and what the resume tests
  have shown of the server at the offset used (`Judged`, `Moving`); an upload that is under way was not found
  complete (`Uploaded`). The proof
  found an exception that the run's sizes had hidden: if the size of the
  source is unknown when the resume test is made, it may pass because the source has a single
  byte. `caps.guessed` records this and `ResumedFileIsRight` names it. The assumption on the size
  from which a server counts wrongly now says only what the code tests: 2 GB, 4 GB or never.
- `FileOperationsProofs`: `CacheStaysConsistent`, `SureListingsStayTrue`, `TypeCorrect`, for any
  number of engines, servers, directories and files, any commands and any limits of the cache.
  `CacheOK` says that the list of uses has each listing once and that the number of files is the
  sum over the listings; each operation of `DirectoryCache` keeps it (the lemmas `...OK`), and none
  but `Store` takes back a mark (`Weaker`). `ResultsFacts` says that the server changes
  nothing but what `Changes` names. The invariant about the operations has these parts: an
  operation that waits has sent the command it would send (`InStep`); what a command under way may
  change is marked, or its operation still waits to tell the cache (`PendingIsMarked`, and
  `GhostsAreMarked` for commands of lost connections); and a listing that is being received is true
  and nothing under way will change it, or it is known to be overtaken (`ReceivedIsTrue`). The
  last part is what `SureListingsAreTrue` needs to survive `Store`. Attempts at the proof
  found exceptions that the instance had hidden, and the property names them now: a directory
  whose name was given in another case, which `RemoveDir` does not find, and a renamed one that
  the listing of its parent no longer shows as a directory when `Rename` looks for it. `OperationsAssumption` lets a server be treated as case
  sensitive only if it is; otherwise `InvalidateFile` would mark too little.

Only model-checked:

- All liveness properties (`CallsEnd`, `TransfersEnd`, `ShownCatchesUp`, `OperationsEnd`,
  `WaitingEnds` and the liveness of `Commands`): the prover has no fairness reasoning.
- `AlreadyConnectedOnlyIfConnected` and `WaitsForSomething`, of the two runs that expect a
  violation.

## 6. Findings

1. *`leftover_command`*: if the connection is lost while a command event is queued, the event
   survives its command and is dispatched for the next one (`engineprivate.cpp:624`). A
   connect may be handled twice and answered `FZ_REPLY_ALREADYCONNECTED`
   because of its own first handling.
2. *`ftp_send_failure`*: `SendCommand` stores the result of `Send` in a `bool`
   (`ftp/ftpcontrolsocket.cpp:308`): a failed write counts as sent, and the operation waits
   for an answer until the timeout or until the loss is noticed otherwise.

Seen while modelling, without a run of their own:

- A cancel event carries no command either, and cancels the next command if the one
  it was meant for has ended (`engineprivate.cpp:701`).
- `made_progress_` reaches the user interface only with a notification, so late
  (`engineprivate.cpp:912`).
- With SFTP the control socket calls `CTransferStatusManager::Get` itself
  (`sftp/sftpcontrolsocket.cpp:119`) and uses up the notice meant for the user interface,
  whose next call is told `changed = false` although data has arrived;
  `src/src/include/FileZillaEngine.h:47` says otherwise. `FtpChangedIfUpdated` and
  `ShownCatchesUp` leave SFTP downloads out.
- An active data connection that fails before the transfer command is sent is not
  noticed; the transfer waits in `waitsocket` for the timeout. `WaitsHaveAReason`
  names this exception (`FailedEarly`).
- After a failed TLS session resumption the log says that the control connection is
  closed; the code only resets the operation (`ftp/ftpcontrolsocket.cpp:444-445`).
- `shutdown` may be called twice without waiting for the event after EAGAIN
  (`ftp/transfersocket.cpp:863` and 764), against
  `src/libfilezilla/lib/libfilezilla/socket.hpp:127`.
- Against the same line, an upload may write again after EAGAIN without its event: when an active
  connection without TLS is accepted, `set_event_handler` (`ftp/transfersocket.cpp:727`) queues a write
  event, as the socket is connected (`src/libfilezilla/lib/socket.cpp:1925-1927`), and `OnAccept` calls
  `OnConnect` and thus `OnSend` itself (373-374, 422). Each of the two goes on sending.
  `ReadsAndWritesWaitForEvents` names this exception.
- At the end of every transfer `LogTransferResultMessage` calls `Get` (`controlsocket.cpp:72`) and
  uses up the notice meant for the user interface, which may poll before `Reset`
  (`controlsocket.cpp:222`) and be told `changed = false` with data it has not seen, again against
  `FileZillaEngine.h:47`. `Reset` follows, so the status line is cleared soon after.
- ASCII downloads drop all but the last of consecutive CRs, also when no LF follows
  (`Stripped` says exactly what goes).

Of the directory cache and the file operations:

- A listing that is being received while another engine changes the directory is stored as
  sure (`ftp/list.cpp`), and a refresh may be answered by another engine's listing whose
  data is older than the request (`ftp/list.cpp:74-82`).
- `RemoveDir` compares the path of the directory itself with case, the ones below it without
  (`directorycache.cpp:493-528`): the listing of a directory removed under a name of another case stays.
- A directory made with its full path is not told to the cache (`ftp/mkd.cpp:164`). A refused `MKD` of a segment ends
  the operation with an internal error: the `break` at `ftp/mkd.cpp:121` leaves the `switch`, where the comment at
  15-17 says "If either part fails, try MKD with the full path directly". A chmod or mkd whose
  reply never comes leaves the listing unmarked, unlike delete, rmd and rename, which mark it first.
- `InvalidateFile` marks listings below `path`, not below the directory named
  (`directorycache.cpp:254-316`): too many, never too few. `Store` of a path already cached
  does not prune. `UpdateOwnerGroup` and `GetChangeTime` have no callers.
- `CheckInclusion` (`directorylisting.cpp:233`) tests `iter2` against the beginning before its loop, which
  is never entered, so it is true whenever the second listing is not larger;
  `directorylisting.h:156` says "Checks if listing2 is a subset of listing1".

Of file transfers:

- If SIZE is refused by a server known to have it (FEAT, `ftp/logon.cpp:840-841`), MDTM is left out
  (`ftp/filetransfer.cpp:233-247`); without a listing the file is then overwritten without a question,
  whatever the reason of the refusal was.
- The answer to use another name for an upload checks it only against the listing, in exact
  case, and takes the size even of an unsure entry (`controlsocket.cpp:1050-1053`).
- Unknown sizes are compared as unsigned numbers: a download to be resumed whose local file has
  vanished and whose remote size is unknown ends as successful without a transfer
  (`ftp/filetransfer.cpp:185`). `ResumedFileIsRight` excepts it as a change by others.
- The result of the test of resuming at exactly 4 GB is kept for the 2 GB limit
  (`>=` against `>`). Uploads are never tested.
- REST is also sent before APPE (`ftp/rawtransfer.cpp:202`), so resuming fails on servers
  without REST, which the comment at `ftp/filetransfer.cpp:140` means to avoid.
- `CalculateNextChunkSize` has no callers.

## 7. Plan

1. A pending shutdown in `TransferSocket`, and `TransferSocket` composed with `AioWriter` and
   `AioReader`.
2. The change of directory with the path cache, the FTP logon, the pipeline of HTTP requests.

## 8. Not modelled

- *Left for the plan above*: path cache and working directory, FTP logon, HTTP, the queue of log messages.
- *SFTP, Storj*: the protocol runs in a separate process that is given one command at a
  time; the engine's side is a line reader.
- *String processing*: listing parser, paths, servers, digest authentication, reply parsing. No
  behaviour over time and too large an input space for a model of useful size.
- *Proxy, external address, options, XML*: bytes and storage; their outcomes are
  nondeterministic choices or constants.
- *libfilezilla*: modelled from its use (events in a queue, conditions that remember a signal,
  edge-triggered socket events).
- *User interface and transfer queue, common user interface code*: single-threaded code on wxWidgets, apart from
  its polling.
- *PuTTY, pugixml, D-Bus*: third-party code and desktop integration.
- *In the modelled components*: rate limits, socket buffer sizes, port ranges, preallocation,
  memory readers and writers, texts of log messages; links, repeated LIST with `-a`, time zones and
  times of files in file operations and transfers.
