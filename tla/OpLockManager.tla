--------------------------- MODULE OpLockManager ---------------------------
(***************************************************************************)
(* The lock table all control sockets of an engine context share           *)
(* (engine/oplock_manager.cpp).  It keeps two engines that are connected   *)
(* to the same server from listing or creating the same directory at the   *)
(* same time.                                                              *)
(*                                                                         *)
(* Every operation holds the manager's mutex from its first to its last    *)
(* statement, so each one is a single action.  The events an operation     *)
(* sends are queued and delivered later by the receiving socket's event    *)
(* loop; `events' counts them.                                             *)
(***************************************************************************)
EXTENDS Integers, Sequences, FiniteSets

CONSTANTS
    Sockets,        \* the control sockets that exist
    NoSocket,       \* nullptr
    Servers,        \* the servers a control socket can be connected to
    ServerOf,       \* GetCurrentServer() of every control socket
    Paths,          \* remote directories
    ParentOf,       \* CServerPath::IsParentOf as a set of <<parent, child>>
    Reasons,        \* enum class locking_reason
    MaxLocks        \* bound: calls of Lock in a behaviour

ASSUME SocketsAssumption == NoSocket \notin Sockets
ASSUME ServerAssumption == ServerOf \in [Sockets -> Servers]
ASSUME BoundAssumption == MaxLocks \in Nat

VARIABLES
    socket_locks_,  \* std::vector<socket_lock_info>
    handles,        \* the live OpLock objects, as <<owner, socket_, lock_>>
    events,         \* queued CObtainLockEvents per socket
    lockCount       \* calls of Lock so far

vars == <<socket_locks_, handles, events, lockCount>>

LockInfo == [path : Paths, reason : Reasons, inclusive : BOOLEAN,
             waiting : BOOLEAN, released : BOOLEAN]

SocketLockInfo == [server_ : Servers, control_socket_ : Sockets \cup {NoSocket},
                   locks_ : Seq(LockInfo)]

TypeOK ==
    /\ socket_locks_ \in Seq(SocketLockInfo)
    /\ handles \subseteq Sockets \X (Nat \ {0}) \X (Nat \ {0})
    /\ events \in [Sockets -> Nat]
    /\ lockCount \in 0..MaxLocks

Init ==
    /\ socket_locks_ = <<>>
    /\ handles = {}
    /\ events = [s \in Sockets |-> 0]
    /\ lockCount = 0

-----------------------------------------------------------------------------
(* A lock counts against others only while it is held. *)
Held(lock) == ~lock.waiting /\ ~lock.released

(* The two path tests of Lock and of ObtainWaiting.  They do not treat the
   two locks alike: `other' is the one already in the table. *)
Conflicts(other, lock) ==
    /\ lock.reason = other.reason
    /\ \/ other.path = lock.path
       \/ other.inclusive /\ <<other.path, lock.path>> \in ParentOf
       \/ lock.inclusive /\ <<lock.path, other.path>> \in ParentOf

BlockedBy(entry, lock) ==
    \E k \in DOMAIN entry.locks_ :
        Held(entry.locks_[k]) /\ Conflicts(entry.locks_[k], lock)

(* get_or_create: the first entry of the socket, or a new one at the end. *)
EntryOf(table, s) == {i \in DOMAIN table : table[i].control_socket_ = s}

Created(s) ==
    [server_ |-> ServerOf[s], control_socket_ |-> s, locks_ |-> <<>>]

(* The test Lock makes against every other socket on the same server. *)
MustWait(table, s, server, lock) ==
    \E i \in DOMAIN table :
        /\ table[i].control_socket_ # s
        /\ table[i].server_ = server
        /\ BlockedBy(table[i], lock)

LockAt(table, i, s, lock) ==
    LET info == [lock EXCEPT !.waiting =
                                MustWait(table, s, table[i].server_, lock)]
        n == Len(table[i].locks_) + 1
    IN  /\ socket_locks_' = [table EXCEPT ![i].locks_ = Append(@, info)]
        /\ handles' = handles \cup {<<s, i, n>>}

NewLock(reason, path, inclusive) ==
    [path |-> path, reason |-> reason, inclusive |-> inclusive,
     waiting |-> FALSE, released |-> FALSE]

Lock(s, reason, path, inclusive) ==
    LET lock == NewLock(reason, path, inclusive)
    IN  /\ lockCount < MaxLocks
        /\ lockCount' = lockCount + 1
        /\ \/ \E i \in EntryOf(socket_locks_, s) :
                /\ \A j \in EntryOf(socket_locks_, s) : i <= j
                /\ LockAt(socket_locks_, i, s, lock)
           \/ /\ EntryOf(socket_locks_, s) = {}
              /\ LockAt(Append(socket_locks_, Created(s)),
                        Len(socket_locks_) + 1, s, lock)
        /\ UNCHANGED events

-----------------------------------------------------------------------------
(* Wakeup: one event to every socket with a waiting lock in the table. *)
HasWaiting(table, s) ==
    \E i \in DOMAIN table :
        /\ table[i].control_socket_ = s
        /\ \E k \in DOMAIN table[i].locks_ : table[i].locks_[k].waiting

(* Mutant: the loop over the entries stops after the first event. *)
WakeupFirst(table) ==
    events' = [s \in Sockets |->
                  IF /\ HasWaiting(table, s)
                     /\ \A u \in Sockets \ {s} : \A i \in EntryOf(table, s) :
                          \A j \in EntryOf(table, u) : HasWaiting(table, u) => i < j
                  THEN events[s] + 1 ELSE events[s]]

Wakeup(table) ==
    events' = [s \in Sockets |->
                  IF HasWaiting(table, s) THEN events[s] + 1 ELSE events[s]]

(* `n' locks of a vector are left when its last one is popped, and then every
   released one that has become the last. *)
LocksLeft(locks, n) ==
    /\ n \in 0..(Len(locks) - 1)
    /\ \A k \in (n + 1)..(Len(locks) - 1) : locks[k].released
    /\ n > 0 => ~locks[n].released

(* `n' entries of the table are left when its last one is popped, and then
   every one without a socket that has become the last. *)
EntriesLeft(table, n) ==
    /\ n \in 0..(Len(table) - 1)
    /\ \A i \in (n + 1)..(Len(table) - 1) : table[i].control_socket_ = NoSocket
    /\ n > 0 => table[n].control_socket_ # NoSocket

(* Mutant: the entry of a socket without locks is erased, which moves those
   behind it. *)
PopLockErases(i) ==
    socket_locks_' = IF Len(socket_locks_[i].locks_) > 1
                     THEN [socket_locks_ EXCEPT ![i].locks_ = SubSeq(@, 1, Len(@) - 1)]
                     ELSE SubSeq(socket_locks_, 1, i - 1) \o SubSeq(socket_locks_, i + 1, Len(socket_locks_))

PopLock(i) ==
    \E n \in 0..Len(socket_locks_[i].locks_) :
        /\ LocksLeft(socket_locks_[i].locks_, n)
        /\ \/ /\ n > 0
              /\ socket_locks_' =
                    [socket_locks_ EXCEPT ![i].locks_ = SubSeq(@, 1, n)]
           \/ /\ n = 0
              /\ i = Len(socket_locks_)
              /\ \E m \in 0..Len(socket_locks_) :
                    /\ EntriesLeft(socket_locks_, m)
                    /\ socket_locks_' = SubSeq(socket_locks_, 1, m)
           \/ /\ n = 0
              /\ i < Len(socket_locks_)
              /\ socket_locks_' =
                    [socket_locks_ EXCEPT ![i].locks_ = <<>>,
                                          ![i].control_socket_ = NoSocket]

MarkReleased(i, k) ==
    socket_locks_' = [socket_locks_ EXCEPT ![i].locks_[k].waiting = FALSE,
                                           ![i].locks_[k].released = TRUE]

(* Mutant: the test of was_waiting is the wrong way round. *)
WakeupAfterWaiting(was_waiting, table) ==
    IF was_waiting THEN Wakeup(table) ELSE UNCHANGED events

(* A lock that was never obtained did not keep anybody waiting. *)
WakeupAfter(was_waiting, table) ==
    IF was_waiting THEN UNCHANGED events ELSE Wakeup(table)

(* Unlock, called by the destructor and the move operators of an OpLock. *)
Unlock(h) ==
    LET i == h[2]
        k == h[3]
    IN  /\ h \in handles
        /\ \/ /\ k = Len(socket_locks_[i].locks_)
              /\ PopLock(i)
           \/ /\ k < Len(socket_locks_[i].locks_)
              /\ MarkReleased(i, k)
        /\ handles' = handles \ {h}
        /\ WakeupAfter(socket_locks_[i].locks_[k].waiting, socket_locks_')
        /\ UNCHANGED lockCount

-----------------------------------------------------------------------------
(* ObtainWaiting(sli, lock): unlike Lock it skips only the lock's own entry
   and does not compare the servers. *)
StillBlocked(table, i, lock) ==
    \E j \in DOMAIN table \ {i} : BlockedBy(table[j], lock)

(* Mutant: a woken lock is not tested again. *)
ObtainedUntested(table, i) ==
    [k \in DOMAIN table[i].locks_ |-> [table[i].locks_[k] EXCEPT !.waiting = FALSE]]

Obtained(table, i) ==
    [k \in DOMAIN table[i].locks_ |->
        [table[i].locks_[k] EXCEPT
            !.waiting = @ /\ StillBlocked(table, i, table[i].locks_[k])]]

(* ObtainWaiting(socket) as OnObtainLock calls it when a queued event is
   dispatched. *)
OnObtainLock(s) ==
    /\ events[s] > 0
    /\ events' = [events EXCEPT ![s] = @ - 1]
    /\ socket_locks_' =
          [i \in DOMAIN socket_locks_ |->
              IF socket_locks_[i].control_socket_ = s
              THEN [socket_locks_[i] EXCEPT !.locks_ = Obtained(socket_locks_, i)]
              ELSE socket_locks_[i]]
    /\ UNCHANGED <<handles, lockCount>>

Next ==
    \/ \E s \in Sockets, r \in Reasons, p \in Paths, inc \in BOOLEAN :
            Lock(s, r, p, inc)
    \/ \E h \in handles : Unlock(h)
    \/ \E s \in Sockets : OnObtainLock(s)

Spec == Init /\ [][Next]_vars

-----------------------------------------------------------------------------
(* The properties. *)

(* Two control sockets connected to the same server never both hold locks
   that exclude each other, however Lock, Unlock and the delivery of obtain
   events interleave: Lock and ObtainWaiting agree on what a conflict is. *)
MutualExclusion ==
    \A i, j \in DOMAIN socket_locks_ :
        /\ i # j
        /\ socket_locks_[i].server_ = socket_locks_[j].server_
        => \A k \in DOMAIN socket_locks_[i].locks_ :
              LET lock == socket_locks_[i].locks_[k]
              IN  Held(lock) => ~BlockedBy(socket_locks_[j], lock)

(* An OpLock is a pair of indices into vectors that shrink whenever their tail
   becomes empty.  The indices of every live OpLock stay valid and keep naming
   a lock of its own socket that is not released (the asserts of Unlock and
   Waiting), and a lock without an OpLock is released: none leaks. *)
HandlesMatchLocks ==
    /\ \A h \in handles :
          /\ h[2] \in DOMAIN socket_locks_
          /\ socket_locks_[h[2]].control_socket_ = h[1]
          /\ h[3] \in DOMAIN socket_locks_[h[2]].locks_
          /\ ~socket_locks_[h[2]].locks_[h[3]].released
    /\ \A i \in DOMAIN socket_locks_ :
          \A k \in DOMAIN socket_locks_[i].locks_ :
             \/ socket_locks_[i].locks_[k].released
             \/ <<socket_locks_[i].control_socket_, i, k>> \in handles

(* No lost wakeup: a lock that waits while nobody else holds a conflicting one
   has an obtain event on its way to its socket.  Unlock sends events only
   when the released lock was not a waiting one, and one event serves all
   waiting locks of a socket. *)
NoLostWakeup ==
    \A i \in DOMAIN socket_locks_ :
        \A k \in DOMAIN socket_locks_[i].locks_ :
            LET entry == socket_locks_[i]
            IN  entry.locks_[k].waiting =>
                   \/ StillBlocked(socket_locks_, i, entry.locks_[k])
                   \/ /\ entry.control_socket_ \in Sockets
                      /\ events[entry.control_socket_] > 0
=============================================================================
