------------------------ MODULE OpLockManagerProofs ------------------------
(***************************************************************************)
(* Proofs about the lock table, for any set of sockets, servers, paths and *)
(* reasons and any number of locks, and about the operations that use it:  *)
(* they implement the table, and none holds a lock while it waits.         *)
(***************************************************************************)
EXTENDS OpLockClients, TLAPS

(* What an entry and a lock of a well-formed table look like. *)
LEMMA EntryType ==
    ASSUME NEW table \in Seq(SocketLockInfo), NEW i \in DOMAIN table
    PROVE  /\ table[i] \in SocketLockInfo
           /\ table[i].locks_ \in Seq(LockInfo)
           /\ table[i].server_ \in Servers
           /\ table[i].control_socket_ \in Sockets \cup {NoSocket}
           /\ i \in 1..Len(table)
           /\ \A k \in DOMAIN table[i].locks_ :
                 /\ table[i].locks_[k] \in LockInfo
                 /\ k \in 1..Len(table[i].locks_)
<1>1. table[i] \in SocketLockInfo /\ i \in 1..Len(table)
  OBVIOUS
<1>2. /\ table[i].locks_ \in Seq(LockInfo)
      /\ table[i].server_ \in Servers
      /\ table[i].control_socket_ \in Sockets \cup {NoSocket}
  BY <1>1 DEF SocketLockInfo
<1>3. \A k \in DOMAIN table[i].locks_ :
          /\ table[i].locks_[k] \in LockInfo
          /\ k \in 1..Len(table[i].locks_)
  BY <1>2
<1> QED BY <1>1, <1>2, <1>3

LEMMA SeqOfFunction ==
    ASSUME NEW S, NEW n \in Nat, NEW f \in [1..n -> S]
    PROVE  f \in Seq(S)
  OBVIOUS

LEMMA NewLockType ==
    ASSUME NEW r \in Reasons, NEW p \in Paths, NEW inc \in BOOLEAN
    PROVE  NewLock(r, p, inc) \in LockInfo
  BY DEF NewLock, LockInfo

LEMMA CreatedType ==
    ASSUME TypeOK, NEW s \in Sockets
    PROVE  /\ Append(socket_locks_, Created(s)) \in Seq(SocketLockInfo)
           /\ Len(socket_locks_) + 1 \in DOMAIN Append(socket_locks_, Created(s))
<1>1. Created(s) \in SocketLockInfo
  <2>1. ServerOf[s] \in Servers
    BY ServerAssumption
  <2>2. <<>> \in Seq(LockInfo)
    OBVIOUS
  <2> QED BY <2>1, <2>2 DEF Created, SocketLockInfo
<1>2. socket_locks_ \in Seq(SocketLockInfo)
  BY DEF TypeOK
<1> HIDE DEF SocketLockInfo
<1> QED BY <1>1, <1>2

-----------------------------------------------------------------------------
(* What pushing a lock to entry i of a table changes: one lock appears at the
   end of that entry, every other lock stays where it is. *)
LEMMA LockAtEffect ==
    ASSUME NEW table \in Seq(SocketLockInfo), NEW i \in DOMAIN table,
           NEW s \in Sockets, NEW lock \in LockInfo,
           LockAt(table, i, s, lock)
    PROVE  LET n == Len(table[i].locks_) + 1
               t == socket_locks_'
           IN  /\ t \in Seq(SocketLockInfo)
               /\ n \in Nat \ {0}
               /\ DOMAIN t = DOMAIN table
               /\ \A j \in DOMAIN table :
                     /\ t[j].server_ = table[j].server_
                     /\ t[j].control_socket_ = table[j].control_socket_
                     /\ j # i => t[j] = table[j]
               /\ DOMAIN t[i].locks_ = DOMAIN table[i].locks_ \cup {n}
               /\ \A k \in DOMAIN table[i].locks_ :
                     k # n /\ t[i].locks_[k] = table[i].locks_[k]
               /\ t[i].locks_[n] =
                     [lock EXCEPT !.waiting =
                                     MustWait(table, s, table[i].server_, lock)]
               /\ handles' = handles \cup {<<s, i, n>>}
<1> DEFINE info == [lock EXCEPT !.waiting =
                                MustWait(table, s, table[i].server_, lock)]
           new == [table[i] EXCEPT !.locks_ = Append(@, info)]
<1>1. info \in LockInfo
  <2>1. MustWait(table, s, table[i].server_, lock) \in BOOLEAN
    BY DEF MustWait
  <2> QED BY <2>1 DEF LockInfo
<1>2. table[i] \in SocketLockInfo /\ i \in 1..Len(table) /\ table[i].locks_ \in Seq(LockInfo)
  BY EntryType
<1>3. socket_locks_' = [table EXCEPT ![i] = new]
  BY <1>2 DEF LockAt
<1>4. handles' = handles \cup {<<s, i, Len(table[i].locks_) + 1>>}
  BY DEF LockAt
<1> HIDE DEF info
<1>5. /\ Append(table[i].locks_, info) \in Seq(LockInfo)
      /\ Len(table[i].locks_) + 1 \in Nat \ {0}
      /\ DOMAIN Append(table[i].locks_, info) =
            DOMAIN table[i].locks_ \cup {Len(table[i].locks_) + 1}
      /\ \A k \in DOMAIN table[i].locks_ :
            /\ k # Len(table[i].locks_) + 1
            /\ Append(table[i].locks_, info)[k] = table[i].locks_[k]
      /\ Append(table[i].locks_, info)[Len(table[i].locks_) + 1] = info
  BY <1>1, <1>2
<1>6. /\ new \in SocketLockInfo
      /\ new.locks_ = Append(table[i].locks_, info)
      /\ new.server_ = table[i].server_
      /\ new.control_socket_ = table[i].control_socket_
  BY <1>2, <1>5 DEF SocketLockInfo
<1> HIDE DEF new
<1>7. /\ socket_locks_' \in Seq(SocketLockInfo)
      /\ DOMAIN socket_locks_' = DOMAIN table
      /\ socket_locks_'[i] = new
      /\ \A j \in DOMAIN table : j # i => socket_locks_'[j] = table[j]
  BY <1>2, <1>3, <1>6
<1>8. \A j \in DOMAIN table :
         /\ socket_locks_'[j].server_ = table[j].server_
         /\ socket_locks_'[j].control_socket_ = table[j].control_socket_
  BY <1>6, <1>7
<1> QED BY <1>4, <1>5, <1>6, <1>7, <1>8 DEF info

-----------------------------------------------------------------------------
(* What unlocking changes: no lock appears or moves; a lock that is still
   there is the same lock or has been released; and every lock but the
   unlocked one that was not released is still there. *)
Shrinks(t, i0, k0) ==
    /\ t \in Seq(SocketLockInfo)
    /\ \A j \in DOMAIN t :
          /\ j \in DOMAIN socket_locks_
          /\ t[j].server_ = socket_locks_[j].server_
          /\ \/ t[j].control_socket_ = socket_locks_[j].control_socket_
             \/ t[j].control_socket_ = NoSocket /\ t[j].locks_ = <<>>
          /\ \A k \in DOMAIN t[j].locks_ :
                /\ k \in DOMAIN socket_locks_[j].locks_
                /\ \/ t[j].locks_[k].released /\ ~t[j].locks_[k].waiting
                   \/ /\ t[j].locks_[k] = socket_locks_[j].locks_[k]
                      /\ <<j, k>> # <<i0, k0>>

Keeps(t, i0, k0) ==
    \A j \in DOMAIN socket_locks_ :
        \A k \in DOMAIN socket_locks_[j].locks_ :
            \/ <<j, k>> = <<i0, k0>>
            \/ socket_locks_[j].locks_[k].released
            \/ /\ j \in DOMAIN t
               /\ t[j].control_socket_ = socket_locks_[j].control_socket_
               /\ k \in DOMAIN t[j].locks_
               /\ t[j].locks_[k] = socket_locks_[j].locks_[k]

(* An entry loses its socket only when it loses its last lock, and a released
   lock does not wait. *)
EmptyEntries ==
    \A i \in DOMAIN socket_locks_ :
        \A k \in DOMAIN socket_locks_[i].locks_ :
            /\ socket_locks_[i].control_socket_ # NoSocket
            /\ socket_locks_[i].locks_[k].released => ~socket_locks_[i].locks_[k].waiting

LEMMA MarkReleasedEffect ==
    ASSUME TypeOK, NEW i \in DOMAIN socket_locks_,
           NEW k \in DOMAIN socket_locks_[i].locks_, EmptyEntries,
           MarkReleased(i, k)
    PROVE  Shrinks(socket_locks_', i, k) /\ Keeps(socket_locks_', i, k)
<1> DEFINE old == socket_locks_[i].locks_[k]
           lock == [old EXCEPT !.waiting = FALSE, !.released = TRUE]
           locks == [socket_locks_[i].locks_ EXCEPT ![k] = lock]
           entry == [socket_locks_[i] EXCEPT !.locks_ = locks]
<1>0. socket_locks_ \in Seq(SocketLockInfo)
  BY DEF TypeOK
<1>1. /\ socket_locks_[i] \in SocketLockInfo
      /\ socket_locks_[i].locks_ \in Seq(LockInfo)
      /\ old \in LockInfo
  BY <1>0, EntryType
<1>2. lock \in LockInfo /\ lock.released /\ ~lock.waiting
  BY <1>1 DEF LockInfo
<1>3. socket_locks_' = [socket_locks_ EXCEPT ![i] = entry]
  <2>1. socket_locks_[i] = [server_ |-> socket_locks_[i].server_,
                            control_socket_ |-> socket_locks_[i].control_socket_,
                            locks_ |-> socket_locks_[i].locks_]
    BY <1>1 DEF SocketLockInfo
  <2> QED BY <1>1 DEF MarkReleased, LockInfo, SocketLockInfo
<1> HIDE DEF lock
<1>4. /\ locks \in Seq(LockInfo)
      /\ DOMAIN locks = DOMAIN socket_locks_[i].locks_
      /\ locks[k] = lock
      /\ \A m \in DOMAIN locks : m # k => locks[m] = socket_locks_[i].locks_[m]
  BY <1>1, <1>2
<1> HIDE DEF locks
<1>5. /\ entry \in SocketLockInfo
      /\ entry.locks_ = locks
      /\ entry.server_ = socket_locks_[i].server_
      /\ entry.control_socket_ = socket_locks_[i].control_socket_
  BY <1>1, <1>4 DEF SocketLockInfo
<1> HIDE DEF entry
<1>6. /\ socket_locks_' \in Seq(SocketLockInfo)
      /\ DOMAIN socket_locks_' = DOMAIN socket_locks_
      /\ socket_locks_'[i] = entry
      /\ \A j \in DOMAIN socket_locks_ : j # i => socket_locks_'[j] = socket_locks_[j]
  BY <1>0, <1>3, <1>5
<1>7. Shrinks(socket_locks_', i, k)
  BY <1>2, <1>4, <1>5, <1>6 DEF Shrinks
<1> QED BY <1>4, <1>5, <1>6, <1>7 DEF Keeps

LEMMA PopLockEffect ==
    ASSUME TypeOK, NEW i \in DOMAIN socket_locks_,
           NEW k \in DOMAIN socket_locks_[i].locks_, EmptyEntries,
           k = Len(socket_locks_[i].locks_),
           PopLock(i)
    PROVE  Shrinks(socket_locks_', i, k) /\ Keeps(socket_locks_', i, k)
<1>0. socket_locks_ \in Seq(SocketLockInfo)
  BY DEF TypeOK
<1>1. /\ socket_locks_[i] \in SocketLockInfo
      /\ socket_locks_[i].locks_ \in Seq(LockInfo)
      /\ k \in 1..Len(socket_locks_[i].locks_)
      /\ i \in 1..Len(socket_locks_)
  BY <1>0, EntryType
<1>2. PICK n \in 0..Len(socket_locks_[i].locks_) : PopLock(i)!(n)
  BY DEF PopLock
<1>3. /\ n \in 0..(k - 1)
      /\ \A m \in (n + 1)..(k - 1) : socket_locks_[i].locks_[m].released
  BY <1>2 DEF LocksLeft
<1>4. CASE n > 0 /\ socket_locks_' =
                    [socket_locks_ EXCEPT ![i].locks_ = SubSeq(@, 1, n)]
  <2> DEFINE locks == SubSeq(socket_locks_[i].locks_, 1, n)
             entry == [socket_locks_[i] EXCEPT !.locks_ = locks]
  <2>1. /\ locks \in Seq(LockInfo)
        /\ DOMAIN locks = 1..n
        /\ \A m \in 1..n : locks[m] = socket_locks_[i].locks_[m]
    BY <1>1, <1>3
  <2>2. socket_locks_' = [socket_locks_ EXCEPT ![i] = entry]
    BY <1>4, <1>1 DEF SocketLockInfo
  <2> HIDE DEF locks
  <2>3. /\ entry \in SocketLockInfo
        /\ entry.locks_ = locks
        /\ entry.server_ = socket_locks_[i].server_
        /\ entry.control_socket_ = socket_locks_[i].control_socket_
    BY <1>1, <2>1 DEF SocketLockInfo
  <2> HIDE DEF entry
  <2>4. /\ socket_locks_' \in Seq(SocketLockInfo)
        /\ DOMAIN socket_locks_' = DOMAIN socket_locks_
        /\ socket_locks_'[i] = entry
        /\ \A j \in DOMAIN socket_locks_ : j # i => socket_locks_'[j] = socket_locks_[j]
    BY <1>0, <2>2, <2>3
  <2>5. Shrinks(socket_locks_', i, k)
    BY <1>1, <1>3, <2>1, <2>3, <2>4 DEF Shrinks
  <2>6. Keeps(socket_locks_', i, k)
    BY <1>1, <1>3, <2>1, <2>3, <2>4 DEF Keeps
  <2> QED BY <2>5, <2>6
<1>5. CASE /\ n = 0
           /\ i = Len(socket_locks_)
           /\ \E m \in 0..Len(socket_locks_) :
                 /\ EntriesLeft(socket_locks_, m)
                 /\ socket_locks_' = SubSeq(socket_locks_, 1, m)
  <2>1. PICK m \in 0..Len(socket_locks_) :
                 /\ EntriesLeft(socket_locks_, m)
                 /\ socket_locks_' = SubSeq(socket_locks_, 1, m)
    BY <1>5
  <2>2. /\ m \in 0..(i - 1)
        /\ \A j \in (m + 1)..(i - 1) : socket_locks_[j].control_socket_ = NoSocket
    BY <1>5, <2>1 DEF EntriesLeft
  <2>3. /\ socket_locks_' \in Seq(SocketLockInfo)
        /\ DOMAIN socket_locks_' = 1..m
        /\ \A j \in 1..m : socket_locks_'[j] = socket_locks_[j]
    BY <1>0, <2>1, <2>2
  <2>4. Shrinks(socket_locks_', i, k)
    BY <1>0, <1>1, <2>2, <2>3 DEF Shrinks
  <2>5. \A j \in (m + 1)..(i - 1) : DOMAIN socket_locks_[j].locks_ = {}
    BY <1>0, <1>1, <2>2 DEF EmptyEntries
  <2>6. Keeps(socket_locks_', i, k)
    <3> SUFFICES ASSUME NEW j \in DOMAIN socket_locks_,
                        NEW l \in DOMAIN socket_locks_[j].locks_,
                        <<j, l>> # <<i, k>>,
                        ~socket_locks_[j].locks_[l].released
                 PROVE  j \in 1..m
      BY <2>3 DEF Keeps
    <3>1. j \in 1..i
      BY <1>0, <1>5
    <3>2. CASE j = i
      BY <1>1, <1>3, <1>5, <3>2
    <3>3. CASE j \in (m + 1)..(i - 1)
      BY <2>5, <3>3
    <3> QED BY <2>2, <3>1, <3>2, <3>3
  <2> QED BY <2>4, <2>6
<1>6. CASE /\ n = 0
           /\ i < Len(socket_locks_)
           /\ socket_locks_' =
                 [socket_locks_ EXCEPT ![i].locks_ = <<>>,
                                       ![i].control_socket_ = NoSocket]
  <2> DEFINE entry == [socket_locks_[i] EXCEPT !.locks_ = <<>>, !.control_socket_ = NoSocket]
  <2>1. socket_locks_' = [socket_locks_ EXCEPT ![i] = entry]
    BY <1>0, <1>6, <1>1 DEF SocketLockInfo
  <2>2. /\ entry \in SocketLockInfo
        /\ entry.locks_ = <<>>
        /\ entry.server_ = socket_locks_[i].server_
        /\ entry.control_socket_ = NoSocket
    <3>1. <<>> \in Seq(LockInfo)
      OBVIOUS
    <3> QED BY <1>1, <3>1 DEF SocketLockInfo
  <2> HIDE DEF entry
  <2>3. /\ socket_locks_' \in Seq(SocketLockInfo)
        /\ DOMAIN socket_locks_' = DOMAIN socket_locks_
        /\ socket_locks_'[i] = entry
        /\ \A j \in DOMAIN socket_locks_ : j # i => socket_locks_'[j] = socket_locks_[j]
    BY <1>0, <2>1, <2>2
  <2>4. Shrinks(socket_locks_', i, k)
    BY <1>1, <1>3, <2>2, <2>3 DEF Shrinks
  <2>5. Keeps(socket_locks_', i, k)
    <3> SUFFICES ASSUME NEW j \in DOMAIN socket_locks_,
                        NEW l \in DOMAIN socket_locks_[j].locks_,
                        <<j, l>> # <<i, k>>,
                        ~socket_locks_[j].locks_[l].released
                 PROVE  j # i
      BY <2>3 DEF Keeps
    <3> QED BY <1>1, <1>3, <1>6
  <2> QED BY <2>4, <2>5
<1> QED BY <1>2, <1>4, <1>5, <1>6

-----------------------------------------------------------------------------
(* At most one entry of the table belongs to a socket, so Lock and
   ObtainWaiting, which find entries by their socket, skip the same one. *)
OneEntryPerSocket ==
    \A i, j \in DOMAIN socket_locks_ :
        /\ socket_locks_[i].control_socket_ = socket_locks_[j].control_socket_
        /\ socket_locks_[i].control_socket_ # NoSocket
        => i = j

(* The inductive invariant. *)
IInv ==
    /\ TypeOK
    /\ EmptyEntries
    /\ OneEntryPerSocket
    /\ MutualExclusion
    /\ HandlesMatchLocks
    /\ NoLostWakeup

LEMMA InitIInv == Init => IInv
<1> SUFFICES ASSUME Init PROVE IInv
  OBVIOUS
<1>1. socket_locks_ = <<>> /\ DOMAIN socket_locks_ = {}
  BY DEF Init
<1>2. socket_locks_ \in Seq(SocketLockInfo)
  BY <1>1
<1>3. TypeOK
  BY <1>2, BoundAssumption DEF Init, TypeOK
<1> QED BY <1>1, <1>3 DEF Init, IInv, EmptyEntries, OneEntryPerSocket,
                          MutualExclusion, HandlesMatchLocks, NoLostWakeup

(* Which of two locks is already in the table does not matter. *)
LEMMA ConflictsSymmetric ==
    ASSUME NEW a, NEW b, Conflicts(a, b)
    PROVE  Conflicts(b, a)
  BY DEF Conflicts

LEMMA UnlockEffect ==
    ASSUME IInv, NEW h \in handles, Unlock(h)
    PROVE  /\ h[2] \in DOMAIN socket_locks_
           /\ h[3] \in DOMAIN socket_locks_[h[2]].locks_
           /\ Shrinks(socket_locks_', h[2], h[3])
           /\ Keeps(socket_locks_', h[2], h[3])
<1>1. /\ h[2] \in DOMAIN socket_locks_
      /\ h[3] \in DOMAIN socket_locks_[h[2]].locks_
  BY DEF IInv, HandlesMatchLocks
<1>2. TypeOK /\ EmptyEntries
  BY DEF IInv
<1>3. CASE h[3] = Len(socket_locks_[h[2]].locks_) /\ PopLock(h[2])
  BY <1>1, <1>2, <1>3, PopLockEffect
<1>4. CASE MarkReleased(h[2], h[3])
  BY <1>1, <1>2, <1>4, MarkReleasedEffect
<1> QED BY <1>1, <1>3, <1>4 DEF Unlock

LEMMA UnlockInductive ==
    ASSUME IInv, NEW h \in handles, Unlock(h)
    PROVE  IInv'
<1> DEFINE t == socket_locks_'
           held == ~socket_locks_[h[2]].locks_[h[3]].waiting
<1>1. /\ h[2] \in DOMAIN socket_locks_
      /\ h[3] \in DOMAIN socket_locks_[h[2]].locks_
      /\ Shrinks(t, h[2], h[3])
      /\ Keeps(t, h[2], h[3])
  BY UnlockEffect
<1>2. /\ handles' = handles \ {h}
      /\ lockCount' = lockCount
      /\ IF held THEN Wakeup(t) ELSE events' = events
  BY DEF Unlock, WakeupAfter
<1>3. socket_locks_ \in Seq(SocketLockInfo) /\ t \in Seq(SocketLockInfo)
  BY <1>1 DEF IInv, TypeOK, Shrinks
<1>4. events' \in [Sockets -> Nat]
  BY <1>2 DEF Wakeup, IInv, TypeOK
<1>5. TypeOK'
  BY <1>2, <1>3, <1>4 DEF IInv, TypeOK
<1>6. EmptyEntries'
  BY <1>1 DEF IInv, EmptyEntries, Shrinks
<1>7. OneEntryPerSocket'
  BY <1>1 DEF IInv, OneEntryPerSocket, Shrinks
<1>8. MutualExclusion'
  <2> SUFFICES ASSUME NEW i \in DOMAIN t, NEW j \in DOMAIN t, i # j,
                      t[i].server_ = t[j].server_,
                      NEW k \in DOMAIN t[i].locks_, Held(t[i].locks_[k]),
                      NEW l \in DOMAIN t[j].locks_, Held(t[j].locks_[l]),
                      Conflicts(t[j].locks_[l], t[i].locks_[k])
               PROVE  FALSE
    BY DEF MutualExclusion, BlockedBy
  <2>1. /\ i \in DOMAIN socket_locks_
        /\ k \in DOMAIN socket_locks_[i].locks_
        /\ t[i].locks_[k] = socket_locks_[i].locks_[k]
        /\ t[i].server_ = socket_locks_[i].server_
    BY <1>1 DEF Shrinks, Held
  <2>2. /\ j \in DOMAIN socket_locks_
        /\ l \in DOMAIN socket_locks_[j].locks_
        /\ t[j].locks_[l] = socket_locks_[j].locks_[l]
        /\ t[j].server_ = socket_locks_[j].server_
    BY <1>1 DEF Shrinks, Held
  <2> QED BY <2>1, <2>2 DEF IInv, MutualExclusion, BlockedBy
<1>9. HandlesMatchLocks'
  <2>1. ASSUME NEW g \in handles'
        PROVE  /\ g[2] \in DOMAIN t
               /\ t[g[2]].control_socket_ = g[1]
               /\ g[3] \in DOMAIN t[g[2]].locks_
               /\ ~t[g[2]].locks_[g[3]].released
    <3>1. g \in handles /\ g # h
      BY <1>2
    <3>2. /\ g[2] \in DOMAIN socket_locks_
          /\ socket_locks_[g[2]].control_socket_ = g[1]
          /\ g[3] \in DOMAIN socket_locks_[g[2]].locks_
          /\ ~socket_locks_[g[2]].locks_[g[3]].released
          /\ socket_locks_[h[2]].control_socket_ = h[1]
      BY <3>1 DEF IInv, HandlesMatchLocks
    <3>3. g = <<g[1], g[2], g[3]>> /\ h = <<h[1], h[2], h[3]>>
      BY <3>1 DEF IInv, TypeOK
    <3>4. <<g[2], g[3]>> # <<h[2], h[3]>>
      BY <3>1, <3>2, <3>3
    <3> QED BY <1>1, <3>2, <3>4 DEF Keeps
  <2>2. ASSUME NEW i \in DOMAIN t, NEW k \in DOMAIN t[i].locks_
        PROVE  t[i].locks_[k].released \/ <<t[i].control_socket_, i, k>> \in handles'
    <3> SUFFICES ASSUME ~t[i].locks_[k].released
                 PROVE  <<t[i].control_socket_, i, k>> \in handles'
      OBVIOUS
    <3>1. /\ i \in DOMAIN socket_locks_
          /\ k \in DOMAIN socket_locks_[i].locks_
          /\ t[i].control_socket_ = socket_locks_[i].control_socket_
          /\ t[i].locks_[k] = socket_locks_[i].locks_[k]
          /\ <<i, k>> # <<h[2], h[3]>>
      BY <1>1 DEF Shrinks
    <3>2. <<t[i].control_socket_, i, k>> \in handles
      BY <3>1 DEF IInv, HandlesMatchLocks
    <3> QED BY <1>2, <3>1, <3>2
  <2> QED BY <2>1, <2>2 DEF HandlesMatchLocks
<1>10. NoLostWakeup'
  <2> SUFFICES ASSUME NEW i \in DOMAIN t, NEW k \in DOMAIN t[i].locks_,
                      t[i].locks_[k].waiting
               PROVE  \/ StillBlocked(t, i, t[i].locks_[k])
                      \/ /\ t[i].control_socket_ \in Sockets
                         /\ events'[t[i].control_socket_] > 0
    BY DEF NoLostWakeup
  <2>1. /\ i \in DOMAIN socket_locks_
        /\ k \in DOMAIN socket_locks_[i].locks_
        /\ t[i].control_socket_ = socket_locks_[i].control_socket_
        /\ t[i].locks_[k] = socket_locks_[i].locks_[k]
    BY <1>1 DEF Shrinks
  <2>2. t[i].control_socket_ \in Sockets
    <3>1. t[i].control_socket_ \in Sockets \cup {NoSocket}
      BY <1>3, EntryType
    <3> QED BY <3>1, <1>6 DEF EmptyEntries
  <2>3. CASE held
    <3>1. HasWaiting(t, t[i].control_socket_)
      BY DEF HasWaiting
    <3> QED BY <1>2, <2>2, <2>3, <3>1 DEF Wakeup, IInv, TypeOK
  <2>4. CASE ~held
    <3>1. events' = events
      BY <1>2, <2>4
    <3>2. ASSUME StillBlocked(socket_locks_, i, socket_locks_[i].locks_[k])
          PROVE  StillBlocked(t, i, t[i].locks_[k])
      <4>0. PICK j \in DOMAIN socket_locks_ \ {i} :
                 BlockedBy(socket_locks_[j], socket_locks_[i].locks_[k])
        BY <3>2 DEF StillBlocked
      <4>1. PICK l \in DOMAIN socket_locks_[j].locks_ :
                 /\ Held(socket_locks_[j].locks_[l])
                 /\ Conflicts(socket_locks_[j].locks_[l], socket_locks_[i].locks_[k])
        BY <4>0 DEF BlockedBy
      <4>2. /\ j \in DOMAIN t
            /\ l \in DOMAIN t[j].locks_
            /\ t[j].locks_[l] = socket_locks_[j].locks_[l]
        BY <1>1, <2>4, <4>1 DEF Keeps, Held
      <4> QED BY <2>1, <4>1, <4>2 DEF StillBlocked, BlockedBy
    <3> QED BY <2>1, <2>2, <3>1, <3>2 DEF IInv, NoLostWakeup
  <2> QED BY <2>3, <2>4
<1> QED BY <1>5, <1>6, <1>7, <1>8, <1>9, <1>10 DEF IInv

-----------------------------------------------------------------------------
(* The entry an obtain event is delivered to, afterwards: its locks are the
   same but for the waiting flags that were cleared, and those are cleared
   exactly where nobody else is in the way. *)
LEMMA OnObtainLockEffect ==
    ASSUME IInv, NEW s \in Sockets, OnObtainLock(s)
    PROVE  LET t == socket_locks_'
           IN  /\ t \in Seq(SocketLockInfo)
               /\ DOMAIN t = DOMAIN socket_locks_
               /\ \A i \in DOMAIN t :
                     /\ t[i].server_ = socket_locks_[i].server_
                     /\ t[i].control_socket_ = socket_locks_[i].control_socket_
                     /\ t[i].control_socket_ # s => t[i] = socket_locks_[i]
                     /\ DOMAIN t[i].locks_ = DOMAIN socket_locks_[i].locks_
                     /\ \A k \in DOMAIN t[i].locks_ :
                           LET old == socket_locks_[i].locks_[k]
                               new == t[i].locks_[k]
                           IN  /\ new.path = old.path
                               /\ new.reason = old.reason
                               /\ new.inclusive = old.inclusive
                               /\ new.released = old.released
                               /\ t[i].control_socket_ = s =>
                                    (new.waiting <=> /\ old.waiting
                                                     /\ StillBlocked(socket_locks_, i, old))
<1>0. socket_locks_ \in Seq(SocketLockInfo)
  BY DEF IInv, TypeOK
<1> DEFINE new(i) == [socket_locks_[i] EXCEPT !.locks_ = Obtained(socket_locks_, i)]
           upd(i, k) == [socket_locks_[i].locks_[k] EXCEPT
                            !.waiting = @ /\ StillBlocked(socket_locks_, i, socket_locks_[i].locks_[k])]
<1>1. /\ DOMAIN socket_locks_' = DOMAIN socket_locks_
      /\ \A i \in DOMAIN socket_locks_ :
            socket_locks_'[i] = IF socket_locks_[i].control_socket_ = s
                                THEN new(i) ELSE socket_locks_[i]
  BY DEF OnObtainLock
<1>2. ASSUME NEW i \in DOMAIN socket_locks_, NEW k \in DOMAIN socket_locks_[i].locks_
      PROVE  LET old == socket_locks_[i].locks_[k]
             IN  /\ upd(i, k) \in LockInfo
                 /\ upd(i, k).path = old.path
                 /\ upd(i, k).reason = old.reason
                 /\ upd(i, k).inclusive = old.inclusive
                 /\ upd(i, k).released = old.released
                 /\ upd(i, k).waiting <=> old.waiting /\ StillBlocked(socket_locks_, i, old)
  <2>1. socket_locks_[i].locks_[k] \in LockInfo
    BY <1>0, EntryType
  <2> QED BY <2>1 DEF LockInfo
<1>3. ASSUME NEW i \in DOMAIN socket_locks_
      PROVE  /\ Obtained(socket_locks_, i) \in Seq(LockInfo)
             /\ DOMAIN Obtained(socket_locks_, i) = DOMAIN socket_locks_[i].locks_
             /\ \A k \in DOMAIN socket_locks_[i].locks_ :
                    Obtained(socket_locks_, i)[k] = upd(i, k)
  <2>1. /\ DOMAIN Obtained(socket_locks_, i) = DOMAIN socket_locks_[i].locks_
        /\ \A k \in DOMAIN socket_locks_[i].locks_ : Obtained(socket_locks_, i)[k] = upd(i, k)
    BY DEF Obtained
  <2>2. socket_locks_[i].locks_ \in Seq(LockInfo)
    BY <1>0, EntryType
  <2>3. \A k \in DOMAIN socket_locks_[i].locks_ : upd(i, k) \in LockInfo
    BY <1>2
  <2>4. Obtained(socket_locks_, i) \in [1..Len(socket_locks_[i].locks_) -> LockInfo]
    <3>1. Obtained(socket_locks_, i) = [k \in DOMAIN socket_locks_[i].locks_ |-> upd(i, k)]
      BY DEF Obtained
    <3>2. DOMAIN socket_locks_[i].locks_ = 1..Len(socket_locks_[i].locks_)
      BY <2>2
    <3> HIDE DEF upd
    <3> QED BY <2>3, <3>1, <3>2, Zenon
  <2>5. Obtained(socket_locks_, i) \in Seq(LockInfo)
    BY <2>2, <2>4, SeqOfFunction
  <2> QED BY <2>1, <2>5
<1>4. ASSUME NEW i \in DOMAIN socket_locks_
      PROVE  /\ new(i) \in SocketLockInfo
             /\ new(i).locks_ = Obtained(socket_locks_, i)
             /\ new(i).server_ = socket_locks_[i].server_
             /\ new(i).control_socket_ = socket_locks_[i].control_socket_
  <2>1. socket_locks_[i] \in SocketLockInfo
    BY <1>0, EntryType
  <2> QED BY <1>3, <2>1 DEF SocketLockInfo
<1>5. socket_locks_' \in Seq(SocketLockInfo)
  <2>1. \A i \in DOMAIN socket_locks_ : socket_locks_'[i] \in SocketLockInfo
    BY <1>0, <1>1, <1>4, EntryType
  <2>2. socket_locks_' \in [1..Len(socket_locks_) -> SocketLockInfo]
    BY <1>0, <1>1, <2>1 DEF OnObtainLock
  <2> QED BY <1>0, <2>2, SeqOfFunction
<1> HIDE DEF new, upd
<1>6. ASSUME NEW i \in DOMAIN socket_locks_
      PROVE  /\ socket_locks_'[i].server_ = socket_locks_[i].server_
             /\ socket_locks_'[i].control_socket_ = socket_locks_[i].control_socket_
             /\ socket_locks_'[i].control_socket_ # s => socket_locks_'[i] = socket_locks_[i]
             /\ DOMAIN socket_locks_'[i].locks_ = DOMAIN socket_locks_[i].locks_
  BY <1>1, <1>3, <1>4
<1>7. ASSUME NEW i \in DOMAIN socket_locks_, NEW k \in DOMAIN socket_locks_[i].locks_
      PROVE  LET old == socket_locks_[i].locks_[k]
                 now == socket_locks_'[i].locks_[k]
             IN  /\ now.path = old.path
                 /\ now.reason = old.reason
                 /\ now.inclusive = old.inclusive
                 /\ now.released = old.released
                 /\ socket_locks_'[i].control_socket_ = s =>
                      (now.waiting <=> /\ old.waiting
                                       /\ StillBlocked(socket_locks_, i, old))
  <2>1. CASE socket_locks_[i].control_socket_ = s
    <3>1. socket_locks_'[i].locks_[k] = upd(i, k)
      BY <1>1, <1>3, <1>4, <2>1
    <3> QED BY <1>2, <3>1
  <2>2. CASE socket_locks_[i].control_socket_ # s
    BY <1>6, <2>2
  <2> QED BY <2>1, <2>2
<1> QED BY <1>1, <1>5, <1>6, <1>7

LEMMA OnObtainLockInductive ==
    ASSUME IInv, NEW s \in Sockets, OnObtainLock(s)
    PROVE  IInv'
<1> DEFINE t == socket_locks_'
<1>1. /\ t \in Seq(SocketLockInfo)
      /\ DOMAIN t = DOMAIN socket_locks_
  BY OnObtainLockEffect
<1>2. ASSUME NEW i \in DOMAIN t
      PROVE  /\ t[i].server_ = socket_locks_[i].server_
             /\ t[i].control_socket_ = socket_locks_[i].control_socket_
             /\ t[i].control_socket_ # s => t[i] = socket_locks_[i]
             /\ DOMAIN t[i].locks_ = DOMAIN socket_locks_[i].locks_
  BY OnObtainLockEffect
<1>3. ASSUME NEW i \in DOMAIN t, NEW k \in DOMAIN t[i].locks_
      PROVE  LET old == socket_locks_[i].locks_[k]
                 new == t[i].locks_[k]
             IN  /\ new.path = old.path
                 /\ new.reason = old.reason
                 /\ new.inclusive = old.inclusive
                 /\ new.released = old.released
                 /\ t[i].control_socket_ = s =>
                      (new.waiting <=> old.waiting /\ StillBlocked(socket_locks_, i, old))
  BY OnObtainLockEffect
<1>4. /\ handles' = handles
      /\ lockCount' = lockCount
      /\ events' = [events EXCEPT ![s] = @ - 1]
      /\ events[s] > 0
  BY DEF OnObtainLock
<1>5. /\ events' \in [Sockets -> Nat]
      /\ \A u \in Sockets : u # s => events'[u] = events[u]
  BY <1>4 DEF IInv, TypeOK
<1>6. TypeOK'
  BY <1>1, <1>4, <1>5 DEF IInv, TypeOK
<1>7. OneEntryPerSocket /\ OneEntryPerSocket'
  BY <1>1, <1>2 DEF IInv, OneEntryPerSocket
<1>8. EmptyEntries'
  <2> SUFFICES ASSUME NEW i \in DOMAIN t, NEW k \in DOMAIN t[i].locks_
               PROVE  /\ t[i].control_socket_ # NoSocket
                      /\ t[i].locks_[k].released => ~t[i].locks_[k].waiting
    BY DEF EmptyEntries
  <2>1. /\ socket_locks_[i].control_socket_ # NoSocket
        /\ socket_locks_[i].locks_[k].released => ~socket_locks_[i].locks_[k].waiting
    BY <1>1, <1>2 DEF IInv, EmptyEntries
  <2>2. CASE t[i].control_socket_ = s
    BY <1>2, <1>3, <2>1, <2>2
  <2>3. CASE t[i].control_socket_ # s
    BY <1>2, <2>1, <2>3
  <2> QED BY <2>2, <2>3
<1>9. HandlesMatchLocks'
  BY <1>1, <1>2, <1>3, <1>4 DEF IInv, HandlesMatchLocks
(* A newly obtained lock was not blocked, in the table before, by any other
   entry, and the other entries are those of other sockets: unchanged. *)
<1>10. ASSUME NEW i \in DOMAIN t, NEW j \in DOMAIN t, i # j,
              t[i].server_ = t[j].server_,
              NEW k \in DOMAIN t[i].locks_, Held(t[i].locks_[k]),
              NEW l \in DOMAIN t[j].locks_, Held(t[j].locks_[l]),
              Conflicts(t[j].locks_[l], t[i].locks_[k]),
              t[j].control_socket_ # s
       PROVE  FALSE
  <2>1. /\ i \in DOMAIN socket_locks_ /\ j \in DOMAIN socket_locks_
        /\ k \in DOMAIN socket_locks_[i].locks_
        /\ l \in DOMAIN socket_locks_[j].locks_
        /\ t[j] = socket_locks_[j]
        /\ socket_locks_[i].server_ = socket_locks_[j].server_
    BY <1>1, <1>2, <1>10
  <2>2. Conflicts(socket_locks_[j].locks_[l], socket_locks_[i].locks_[k])
    BY <1>3, <1>10, <2>1 DEF Conflicts
  <2>3. CASE Held(socket_locks_[i].locks_[k])
    BY <1>10, <2>1, <2>2, <2>3 DEF IInv, MutualExclusion, BlockedBy
  <2>4. CASE ~Held(socket_locks_[i].locks_[k])
    <3>1. t[i].control_socket_ = s
      BY <1>2, <1>10, <2>4
    <3>2. ~StillBlocked(socket_locks_, i, socket_locks_[i].locks_[k])
      BY <1>3, <1>10, <2>4, <3>1 DEF Held
    <3> QED BY <1>10, <2>1, <2>2, <3>2 DEF StillBlocked, BlockedBy
  <2> QED BY <2>3, <2>4
<1>11. MutualExclusion'
  <2> SUFFICES ASSUME NEW i \in DOMAIN t, NEW j \in DOMAIN t, i # j,
                      t[i].server_ = t[j].server_,
                      NEW k \in DOMAIN t[i].locks_, Held(t[i].locks_[k]),
                      NEW l \in DOMAIN t[j].locks_, Held(t[j].locks_[l]),
                      Conflicts(t[j].locks_[l], t[i].locks_[k])
               PROVE  FALSE
    BY DEF MutualExclusion, BlockedBy
  <2>1. CASE t[j].control_socket_ # s
    BY <1>10, <2>1
  <2>2. CASE t[j].control_socket_ = s
    <3>1. t[i].control_socket_ # s
      BY <1>7, <2>2, SocketsAssumption DEF OneEntryPerSocket
    <3>2. Conflicts(t[i].locks_[k], t[j].locks_[l])
      BY ConflictsSymmetric
    <3> QED BY <1>10, <3>1, <3>2
  <2> QED BY <2>1, <2>2
<1>12. NoLostWakeup'
  <2> SUFFICES ASSUME NEW i \in DOMAIN t, NEW k \in DOMAIN t[i].locks_,
                      t[i].locks_[k].waiting
               PROVE  \/ StillBlocked(t, i, t[i].locks_[k])
                      \/ /\ t[i].control_socket_ \in Sockets
                         /\ events'[t[i].control_socket_] > 0
    BY DEF NoLostWakeup
  <2>1. i \in DOMAIN socket_locks_ /\ k \in DOMAIN socket_locks_[i].locks_
    BY <1>1, <1>2
  <2>2. ASSUME StillBlocked(socket_locks_, i, socket_locks_[i].locks_[k])
        PROVE  StillBlocked(t, i, t[i].locks_[k])
    <3>1. PICK j \in DOMAIN socket_locks_ \ {i} :
               BlockedBy(socket_locks_[j], socket_locks_[i].locks_[k])
      BY <2>2 DEF StillBlocked
    <3>2. PICK l \in DOMAIN socket_locks_[j].locks_ :
               /\ Held(socket_locks_[j].locks_[l])
               /\ Conflicts(socket_locks_[j].locks_[l], socket_locks_[i].locks_[k])
      BY <3>1 DEF BlockedBy
    <3>3. j \in DOMAIN t /\ l \in DOMAIN t[j].locks_
      BY <1>1, <1>2, <3>2
    <3>4. Held(t[j].locks_[l])
      <4>1. CASE t[j].control_socket_ = s
        BY <1>3, <3>2, <3>3, <4>1 DEF Held
      <4>2. CASE t[j].control_socket_ # s
        BY <1>2, <3>2, <3>3, <4>2
      <4> QED BY <4>1, <4>2
    <3>5. Conflicts(t[j].locks_[l], t[i].locks_[k])
      BY <1>3, <3>2, <3>3 DEF Conflicts
    <3> QED BY <3>3, <3>4, <3>5, <1>1, <3>1 DEF StillBlocked, BlockedBy
  <2>3. CASE t[i].control_socket_ = s
    <3>1. StillBlocked(socket_locks_, i, socket_locks_[i].locks_[k])
      BY <1>3, <2>3
    <3> QED BY <2>2, <3>1
  <2>4. CASE t[i].control_socket_ # s
    <3>1. socket_locks_[i].locks_[k].waiting
      BY <1>2, <2>4
    <3> QED BY <1>2, <1>5, <2>1, <2>2, <2>4, <3>1 DEF IInv, NoLostWakeup
  <2> QED BY <2>3, <2>4
<1> QED BY <1>6, <1>7, <1>8, <1>9, <1>11, <1>12 DEF IInv

-----------------------------------------------------------------------------
(* Lock pushes to a table that is the current one, or the current one with an
   empty entry of the socket at its end; either way entry i is the only one of
   the socket. *)
LEMMA LockAtInductive ==
    ASSUME IInv, NEW s \in Sockets, NEW lock \in LockInfo,
           ~lock.waiting, ~lock.released,
           NEW table \in Seq(SocketLockInfo), NEW i \in DOMAIN table,
           DOMAIN socket_locks_ \subseteq DOMAIN table,
           \A j \in DOMAIN socket_locks_ : table[j] = socket_locks_[j],
           \A j \in DOMAIN table \ DOMAIN socket_locks_ :
               j = i /\ DOMAIN table[j].locks_ = {},
           \A j \in DOMAIN table : table[j].control_socket_ = s <=> j = i,
           LockAt(table, i, s, lock),
           lockCount < MaxLocks, lockCount' = lockCount + 1,
           events' = events
    PROVE  IInv'
<1> DEFINE t == socket_locks_'
           n == Len(table[i].locks_) + 1
<1> DEFINE Old(j, k) == /\ j \in DOMAIN socket_locks_
                        /\ k \in DOMAIN socket_locks_[j].locks_
                        /\ t[j].locks_[k] = socket_locks_[j].locks_[k]
                        /\ t[j].server_ = socket_locks_[j].server_
                        /\ t[j].control_socket_ = socket_locks_[j].control_socket_
<1>1. /\ t \in Seq(SocketLockInfo)
      /\ n \in Nat \ {0}
      /\ DOMAIN t = DOMAIN table
      /\ \A j \in DOMAIN table :
            /\ t[j].server_ = table[j].server_
            /\ t[j].control_socket_ = table[j].control_socket_
            /\ j # i => t[j] = table[j]
      /\ DOMAIN t[i].locks_ = DOMAIN table[i].locks_ \cup {n}
      /\ \A k \in DOMAIN table[i].locks_ :
            k # n /\ t[i].locks_[k] = table[i].locks_[k]
      /\ handles' = handles \cup {<<s, i, n>>}
  BY LockAtEffect, ZenonT(60)
<1>2. t[i].locks_[n] = [lock EXCEPT !.waiting =
                                    MustWait(table, s, table[i].server_, lock)]
  BY LockAtEffect
<1>3. /\ t[i].locks_[n].path = lock.path
      /\ t[i].locks_[n].reason = lock.reason
      /\ t[i].locks_[n].inclusive = lock.inclusive
      /\ ~t[i].locks_[n].released
      /\ t[i].locks_[n].waiting <=> MustWait(table, s, table[i].server_, lock)
  BY <1>2 DEF LockInfo
<1> HIDE DEF n
<1>4. ASSUME NEW j \in DOMAIN t, NEW k \in DOMAIN t[j].locks_
      PROVE  (j = i /\ k = n) \/ Old(j, k)
  BY <1>1
<1>5. ASSUME NEW j \in DOMAIN socket_locks_, NEW k \in DOMAIN socket_locks_[j].locks_
      PROVE  /\ j \in DOMAIN t
             /\ k \in DOMAIN t[j].locks_
             /\ t[j].locks_[k] = socket_locks_[j].locks_[k]
             /\ t[j].control_socket_ = socket_locks_[j].control_socket_
  BY <1>1
<1>6. TypeOK'
  <2>1. <<s, i, n>> \in Sockets \X (Nat \ {0}) \X (Nat \ {0})
    BY <1>1
  <2>2. lockCount' \in 0..MaxLocks
    BY BoundAssumption DEF IInv, TypeOK
  <2> QED BY <1>1, <2>1, <2>2 DEF IInv, TypeOK
<1>7. EmptyEntries'
  <2> SUFFICES ASSUME NEW j \in DOMAIN t, NEW k \in DOMAIN t[j].locks_
               PROVE  /\ t[j].control_socket_ # NoSocket
                      /\ t[j].locks_[k].released => ~t[j].locks_[k].waiting
    BY DEF EmptyEntries
  <2>1. CASE j = i
    <3>1. t[j].control_socket_ # NoSocket
      BY <1>1, <2>1, SocketsAssumption
    <3>2. CASE k = n
      BY <1>3, <2>1, <3>1, <3>2
    <3>3. CASE k # n
      BY <1>4, <3>1, <3>3 DEF IInv, EmptyEntries
    <3> QED BY <3>2, <3>3
  <2>2. CASE j # i
    BY <1>4, <2>2 DEF IInv, EmptyEntries
  <2> QED BY <2>1, <2>2
<1>8. OneEntryPerSocket'
  <2> SUFFICES ASSUME NEW j \in DOMAIN t, NEW l \in DOMAIN t,
                      t[j].control_socket_ = t[l].control_socket_,
                      t[j].control_socket_ # NoSocket
               PROVE  j = l
    BY DEF OneEntryPerSocket
  <2>1. CASE j \in DOMAIN socket_locks_ /\ l \in DOMAIN socket_locks_
    BY <1>1, <2>1 DEF IInv, OneEntryPerSocket
  <2>2. CASE j \notin DOMAIN socket_locks_ \/ l \notin DOMAIN socket_locks_
    BY <1>1, <2>2
  <2> QED BY <2>1, <2>2
<1>9. HandlesMatchLocks'
  <2>1. ASSUME NEW g \in handles'
        PROVE  /\ g[2] \in DOMAIN t
               /\ t[g[2]].control_socket_ = g[1]
               /\ g[3] \in DOMAIN t[g[2]].locks_
               /\ ~t[g[2]].locks_[g[3]].released
    <3>1. CASE g \in handles
      BY <1>5, <3>1 DEF IInv, HandlesMatchLocks
    <3>2. CASE g = <<s, i, n>>
      BY <1>1, <1>3, <3>2
    <3> QED BY <1>1, <3>1, <3>2
  <2>2. ASSUME NEW j \in DOMAIN t, NEW k \in DOMAIN t[j].locks_
        PROVE  t[j].locks_[k].released \/ <<t[j].control_socket_, j, k>> \in handles'
    <3>1. CASE j = i /\ k = n
      BY <1>1, <3>1
    <3>2. CASE Old(j, k)
      BY <1>1, <3>2 DEF IInv, HandlesMatchLocks
    <3> QED BY <1>4, <3>1, <3>2
  <2> QED BY <2>1, <2>2 DEF HandlesMatchLocks
<1>10. ASSUME NEW j \in DOMAIN t, j # i, t[i].server_ = t[j].server_,
              NEW l \in DOMAIN t[j].locks_, Held(t[j].locks_[l]),
              Conflicts(t[j].locks_[l], t[i].locks_[n])
       PROVE  t[i].locks_[n].waiting
  <2>1. j \in DOMAIN table /\ t[j] = table[j] /\ table[j].control_socket_ # s
    BY <1>1, <1>10
  <2>2. Conflicts(table[j].locks_[l], lock)
    BY <1>3, <1>10, <2>1 DEF Conflicts
  <2>3. BlockedBy(table[j], lock)
    BY <1>10, <2>1, <2>2 DEF BlockedBy
  <2> QED BY <1>1, <1>3, <1>10, <2>1, <2>3 DEF MustWait
<1>11. MutualExclusion'
  <2> SUFFICES ASSUME NEW j \in DOMAIN t, NEW m \in DOMAIN t, j # m,
                      t[j].server_ = t[m].server_,
                      NEW k \in DOMAIN t[j].locks_, Held(t[j].locks_[k]),
                      NEW l \in DOMAIN t[m].locks_, Held(t[m].locks_[l]),
                      Conflicts(t[m].locks_[l], t[j].locks_[k])
               PROVE  FALSE
    BY DEF MutualExclusion, BlockedBy
  <2>1. CASE j = i /\ k = n
    BY <1>10, <2>1 DEF Held
  <2>2. CASE m = i /\ l = n
    <3>1. Conflicts(t[j].locks_[k], t[i].locks_[n])
      BY <2>2, ConflictsSymmetric
    <3> QED BY <1>10, <2>2, <3>1 DEF Held
  <2>3. CASE Old(j, k) /\ Old(m, l)
    BY <2>3 DEF IInv, MutualExclusion, BlockedBy
  <2> QED BY <1>4, <2>1, <2>2, <2>3
<1>12. NoLostWakeup'
  <2> SUFFICES ASSUME NEW j \in DOMAIN t, NEW k \in DOMAIN t[j].locks_,
                      t[j].locks_[k].waiting
               PROVE  \/ StillBlocked(t, j, t[j].locks_[k])
                      \/ /\ t[j].control_socket_ \in Sockets
                         /\ events'[t[j].control_socket_] > 0
    BY DEF NoLostWakeup
  <2>1. CASE j = i /\ k = n
    <3>1. MustWait(table, s, table[i].server_, lock)
      BY <1>3, <2>1
    <3>2. PICK m \in DOMAIN table :
               table[m].control_socket_ # s /\ BlockedBy(table[m], lock)
      BY <3>1 DEF MustWait
    <3>3. m \in DOMAIN t \ {i} /\ t[m] = table[m]
      BY <1>1, <3>2
    <3>4. BlockedBy(t[m], t[i].locks_[n])
      BY <1>3, <3>2, <3>3 DEF BlockedBy, Conflicts
    <3> QED BY <2>1, <3>3, <3>4 DEF StillBlocked
  <2>2. CASE Old(j, k)
    <3>1. ASSUME StillBlocked(socket_locks_, j, socket_locks_[j].locks_[k])
          PROVE  StillBlocked(t, j, t[j].locks_[k])
      <4>1. PICK m \in DOMAIN socket_locks_ \ {j} :
                 BlockedBy(socket_locks_[m], socket_locks_[j].locks_[k])
        BY <3>1 DEF StillBlocked
      <4>2. BlockedBy(t[m], t[j].locks_[k]) /\ m \in DOMAIN t
        BY <1>1, <1>5, <2>2, <4>1 DEF BlockedBy
      <4> QED BY <4>1, <4>2 DEF StillBlocked
    <3> QED BY <2>2, <3>1 DEF IInv, NoLostWakeup
  <2> QED BY <1>4, <2>1, <2>2
<1> QED BY <1>6, <1>7, <1>8, <1>9, <1>11, <1>12 DEF IInv

LEMMA LockInductive ==
    ASSUME IInv, NEW s \in Sockets, NEW r \in Reasons, NEW p \in Paths,
           NEW inc \in BOOLEAN, Lock(s, r, p, inc)
    PROVE  IInv'
<1> DEFINE lock == NewLock(r, p, inc)
<1>1. lock \in LockInfo /\ ~lock.waiting /\ ~lock.released
  BY NewLockType DEF NewLock
<1>2. lockCount < MaxLocks /\ lockCount' = lockCount + 1 /\ events' = events
  BY DEF Lock
<1>3. socket_locks_ \in Seq(SocketLockInfo)
  BY DEF IInv, TypeOK
<1> HIDE DEF lock
<1>4. CASE \E i \in EntryOf(socket_locks_, s) : LockAt(socket_locks_, i, s, lock)
  <2>1. PICK i \in EntryOf(socket_locks_, s) : LockAt(socket_locks_, i, s, lock)
    BY <1>4
  <2>2. i \in DOMAIN socket_locks_ /\ socket_locks_[i].control_socket_ = s
    BY <2>1 DEF EntryOf
  <2>3. \A j \in DOMAIN socket_locks_ : socket_locks_[j].control_socket_ = s <=> j = i
    BY <2>2, SocketsAssumption DEF IInv, OneEntryPerSocket
  <2> QED BY <1>1, <1>2, <1>3, <2>1, <2>2, <2>3, LockAtInductive
<1>5. CASE /\ EntryOf(socket_locks_, s) = {}
           /\ LockAt(Append(socket_locks_, Created(s)), Len(socket_locks_) + 1, s, lock)
  <2> DEFINE table == Append(socket_locks_, Created(s))
             i == Len(socket_locks_) + 1
  <2>1. table \in Seq(SocketLockInfo) /\ i \in DOMAIN table
    BY CreatedType DEF IInv
  <2>2. /\ DOMAIN table = DOMAIN socket_locks_ \cup {i}
        /\ i \notin DOMAIN socket_locks_
        /\ table[i] = Created(s)
        /\ \A j \in DOMAIN socket_locks_ : table[j] = socket_locks_[j]
    BY <1>3
  <2>3. table[i].control_socket_ = s /\ DOMAIN table[i].locks_ = {}
    BY <2>2 DEF Created
  <2>4. \A j \in DOMAIN table : table[j].control_socket_ = s <=> j = i
    BY <1>5, <2>2, <2>3 DEF EntryOf
  <2>5. LockAt(table, i, s, lock)
    BY <1>5
  <2> HIDE DEF table, i
  <2> QED BY <1>1, <1>2, <2>1, <2>2, <2>3, <2>4, <2>5, LockAtInductive
<1> QED BY <1>4, <1>5 DEF Lock, lock

LEMMA NextInductive == IInv /\ [Next]_vars => IInv'
<1> SUFFICES ASSUME IInv, [Next]_vars PROVE IInv'
  OBVIOUS
<1>1. ASSUME NEW s \in Sockets, NEW r \in Reasons, NEW p \in Paths,
             NEW inc \in BOOLEAN, Lock(s, r, p, inc)
      PROVE  IInv'
  BY <1>1, LockInductive
<1>2. ASSUME NEW h \in handles, Unlock(h)
      PROVE  IInv'
  BY <1>2, UnlockInductive
<1>3. ASSUME NEW s \in Sockets, OnObtainLock(s)
      PROVE  IInv'
  BY <1>3, OnObtainLockInductive
<1>4. CASE UNCHANGED vars
  BY <1>4 DEF vars, IInv, TypeOK, EmptyEntries, OneEntryPerSocket, MutualExclusion,
              BlockedBy, HandlesMatchLocks, NoLostWakeup, StillBlocked
<1> QED BY <1>1, <1>2, <1>3, <1>4 DEF Next

(* The lock table, the live OpLocks and the event counters always have their
   types, and at most MaxLocks locks are ever taken. *)
THEOREM TypeCorrect == Spec => []TypeOK
<1>1. IInv => TypeOK
  BY DEF IInv
<1> QED BY <1>1, InitIInv, NextInductive, PTL DEF Spec

(* Whatever the sockets, servers and paths, and in every interleaving of Lock,
   Unlock and ObtainWaiting, two sockets on one server never both hold
   conflicting locks. *)
THEOREM MutualExclusionHolds == Spec => []MutualExclusion
<1>1. IInv => MutualExclusion
  BY DEF IInv
<1> QED BY <1>1, InitIInv, NextInductive, PTL DEF Spec

(* The index pair of a live OpLock never dangles and no lock is leaked, so the
   asserts in Unlock and Waiting never fail. *)
THEOREM HandlesStayValid == Spec => []HandlesMatchLocks
<1>1. IInv => HandlesMatchLocks
  BY DEF IInv
<1> QED BY <1>1, InitIInv, NextInductive, PTL DEF Spec

(* A lock nobody is in the way of does not wait without an obtain event queued
   for its socket. *)
THEOREM WakeupsAreNotLost == Spec => []NoLostWakeup
<1>1. IInv => NoLostWakeup
  BY DEF IInv
<1> QED BY <1>1, InitIInv, NextInductive, PTL DEF Spec

-----------------------------------------------------------------------------
(* The control sockets that use the table. *)

(* The lock an OpLock stands for. *)
At(h) == socket_locks_[h[2]].locks_[h[3]]

(* A call of Lock has made the OpLock <<s, i, n>>, and left the locks of the others
   alone. *)
Gives(s, i, n, lock) ==
    /\ i \in Nat \ {0} /\ n \in Nat \ {0}
    /\ handles' = handles \cup {<<s, i, n>>} /\ <<s, i, n>> \notin handles
    /\ \A h \in handles : At(h)' = At(h) /\ (h[1] = s => h[2] = i)
    /\ LET new == socket_locks_'[i].locks_[n]
       IN  /\ new.path = lock.path /\ new.reason = lock.reason /\ new.inclusive = lock.inclusive
           /\ new.waiting /\ i \in DOMAIN socket_locks_ =>
                 \E j \in DOMAIN socket_locks_ \ {i} :
                    /\ socket_locks_[j].server_ = socket_locks_[i].server_
                    /\ BlockedBy(socket_locks_[j], lock)

LEMMA LockAtGives ==
    ASSUME IInv, NEW s \in Sockets, NEW lock \in LockInfo,
           NEW table \in Seq(SocketLockInfo), NEW i \in DOMAIN table,
           DOMAIN socket_locks_ \subseteq DOMAIN table,
           \A j \in DOMAIN socket_locks_ : table[j] = socket_locks_[j],
           \A j \in DOMAIN table \ DOMAIN socket_locks_ :
               j = i /\ DOMAIN table[j].locks_ = {},
           \A j \in DOMAIN table : table[j].control_socket_ = s <=> j = i,
           LockAt(table, i, s, lock)
    PROVE  \E n : Gives(s, i, n, lock)
<1> DEFINE t == socket_locks_'
           n == Len(table[i].locks_) + 1
<1>2. /\ t \in Seq(SocketLockInfo)
      /\ n \in Nat \ {0}
      /\ DOMAIN t = DOMAIN table
      /\ \A j \in DOMAIN table :
            /\ t[j].server_ = table[j].server_
            /\ t[j].control_socket_ = table[j].control_socket_
            /\ j # i => t[j] = table[j]
      /\ DOMAIN t[i].locks_ = DOMAIN table[i].locks_ \cup {n}
      /\ \A k \in DOMAIN table[i].locks_ :
            k # n /\ t[i].locks_[k] = table[i].locks_[k]
      /\ handles' = handles \cup {<<s, i, n>>}
  BY LockAtEffect, ZenonT(60)
<1>3. t[i].locks_[n] = [lock EXCEPT !.waiting = MustWait(table, s, table[i].server_, lock)]
  BY LockAtEffect
<1>4. /\ t[i].locks_[n].path = lock.path /\ t[i].locks_[n].reason = lock.reason
      /\ t[i].locks_[n].inclusive = lock.inclusive
      /\ t[i].locks_[n].waiting <=> MustWait(table, s, table[i].server_, lock)
  BY <1>3 DEF LockInfo
<1>5. i \in Nat \ {0} /\ n \notin DOMAIN table[i].locks_
  BY <1>2
<1> HIDE DEF n
<1>6. ASSUME NEW h \in handles
      PROVE  /\ h[2] \in DOMAIN socket_locks_ /\ h[3] \in DOMAIN table[h[2]].locks_
             /\ table[h[2]] = socket_locks_[h[2]] /\ (h[1] = s => h[2] = i)
  BY DEF IInv, HandlesMatchLocks
<1>7. <<s, i, n>> \notin handles
  BY <1>5, <1>6
<1>8. ASSUME NEW h \in handles PROVE At(h)' = At(h)
  <2>1. t[h[2]].locks_[h[3]] = table[h[2]].locks_[h[3]]
    BY <1>2, <1>6
  <2>2. QED
    BY <1>6, <2>1 DEF At
<1>9. ASSUME t[i].locks_[n].waiting, i \in DOMAIN socket_locks_
      PROVE  \E j \in DOMAIN socket_locks_ \ {i} :
                /\ socket_locks_[j].server_ = socket_locks_[i].server_
                /\ BlockedBy(socket_locks_[j], lock)
  <2>1. PICK j \in DOMAIN table : /\ table[j].control_socket_ # s
                                  /\ table[j].server_ = table[i].server_
                                  /\ BlockedBy(table[j], lock)
    BY <1>4, <1>9 DEF MustWait
  <2>2. j # i /\ j \in DOMAIN socket_locks_
    BY <2>1
  <2>3. QED
    BY <1>9, <2>1, <2>2
<1>10. Gives(s, i, n, lock)
  BY <1>2, <1>4, <1>5, <1>6, <1>7, <1>8, <1>9 DEF Gives
<1>11. QED
  BY <1>10

LEMMA LockGives ==
    ASSUME IInv, NEW s \in Sockets, NEW r \in Reasons, NEW p \in Paths, Lock(s, r, p, FALSE)
    PROVE  \E i, n : Gives(s, i, n, NewLock(r, p, FALSE))
<1> DEFINE lock == NewLock(r, p, FALSE)
<1>1. socket_locks_ \in Seq(SocketLockInfo)
  BY DEF IInv, TypeOK
<1>4. lock \in LockInfo
  BY NewLockType
<1> HIDE DEF lock
<1>2. CASE \E i \in EntryOf(socket_locks_, s) : LockAt(socket_locks_, i, s, lock)
  <2>1. PICK i \in EntryOf(socket_locks_, s) : LockAt(socket_locks_, i, s, lock)
    BY <1>2
  <2>2. i \in DOMAIN socket_locks_ /\ socket_locks_[i].control_socket_ = s
    BY <2>1 DEF EntryOf
  <2>3. \A j \in DOMAIN socket_locks_ : socket_locks_[j].control_socket_ = s <=> j = i
    BY <2>2, SocketsAssumption DEF IInv, OneEntryPerSocket
  <2>4. \E n : Gives(s, i, n, lock)
    BY <1>1, <1>4, <2>1, <2>2, <2>3, LockAtGives
  <2> QED BY <2>4 DEF lock
<1>3. CASE /\ EntryOf(socket_locks_, s) = {}
           /\ LockAt(Append(socket_locks_, Created(s)), Len(socket_locks_) + 1, s, lock)
  <2> DEFINE table == Append(socket_locks_, Created(s))
             i == Len(socket_locks_) + 1
  <2>1. table \in Seq(SocketLockInfo) /\ i \in DOMAIN table
    BY CreatedType DEF IInv
  <2>2. /\ DOMAIN table = DOMAIN socket_locks_ \cup {i}
        /\ i \notin DOMAIN socket_locks_
        /\ table[i] = Created(s)
        /\ \A j \in DOMAIN socket_locks_ : table[j] = socket_locks_[j]
    BY <1>1
  <2>3. table[i].control_socket_ = s /\ DOMAIN table[i].locks_ = {}
    BY <2>2 DEF Created
  <2>4. \A j \in DOMAIN table : table[j].control_socket_ = s <=> j = i
    BY <1>3, <2>2, <2>3 DEF EntryOf
  <2>5. LockAt(table, i, s, lock)
    BY <1>3
  <2> HIDE DEF table, i
  <2>6. \E n : Gives(s, i, n, lock)
    BY <1>4, <2>1, <2>2, <2>3, <2>4, <2>5, LockAtGives
  <2> QED BY <2>6 DEF lock
<1> QED BY <1>2, <1>3 DEF Lock, lock

(* Unlock leaves the locks of the other OpLocks alone. *)
LEMMA UnlockLeaves ==
    ASSUME IInv, NEW h \in handles, Unlock(h), NEW g \in handles, g # h
    PROVE  g \in handles' /\ At(g)' = At(g)
<1>1. h \in Sockets \X (Nat \ {0}) \X (Nat \ {0}) /\ g \in Sockets \X (Nat \ {0}) \X (Nat \ {0})
  BY DEF IInv, TypeOK
<1>2. /\ g[2] \in DOMAIN socket_locks_ /\ g[3] \in DOMAIN socket_locks_[g[2]].locks_
      /\ ~socket_locks_[g[2]].locks_[g[3]].released /\ socket_locks_[g[2]].control_socket_ = g[1]
      /\ socket_locks_[h[2]].control_socket_ = h[1]
  BY DEF IInv, HandlesMatchLocks
<1>3. <<g[2], g[3]>> # <<h[2], h[3]>>
  BY <1>1, <1>2
<1>4. Keeps(socket_locks_', h[2], h[3])
  BY UnlockEffect
<1>5. socket_locks_'[g[2]].locks_[g[3]] = socket_locks_[g[2]].locks_[g[3]]
  BY <1>2, <1>3, <1>4 DEF Keeps
<1>6. QED
  BY <1>5 DEF Unlock, At

(* An event may make a lock stop waiting and changes nothing else of it. *)
LEMMA ObtainLeaves ==
    ASSUME IInv, NEW s \in Sockets, OnObtainLock(s), NEW g \in handles
    PROVE  /\ At(g)'.path = At(g).path /\ At(g)'.reason = At(g).reason /\ At(g)'.inclusive = At(g).inclusive
           /\ At(g)'.waiting => At(g).waiting
<1>1. g[2] \in DOMAIN socket_locks_ /\ g[3] \in DOMAIN socket_locks_[g[2]].locks_
  BY DEF IInv, HandlesMatchLocks
<1>2. /\ g[2] \in DOMAIN socket_locks_' /\ g[3] \in DOMAIN socket_locks_'[g[2]].locks_
      /\ socket_locks_'[g[2]].control_socket_ # s => socket_locks_'[g[2]] = socket_locks_[g[2]]
  BY <1>1, OnObtainLockEffect
<1>3. LET old == socket_locks_[g[2]].locks_[g[3]]
          new == socket_locks_'[g[2]].locks_[g[3]]
      IN  /\ new.path = old.path /\ new.reason = old.reason /\ new.inclusive = old.inclusive
          /\ socket_locks_'[g[2]].control_socket_ = s => (new.waiting => old.waiting)
  BY <1>1, <1>2, OnObtainLockEffect
<1>4. QED
  BY <1>2, <1>3 DEF At

(* An operation of a socket has a lock of its own: on its path, for what it does.  Only a
   cwd that has its lock may still create the directory. *)
Owned(s, o) ==
    /\ <<s, o.opLock_[1], o.opLock_[2]>> \in handles
    /\ LockOf(o).path = o.path /\ LockOf(o).reason = Reason(o.kind) /\ ~LockOf(o).inclusive
    /\ o.tryMkdOnFail_ => ~LockOf(o).waiting

(* The only nested operation is a mkd on top of a cwd, and neither waits. *)
Stack(s) ==
    /\ Len(operations_[s]) <= 2
    /\ \A m \in DOMAIN operations_[s] : Owned(s, operations_[s][m])
    /\ Len(operations_[s]) = 2 =>
          /\ operations_[s][1].opLock_ # operations_[s][2].opLock_ /\ ~operations_[s][2].tryMkdOnFail_
          /\ ~LockOf(operations_[s][1]).waiting /\ ~LockOf(operations_[s][2]).waiting

ClientInv ==
    /\ IInv
    /\ operations_ \in [Sockets -> Seq(OpData)]
    /\ \A s \in Sockets : Stack(s)

(* A step has left an OpLock to its owner, and at most ended its waiting. *)
Left(g) ==
    /\ g \in handles'
    /\ At(g)'.path = At(g).path /\ At(g)'.reason = At(g).reason /\ At(g)'.inclusive = At(g).inclusive
    /\ At(g)'.waiting => At(g).waiting

LEMMA OwnedStays ==
    ASSUME NEW s, NEW o, Owned(s, o), Left(<<s, o.opLock_[1], o.opLock_[2]>>)
    PROVE  Owned(s, o)' /\ (LockOf(o)'.waiting => LockOf(o).waiting)
  BY DEF Owned, Left, LockOf, At, Reason

LEMMA StackStays ==
    ASSUME ClientInv, NEW s \in Sockets, operations_'[s] = operations_[s], \A g \in handles : g[1] = s => Left(g)
    PROVE  Stack(s)'
<1> DEFINE ops == operations_[s]
<1>1. Stack(s) /\ ops \in Seq(OpData)
  BY DEF ClientInv
<1>2. ASSUME NEW m \in DOMAIN ops
      PROVE  Owned(s, ops[m])' /\ (LockOf(ops[m])'.waiting => LockOf(ops[m]).waiting)
  <2>1. PICK o : o = ops[m]
    OBVIOUS
  <2>2. Owned(s, o) /\ Left(<<s, o.opLock_[1], o.opLock_[2]>>)
    BY <1>1, <1>2, <2>1 DEF Stack, Owned
  <2>3. Owned(s, o)' /\ (LockOf(o)'.waiting => LockOf(o).waiting)
    BY <2>2, OwnedStays
  <2>4. QED
    BY <2>1, <2>3 DEF Owned, LockOf
<1>3. Len(ops) = 2 => /\ 1 \in DOMAIN ops /\ 2 \in DOMAIN ops
                      /\ ops[1].opLock_ # ops[2].opLock_ /\ ~ops[2].tryMkdOnFail_
                      /\ ~LockOf(ops[1]).waiting /\ ~LockOf(ops[2]).waiting
  BY <1>1 DEF Stack
<1>4. Len(ops) <= 2 /\ ops' = ops
  BY <1>1 DEF Stack
<1>5. /\ \A m \in DOMAIN ops' : Owned(s, ops[m])'
      /\ Len(ops') = 2 => ~(LockOf(ops[1])').waiting /\ ~(LockOf(ops[2])').waiting
  BY <1>2, <1>3, <1>4
<1>6. QED
  BY <1>3, <1>4, <1>5 DEF Stack

LEMMA LengthFacts ==
    ASSUME NEW S, NEW q \in Seq(S)
    PROVE  Len(q) \in Nat /\ DOMAIN q = 1..Len(q) /\ (q # <<>> => Len(q) > 0) /\ \A m \in 1..Len(q) : q[m] \in S
  OBVIOUS

LEMMA AppendFacts ==
    ASSUME NEW S, NEW q \in Seq(S), NEW w \in S
    PROVE  /\ Append(q, w) \in Seq(S) /\ Len(Append(q, w)) = Len(q) + 1 /\ Append(q, w)[Len(q) + 1] = w
           /\ \A k \in 1..Len(q) : Append(q, w)[k] = q[k]
  OBVIOUS

LEMMA OneOrTwo == ASSUME NEW k \in Nat, k > 0, k <= 2 PROVE k = 1 \/ k = 2
  OBVIOUS

LEMMA PairFacts ==
    ASSUME NEW S, NEW q \in Seq(S), Len(q) = 1, NEW w \in S, NEW r, r = Append(q, w)
    PROVE  r \in Seq(S) /\ Len(r) = 2 /\ DOMAIN r = {1, 2} /\ r[1] = q[1] /\ r[2] = w
<1>1. /\ Append(q, w) \in Seq(S) /\ Len(Append(q, w)) = Len(q) + 1 /\ Append(q, w)[Len(q) + 1] = w
      /\ \A k \in 1..Len(q) : Append(q, w)[k] = q[k]
  BY AppendFacts
<1>2. r \in Seq(S) /\ Len(r) = 2 /\ r[1] = q[1] /\ r[2] = w
  BY <1>1
<1>3. DOMAIN r = 1..2
  BY <1>2, LengthFacts
<1>4. 1..2 = {1, 2}
  OBVIOUS
<1>5. QED
  BY <1>2, <1>3, <1>4

LEMMA SingletonFacts ==
    ASSUME NEW S, NEW q \in Seq(S), Len(q) = 1, NEW v \in S, NEW w \in S
    PROVE  LET r == Append([q EXCEPT ![1] = v], w)
           IN  r \in Seq(S) /\ Len(r) = 2 /\ DOMAIN r = {1, 2} /\ r[1] = v /\ r[2] = w
<1> DEFINE one == [q EXCEPT ![1] = v]
<1>1. one \in Seq(S) /\ Len(one) = 1 /\ one[1] = v
  OBVIOUS
<1> HIDE DEF one
<1>2. PICK r : r = Append(one, w)
  OBVIOUS
<1>3. r \in Seq(S) /\ Len(r) = 2 /\ DOMAIN r = {1, 2} /\ r[1] = one[1] /\ r[2] = w
  BY <1>1, <1>2, PairFacts
<1>4. QED
  BY <1>1, <1>2, <1>3 DEF one

LEMMA ReasonType == ASSUME NEW kind \in OpKinds PROVE Reason(kind) \in Reasons
  BY ReasonsAssumption DEF Reason

LEMMA ReturnedIs ==
    ASSUME NEW s, NEW i, NEW n, NEW lock, Gives(s, i, n, lock)
    PROVE  Returned(s) = <<s, i, n>>
<1>1. handles' \ handles = {<<s, i, n>>}
  BY DEF Gives
<1>2. <<s, i, n>>[1] = s /\ <<s, i, n>> \in handles' \ handles
  BY <1>1
<1>3. QED
  BY <1>1, <1>2 DEF Returned

LEMMA NewOpOwned ==
    ASSUME NEW s \in Sockets, NEW kind \in OpKinds, NEW path \in Paths, NEW i, NEW n,
           Gives(s, i, n, NewLock(Reason(kind), path, FALSE)), NEW o, o = NewOp(s, kind, path)
    PROVE  /\ o \in OpData /\ o.opLock_ = <<i, n>> /\ Owned(s, o)'
           /\ kind # "cwd" => ~o.tryMkdOnFail_
           /\ LockOf(o)' = socket_locks_'[i].locks_[n]
<1> DEFINE try == (kind = "cwd" /\ ~socket_locks_'[i].locks_[n].waiting)
<1>1. o = [kind |-> kind, path |-> path, opLock_ |-> <<i, n>>, tryMkdOnFail_ |-> try]
  <2>1. Returned(s) = <<s, i, n>>
    BY ReturnedIs
  <2>2. QED
    BY <2>1 DEF NewOp
<1>2. try \in BOOLEAN /\ i \in Nat \ {0} /\ n \in Nat \ {0} /\ <<s, i, n>> \in handles'
      /\ socket_locks_'[i].locks_[n].path = path /\ socket_locks_'[i].locks_[n].reason = Reason(kind)
      /\ ~socket_locks_'[i].locks_[n].inclusive
  BY DEF Gives, NewLock
<1>3. (try => kind = "cwd") /\ (try => ~socket_locks_'[i].locks_[n].waiting)
  OBVIOUS
<1> HIDE DEF try
<1>4. o \in OpData /\ o.opLock_ = <<i, n>> /\ o.path = path /\ o.kind = kind /\ o.tryMkdOnFail_ = try
  BY <1>1, <1>2 DEF OpData
<1>5. LockOf(o)' = socket_locks_'[i].locks_[n]
  BY <1>4 DEF LockOf
<1>6. QED
  BY <1>2, <1>3, <1>4, <1>5 DEF Owned, Reason

(* Lock leaves the stacks of the other sockets alone. *)
LEMMA GivesLeaves ==
    ASSUME NEW s, NEW i, NEW n, NEW lock, Gives(s, i, n, lock), NEW g \in handles
    PROVE  Left(g)
  BY DEF Gives, Left

LEMMA SendKeeps ==
    ASSUME ClientInv, NEW s \in Sockets, NEW kind \in OpKinds, NEW path \in Paths, Send(s, kind, path)
    PROVE  ClientInv'
<1>1. Reason(kind) \in Reasons /\ Lock(s, Reason(kind), path, FALSE) /\ IInv
  BY ReasonType DEF Send, ClientInv
<1>2. PICK i, n : Gives(s, i, n, NewLock(Reason(kind), path, FALSE))
  BY <1>1, LockGives
<1>3. PICK o : o = NewOp(s, kind, path)
  OBVIOUS
<1>4. o \in OpData /\ Owned(s, o)'
  BY <1>2, <1>3, NewOpOwned
<1>5. operations_' = [operations_ EXCEPT ![s] = <<o>>] /\ operations_ \in [Sockets -> Seq(OpData)]
  BY <1>3 DEF Send, ClientInv
<1>6. <<o>> \in Seq(OpData) /\ Len(<<o>>) = 1 /\ DOMAIN <<o>> = {1} /\ <<o>>[1] = o
  BY <1>4
<1>7. /\ operations_' \in [Sockets -> Seq(OpData)] /\ operations_'[s] = <<o>>
      /\ \A u \in Sockets : u # s => operations_'[u] = operations_[u]
  BY <1>5, <1>6
<1>8. Stack(s)'
  BY <1>4, <1>6, <1>7 DEF Stack
<1>9. ASSUME NEW u \in Sockets, u # s PROVE Stack(u)'
  BY <1>2, <1>7, <1>9, GivesLeaves, StackStays
<1>10. IInv'
  BY <1>1, LockInductive
<1>11. QED
  BY <1>7, <1>8, <1>9, <1>10 DEF ClientInv

(* The lock of the nested mkd does not wait: whatever is in its way would be in the way of
   the lock its cwd holds. *)
LEMMA CwdFailsKeeps ==
    ASSUME ClientInv, NEW s \in Sockets, CwdFails(s)
    PROVE  ClientInv'
<1> DEFINE ops == operations_[s]
<1>1. IInv /\ Stack(s) /\ ops \in Seq(OpData) /\ operations_ \in [Sockets -> Seq(OpData)]
  BY DEF ClientInv
<1>2. Len(ops) = 1 /\ Top(s) = ops[1] /\ 1 \in DOMAIN ops /\ DOMAIN ops = {1}
  <2>1. ops # <<>> /\ Len(ops) <= 2 /\ Top(s) = ops[Len(ops)] /\ Top(s).tryMkdOnFail_
    BY <1>1 DEF CwdFails, Stack, Top
  <2>2. Len(ops) # 2
    BY <2>1, <1>1 DEF Stack
  <2>3. Len(ops) \in Nat /\ Len(ops) > 0 /\ DOMAIN ops = 1..Len(ops)
    BY <1>1, <2>1, LengthFacts
  <2>4. Len(ops) = 1
    <3>1. Len(ops) = 1 \/ Len(ops) = 2
      BY <2>1, <2>3, OneOrTwo
    <3>2. QED
      BY <2>2, <3>1
  <2>5. QED
    BY <2>1, <2>3, <2>4
<1>3. PICK cwd : cwd = ops[1]
  OBVIOUS
<1>4. cwd \in OpData /\ Owned(s, cwd) /\ cwd.kind = "cwd" /\ cwd.tryMkdOnFail_ /\ cwd.path \in Paths
      /\ Lock(s, mkdir, cwd.path, FALSE)
  <2>1. cwd \in OpData
    <3>1. \A m \in 1..Len(ops) : ops[m] \in OpData
      BY <1>1, LengthFacts
    <3>2. 1 \in 1..Len(ops)
      BY <1>2
    <3>3. QED
      BY <1>3, <3>1, <3>2
  <2>2. Owned(s, cwd)
    BY <1>1, <1>2, <1>3 DEF Stack
  <2>3. cwd.kind = "cwd" /\ cwd.tryMkdOnFail_ /\ Lock(s, mkdir, cwd.path, FALSE)
    BY <1>2, <1>3 DEF CwdFails
  <2>4. QED
    BY <2>1, <2>2, <2>3 DEF OpData
<1>5. Reason("mkd") = mkdir /\ mkdir \in Reasons /\ "mkd" \in OpKinds /\ Reason("cwd") = mkdir
  BY ReasonsAssumption DEF Reason, OpKinds
<1>6. PICK i, n : Gives(s, i, n, NewLock(mkdir, cwd.path, FALSE))
  BY <1>1, <1>4, <1>5, LockGives
<1>7. PICK mkd : mkd = NewOp(s, "mkd", cwd.path)
  OBVIOUS
<1>8. mkd \in OpData /\ Owned(s, mkd)' /\ mkd.opLock_ = <<i, n>> /\ ~mkd.tryMkdOnFail_
      /\ LockOf(mkd)' = socket_locks_'[i].locks_[n]
  <2>1. Gives(s, i, n, NewLock(Reason("mkd"), cwd.path, FALSE))
    BY <1>5, <1>6
  <2>2. PICK kind : kind = "mkd"
    OBVIOUS
  <2>3. PICK path : path = cwd.path
    OBVIOUS
  <2>4. kind \in OpKinds /\ path \in Paths /\ Gives(s, i, n, NewLock(Reason(kind), path, FALSE))
        /\ mkd = NewOp(s, kind, path)
    BY <1>4, <1>5, <1>7, <2>1, <2>2, <2>3
  <2>10. mkd \in OpData
    BY <2>4, NewOpOwned
  <2>11. Returned(s) = <<s, i, n>>
    BY <1>6, ReturnedIs
  <2>5. mkd.opLock_ = <<i, n>>
    BY <1>7, <2>11 DEF NewOp
  <2>9. Owned(s, mkd)'
    BY <2>4, NewOpOwned
  <2>6. kind # "cwd" => ~mkd.tryMkdOnFail_
    BY <2>4, NewOpOwned
  <2>7. LockOf(mkd)' = socket_locks_'[i].locks_[n]
    BY <2>5 DEF LockOf
  <2>8. QED
    BY <2>2, <2>5, <2>6, <2>7, <2>9, <2>10
<1>9. ~socket_locks_'[i].locks_[n].waiting /\ cwd.opLock_ # <<i, n>>
  <2> DEFINE h == <<s, cwd.opLock_[1], cwd.opLock_[2]>>
  <2>1. h \in handles /\ LockOf(cwd) = At(h) /\ h[1] = s
    BY <1>4 DEF Owned, LockOf, At
  <2>2. h[2] = i /\ <<s, i, n>> \notin handles
    BY <1>6, <2>1 DEF Gives
  <2>3. cwd.opLock_ # <<i, n>>
    BY <2>1, <2>2
  <2>4. /\ i \in DOMAIN socket_locks_ /\ h[3] \in DOMAIN socket_locks_[i].locks_
        /\ ~socket_locks_[i].locks_[h[3]].released
    BY <1>1, <2>1, <2>2 DEF IInv, HandlesMatchLocks
  <2>5. LET lock == socket_locks_[i].locks_[h[3]]
        IN  lock.path = cwd.path /\ lock.reason = mkdir /\ ~lock.inclusive /\ ~lock.waiting
    BY <1>4, <1>5, <2>1, <2>2 DEF Owned, At
  <2>6. SUFFICES ASSUME NEW j \in DOMAIN socket_locks_ \ {i},
                        socket_locks_[j].server_ = socket_locks_[i].server_,
                        BlockedBy(socket_locks_[j], NewLock(mkdir, cwd.path, FALSE))
                 PROVE  FALSE
    BY <1>6, <2>3, <2>4 DEF Gives
  <2>7. BlockedBy(socket_locks_[j], socket_locks_[i].locks_[h[3]])
    BY <2>5, <2>6 DEF BlockedBy, Conflicts, NewLock
  <2>8. QED
    BY <1>1, <2>4, <2>5, <2>6, <2>7 DEF IInv, MutualExclusion, Held
<1>10. PICK old : old = [cwd EXCEPT !.tryMkdOnFail_ = FALSE]
  OBVIOUS
<1>11. old \in OpData /\ old.opLock_ = cwd.opLock_ /\ ~old.tryMkdOnFail_ /\ old.path = cwd.path /\ old.kind = cwd.kind
  BY <1>4, <1>10 DEF OpData
<1>12. Owned(s, old)' /\ ~(LockOf(old)').waiting
  <2>1. Owned(s, old) /\ ~LockOf(old).waiting
    BY <1>4, <1>11 DEF Owned, LockOf
  <2>2. <<s, old.opLock_[1], old.opLock_[2]>> \in handles
    BY <2>1 DEF Owned
  <2>3. Left(<<s, old.opLock_[1], old.opLock_[2]>>)
    BY <1>6, <2>2, GivesLeaves
  <2>4. QED
    BY <2>1, <2>3, OwnedStays
<1>13. PICK both : both = Append([ops EXCEPT ![1] = old], mkd)
  OBVIOUS
<1>14. operations_' = [operations_ EXCEPT ![s] = both]
  <2>1. operations_' = [operations_ EXCEPT ![s] = Append([ops EXCEPT ![1].tryMkdOnFail_ = FALSE], mkd)]
    BY <1>1, <1>2, <1>3, <1>7 DEF CwdFails
  <2>2. [ops EXCEPT ![1].tryMkdOnFail_ = FALSE] = [ops EXCEPT ![1] = old]
    BY <1>3, <1>10
  <2>3. QED
    BY <1>13, <2>1, <2>2
<1>15. both \in Seq(OpData) /\ Len(both) = 2 /\ DOMAIN both = {1, 2} /\ both[1] = old /\ both[2] = mkd
  BY <1>1, <1>2, <1>8, <1>11, <1>13, SingletonFacts
<1>16. /\ operations_' \in [Sockets -> Seq(OpData)] /\ operations_'[s] = both
       /\ \A u \in Sockets : u # s => operations_'[u] = operations_[u]
  BY <1>1, <1>14, <1>15
<1>17. Stack(s)'
  <2>1. Owned(s, both[1])' /\ ~(LockOf(both[1])').waiting
    BY <1>12, <1>15
  <2>2. Owned(s, both[2])' /\ ~(LockOf(both[2])').waiting
    BY <1>8, <1>9, <1>15
  <2>3. both[1].opLock_ # both[2].opLock_ /\ ~both[2].tryMkdOnFail_
    BY <1>8, <1>9, <1>11, <1>15
  <2>4. \A m \in DOMAIN both : Owned(s, both[m])'
    BY <1>15, <2>1, <2>2
  <2>5. Len(both) <= 2 /\ operations_'[s] = both
    BY <1>15, <1>16
  <2>6. QED
    BY <2>1, <2>2, <2>3, <2>4, <2>5 DEF Stack
<1>18. ASSUME NEW u \in Sockets, u # s PROVE Stack(u)'
  BY <1>6, <1>16, <1>18, GivesLeaves, StackStays
<1>19. IInv'
  BY <1>1, <1>4, <1>5, LockInductive
<1>20. QED
  BY <1>16, <1>17, <1>18, <1>19 DEF ClientInv

LEMMA PopKeeps ==
    ASSUME ClientInv, NEW s \in Sockets, operations_[s] # <<>>, PopOperation(s)
    PROVE  ClientInv'
<1> DEFINE ops == operations_[s]
           left == SubSeq(ops, 1, Len(ops) - 1)
<1>1. IInv /\ Stack(s) /\ ops \in Seq(OpData) /\ operations_ \in [Sockets -> Seq(OpData)]
  BY DEF ClientInv
<1>2. Len(ops) \in {1, 2} /\ Top(s) = ops[Len(ops)]
  <2>1. Len(ops) \in Nat /\ Len(ops) > 0 /\ Len(ops) <= 2
    BY <1>1, LengthFacts DEF Stack
  <2>2. QED
    BY <2>1, OneOrTwo DEF Top
<1>3. PICK h : h = <<s, Top(s).opLock_[1], Top(s).opLock_[2]>>
  OBVIOUS
<1>4. h \in handles /\ Unlock(h) /\ h[1] = s
  BY <1>3 DEF PopOperation, Unlock
<1>5. ASSUME NEW g \in handles, g # h PROVE Left(g)
  BY <1>1, <1>4, <1>5, UnlockLeaves DEF Left
<1>6. operations_' = [operations_ EXCEPT ![s] = left]
  BY DEF PopOperation
<1>7. left \in Seq(OpData) /\ Len(left) = Len(ops) - 1 /\ (Len(ops) = 2 => DOMAIN left = {1} /\ left[1] = ops[1])
      /\ (Len(ops) = 1 => DOMAIN left = {})
  <2> SUFFICES ASSUME NEW q \in Seq(OpData), Len(q) \in {1, 2}
               PROVE  LET l == SubSeq(q, 1, Len(q) - 1)
                      IN  /\ l \in Seq(OpData) /\ Len(l) = Len(q) - 1
                          /\ (Len(q) = 2 => DOMAIN l = {1} /\ l[1] = q[1]) /\ (Len(q) = 1 => DOMAIN l = {})
    BY <1>1, <1>2
  <2>1. CASE Len(q) = 1
    BY <2>1
  <2>2. CASE Len(q) = 2
    BY <2>2
  <2>3. QED
    BY <2>1, <2>2
<1> HIDE DEF left
<1>8. /\ operations_' \in [Sockets -> Seq(OpData)] /\ operations_'[s] = left
      /\ \A u \in Sockets : u # s => operations_'[u] = operations_[u]
  BY <1>1, <1>6, <1>7
<1>9. ASSUME Len(ops) = 1 PROVE Stack(s)'
  BY <1>7, <1>8, <1>9 DEF Stack
<1>10. ASSUME Len(ops) = 2 PROVE Stack(s)'
  <2>1. PICK o : o = ops[1]
    OBVIOUS
  <2>2. o \in OpData /\ Owned(s, o) /\ o.opLock_ # Top(s).opLock_ /\ Top(s) \in OpData
    BY <1>1, <1>2, <1>10, <2>1 DEF Stack
  <2>3. <<s, o.opLock_[1], o.opLock_[2]>> # h
    BY <1>3, <2>2 DEF OpData
  <2>4. Left(<<s, o.opLock_[1], o.opLock_[2]>>)
    BY <1>5, <2>2, <2>3 DEF Owned
  <2>5. Owned(s, o)'
    BY <2>2, <2>4, OwnedStays
  <2>6. Len(left) = 1 /\ DOMAIN left = {1} /\ left[1] = o
    BY <1>7, <1>10, <2>1
  <2>7. QED
    BY <1>8, <2>5, <2>6 DEF Stack
<1>11. Stack(s)'
  BY <1>2, <1>9, <1>10
<1>12. ASSUME NEW u \in Sockets, u # s PROVE Stack(u)'
  BY <1>4, <1>5, <1>8, <1>12, StackStays
<1>13. IInv'
  BY <1>1, <1>4, UnlockInductive
<1>14. QED
  BY <1>8, <1>11, <1>12, <1>13 DEF ClientInv

LEMMA ObtainKeeps ==
    ASSUME ClientInv, NEW s \in Sockets, Obtain(s)
    PROVE  ClientInv'
<1>1. IInv /\ OnObtainLock(s) /\ operations_' = operations_
  BY DEF Obtain, ClientInv
<1>2. \A g \in handles : Left(g)
  BY <1>1, ObtainLeaves DEF Left, OnObtainLock
<1>3. ASSUME NEW u \in Sockets PROVE Stack(u)'
  BY <1>1, <1>2, StackStays
<1>4. IInv'
  BY <1>1, OnObtainLockInductive
<1>5. QED
  BY <1>1, <1>3, <1>4 DEF ClientInv

LEMMA ClientNextKeeps == ClientInv /\ [ClientNext]_clientVars => ClientInv'
<1> SUFFICES ASSUME ClientInv, [ClientNext]_clientVars PROVE ClientInv'
  OBVIOUS
<1>1. ASSUME NEW s \in Sockets, NEW kind \in OpKinds, NEW path \in Paths, Send(s, kind, path) PROVE ClientInv'
  BY <1>1, SendKeeps
<1>2. ASSUME NEW s \in Sockets, CwdFails(s) PROVE ClientInv'
  BY <1>2, CwdFailsKeeps
<1>3. ASSUME NEW s \in Sockets, Finish(s) \/ CancelWaiting(s) PROVE ClientInv'
  BY <1>3, PopKeeps DEF Finish, CancelWaiting
<1>4. ASSUME NEW s \in Sockets, Obtain(s) PROVE ClientInv'
  BY <1>4, ObtainKeeps
<1>5. CASE UNCHANGED clientVars
  <2>1. UNCHANGED vars /\ operations_' = operations_ /\ handles' = handles /\ socket_locks_' = socket_locks_
    BY <1>5 DEF clientVars, vars
  <2>2. IInv'
    BY <2>1, NextInductive DEF ClientInv
  <2>3. \A g \in handles : Left(g)
    BY <2>1 DEF Left, At
  <2>4. ASSUME NEW u \in Sockets PROVE Stack(u)'
    BY <2>1, <2>3, StackStays
  <2>5. QED
    BY <2>1, <2>2, <2>4 DEF ClientInv
<1>6. QED
  BY <1>1, <1>2, <1>3, <1>4, <1>5 DEF ClientNext

LEMMA ClientInitInv == ClientInit => ClientInv
<1> SUFFICES ASSUME ClientInit PROVE ClientInv
  OBVIOUS
<1>1. operations_ \in [Sockets -> Seq(OpData)] /\ \A s \in Sockets : operations_[s] = <<>>
  BY DEF ClientInit
<1>2. IInv
  BY InitIInv DEF ClientInit
<1>3. QED
  BY <1>1, <1>2 DEF ClientInv, Stack

(* The control sockets use the table as it allows: what is proved of it holds of them. *)
THEOREM ClientsUseTheTable == ClientSpec => Spec
<1>1. ClientInit => Init
  BY DEF ClientInit
<1>2. ClientInv /\ [ClientNext]_clientVars => [Next]_vars
  <2> SUFFICES ASSUME ClientInv, [ClientNext]_clientVars PROVE [Next]_vars
    OBVIOUS
  <2>1. ASSUME NEW s \in Sockets, NEW kind \in OpKinds, NEW path \in Paths, Send(s, kind, path) PROVE Next
    BY <2>1, ReasonType DEF Send, Next
  <2>2. ASSUME NEW s \in Sockets, CwdFails(s) PROVE Next
    <3>1. operations_[s] \in Seq(OpData) /\ operations_[s] # <<>>
      BY <2>2 DEF ClientInv, CwdFails
    <3>2. Top(s).path \in Paths /\ mkdir \in Reasons
      <4>1. Len(operations_[s]) \in 1..Len(operations_[s])
        BY <3>1, LengthFacts
      <4>2. Top(s) \in OpData
        BY <3>1, <4>1 DEF Top
      <4>3. QED
        BY <4>2, ReasonsAssumption DEF OpData
    <3>3. QED
      BY <2>2, <3>2 DEF CwdFails, Next
  <2>3. ASSUME NEW s \in Sockets, Finish(s) \/ CancelWaiting(s) PROVE Next
    BY <2>3 DEF Finish, CancelWaiting, PopOperation, Unlock, Next
  <2>4. ASSUME NEW s \in Sockets, Obtain(s) PROVE Next
    BY <2>4 DEF Obtain, Next
  <2>5. CASE UNCHANGED clientVars
    BY <2>5 DEF clientVars
  <2>6. QED
    BY <2>1, <2>2, <2>3, <2>4, <2>5 DEF ClientNext
<1>3. QED
  BY <1>1, <1>2, ClientInitInv, ClientNextKeeps, PTL DEF ClientSpec, Spec

(* However the operations of the control sockets nest and wait (ftp/cwd.cpp, ftp/mkd.cpp), none
   waits for a lock while its socket holds another. *)
THEOREM NoneHoldsAndWaits == ClientSpec => []NoHoldAndWait
<1>1. ClientInv => NoHoldAndWait
  <2> SUFFICES ASSUME ClientInv, NEW s \in Sockets, NEW m \in DOMAIN operations_[s],
                      NEW n \in DOMAIN operations_[s], m # n
               PROVE  ~LockOf(operations_[s][m]).waiting
    BY DEF NoHoldAndWait
  <2>1. operations_[s] \in Seq(OpData) /\ Stack(s)
    BY DEF ClientInv
  <2>2. Len(operations_[s]) = 2 /\ (m = 1 \/ m = 2)
    <3>1. Len(operations_[s]) \in Nat /\ DOMAIN operations_[s] = 1..Len(operations_[s]) /\ Len(operations_[s]) <= 2
      BY <2>1, LengthFacts DEF Stack
    <3>2. ASSUME NEW k \in Nat, k <= 2, m \in 1..k, n \in 1..k PROVE k = 2 /\ (m = 1 \/ m = 2)
      BY <3>2
    <3>3. QED
      BY <3>1, <3>2
  <2>3. QED
    BY <2>1, <2>2 DEF Stack
<1>2. QED
  BY <1>1, ClientInitInv, ClientNextKeeps, PTL DEF ClientSpec
=============================================================================
