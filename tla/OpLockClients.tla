--------------------------- MODULE OpLockClients ---------------------------
(***************************************************************************)
(* The control sockets that use the lock table: how the operations on a    *)
(* socket's operation stack take, nest and give back their OpLock          *)
(* (ftp/list.cpp, ftp/cwd.cpp, ftp/mkd.cpp; sftp/ is the same).  Only the  *)
(* part of an operation that concerns its lock is modelled: what it does   *)
(* while it holds the lock is one undetermined stretch of time.            *)
(***************************************************************************)
EXTENDS OpLockManager

CONSTANTS list, mkdir   \* the two locking_reasons that are used

ASSUME ReasonsAssumption == Reasons = {list, mkdir}

VARIABLE operations_    \* per socket, the stack of operations with a lock

clientVars == <<vars, operations_>>

OpKinds == {"list", "cwd", "mkd"}

OpData == [kind : OpKinds, path : Paths, tryMkdOnFail_ : BOOLEAN,
           opLock_ : (Nat \ {0}) \X (Nat \ {0})]

ClientInit == Init /\ operations_ = [s \in Sockets |-> <<>>]

LockOf(op) == socket_locks_[op.opLock_[1]].locks_[op.opLock_[2]]

Top(s) == operations_[s][Len(operations_[s])]

Reason(kind) == IF kind = "list" THEN list ELSE mkdir

(* The OpLock the call of Lock in this step returns. *)
Returned(s) == (CHOOSE h \in handles' \ handles : h[1] = s)

NewOp(s, kind, path) ==
    LET h == Returned(s)
        waits == socket_locks_'[h[2]].locks_[h[3]].waiting
    IN  [kind |-> kind, path |-> path, opLock_ |-> <<h[2], h[3]>>,
         \* a cwd that has to wait leaves it to the other engine to create
         \* the directory
         tryMkdOnFail_ |-> kind = "cwd" /\ ~waits]

(* The first Send of an operation that needs its lock.  A cwd reaches its
   Lock only as part of an upload, with tryMkdOnFail_ set. *)
Send(s, kind, path) ==
    /\ operations_[s] = <<>>
    /\ Lock(s, Reason(kind), path, FALSE)
    /\ operations_' = [operations_ EXCEPT ![s] = <<NewOp(s, kind, path)>>]

(* Mutant: the nested mkd may lock another directory than its cwd did. *)
CwdFailsElsewhere(s) ==
    /\ operations_[s] # <<>>
    /\ ~LockOf(Top(s)).waiting
    /\ Top(s).kind = "cwd" /\ Top(s).tryMkdOnFail_
    /\ \E path \in Paths :
          /\ Lock(s, mkdir, path, FALSE)
          /\ LET n == Len(operations_[s])
             IN  operations_' = [operations_ EXCEPT ![s] =
                    Append([@ EXCEPT ![n].tryMkdOnFail_ = FALSE], NewOp(s, "mkd", path))]

(* The server rejects the CWD: the directory is created by a mkd operation on
   top of the cwd, which takes a lock of its own on the same path. *)
CwdFails(s) ==
    /\ operations_[s] # <<>>
    /\ ~LockOf(Top(s)).waiting
    /\ Top(s).kind = "cwd" /\ Top(s).tryMkdOnFail_
    /\ Lock(s, mkdir, Top(s).path, FALSE)
    /\ LET n == Len(operations_[s])
       IN  operations_' = [operations_ EXCEPT ![s] =
              Append([@ EXCEPT ![n].tryMkdOnFail_ = FALSE],
                     NewOp(s, "mkd", Top(s).path))]

PopOperation(s) ==
    /\ Unlock(<<s, Top(s).opLock_[1], Top(s).opLock_[2]>>)
    /\ operations_' = [operations_ EXCEPT ![s] = SubSeq(@, 1, Len(@) - 1)]

(* The topmost operation is done, whatever its result. *)
Finish(s) ==
    /\ operations_[s] # <<>>
    /\ ~LockOf(Top(s)).waiting
    /\ PopOperation(s)

(* The user cancels, or the connection is lost, while the operation waits. *)
CancelWaiting(s) ==
    /\ operations_[s] # <<>>
    /\ LockOf(Top(s)).waiting
    /\ PopOperation(s)

Obtain(s) == OnObtainLock(s) /\ UNCHANGED operations_

ClientNext ==
    \E s \in Sockets :
        \/ \E kind \in OpKinds, path \in Paths : Send(s, kind, path)
        \/ CwdFails(s)
        \/ Finish(s)
        \/ CancelWaiting(s)
        \/ Obtain(s)

(* The event loop delivers every queued event; an operation that has its lock
   ends: the server answers or the timeout closes the connection.  Nothing
   makes a new operation or a cancellation happen. *)
Fairness ==
    \A s \in Sockets : WF_clientVars(Finish(s)) /\ WF_clientVars(Obtain(s))

ClientSpec == ClientInit /\ [][ClientNext]_clientVars /\ Fairness

-----------------------------------------------------------------------------
(* No operation waits while its socket holds another lock: the only nested
   lock is mkd's on the path its cwd already holds, and a cwd that waited never
   nests.  Without it two engines could wait for each other for ever, since
   OnTimer does not time out a socket that waits for a lock. *)
NoHoldAndWait ==
    \A s \in Sockets : \A m, n \in DOMAIN operations_[s] :
        m # n => ~LockOf(operations_[s][m]).waiting

(* Every operation that waits for its lock eventually gets it or is cancelled:
   for a finite number of operations there is no deadlock, no lost wakeup and
   no event that is consumed before it can help. *)
WaitingEnds ==
    \A s \in Sockets :
        (operations_[s] # <<>> /\ LockOf(Top(s)).waiting)
            ~> (operations_[s] = <<>> \/ ~LockOf(Top(s)).waiting)
=============================================================================
