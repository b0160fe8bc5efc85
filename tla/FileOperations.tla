--------------------------- MODULE FileOperations ---------------------------
(***************************************************************************)
(* The operations of several FTP control connections on the files of the   *)
(* servers (engine/ftp/list.cpp, delete.cpp, rename.cpp, rmd.cpp, mkd.cpp, *)
(* chmod.cpp, rawcommand.cpp, and what an upload does to the cache), with  *)
(* the directory cache they share.                                         *)
(*                                                                         *)
(* A command is sent, carried out by the server at some later time, and    *)
(* its reply is handled later still; in between the other engines go on.   *)
(* The operation may end before: the user cancels it, or the connection is *)
(* lost and nobody will know whether the server still did it.              *)
(***************************************************************************)
EXTENDS DirectoryCache

CONSTANTS
    Engines,
    ServerOf,        \* [Engines -> Servers]
    DistinctCase,    \* the servers whose file systems tell "f" from "F"
    Commands,        \* the commands the users give
    Files,           \* what is on the servers in the beginning
    MaxOps           \* bound: commands given

(* Directories of the servers, cached or not, and what the users may ask for. *)
Places == [server : Servers, path : Seq(Names)]
SomeNames == Seq(Names) \ {<<>>}
ListCommands == [kind : {"list"}, path : Paths, names : {<<>>}, refresh : BOOLEAN, clear : BOOLEAN]
FileCommands ==
    [kind : {"delete", "rmd", "mkd", "upload", "chmod", "raw"}, path : Seq(Names), names : SomeNames, size : Int]
RenameCommands ==
    [kind : {"rename"}, path : Seq(Names), names : SomeNames, toPath : Seq(Names), toName : Names]

ASSUME OperationsAssumption ==
    /\ ServerOf \in [Engines -> Servers] /\ MaxOps \in Nat
    /\ DistinctCase \subseteq Servers /\ CaseSensitive \subseteq DistinctCase
    /\ Watchers = Engines
    /\ Commands \subseteq ListCommands \cup FileCommands \cup RenameCommands
    /\ DOMAIN Files \subseteq Places /\ Files = [k \in DOMAIN Files |-> Files[k]]
    /\ \A k \in DOMAIN Files : IsFiniteSet(Files[k]) /\ Files[k] \subseteq Dirents

VARIABLES
    cache,
    remote,          \* the directories of the servers: their entries
    op,              \* per engine: the operation, and how far it is
    sent,            \* per connection: the command the server has, or has answered
    ghosts,          \* commands of lost connections the server may still carry out
    ops              \* what the bound counts

vars == <<cache, remote, op, sent, ghosts, ops>>

Idle == [stage |-> "idle"]
Nothing == [kind |-> "nothing"]
NoName == "no name"   \* LIST is given none
Stages == {"idle", "lock", "send", "rnto", "full", "wait"}

(* An operation under way; a command as the server sees it, what became of it,
   and the listing it has sent for it. *)
Operations ==
    [stage : Stages \ {"idle"}, cmd : ListCommands \cup FileCommands \cup RenameCommands,
     lock : {"none", "waiting", "held"}, refresh : BOOLEAN]
Kinds == {"list", "dele", "rmd", "raw", "rnfr", "rnto", "stor", "chmod", "mkd", "mkdfull"}
States == {"pending", "ok", "partial", "exists", "failed"}
SentCommands ==
    {c \in [kind : Kinds, server : Servers, path : Seq(Names), name : Names \cup {NoName}, size : Int,
            toPath : Seq(Names), toName : Names \cup {NoName}, state : States, files : Seq(Dirents), excused : BOOLEAN] :
        IF c.kind = "list" THEN c.path \in Paths ELSE {c.name, c.toName} \subseteq Names}

TypeOK ==
    /\ cache = [entries |-> cache.entries, lru |-> cache.lru, count |-> cache.count]
    /\ DOMAIN cache.entries \subseteq Keys /\ cache.entries \in [DOMAIN cache.entries -> Listings]
    /\ cache.lru \in Seq(Keys) /\ cache.count \in Int
    /\ DOMAIN remote \subseteq Places /\ remote = [k \in DOMAIN remote |-> remote[k]]
    /\ \A k \in DOMAIN remote : IsFiniteSet(remote[k]) /\ remote[k] \subseteq Dirents
    /\ op \in [Engines -> {Idle} \cup Operations]
    /\ sent \in [Engines -> {Nothing} \cup SentCommands] /\ ghosts \subseteq SentCommands
    /\ ops \in 0..MaxOps

Init ==
    /\ cache = EmptyCache
    /\ remote = Files
    /\ op = [e \in Engines |-> Idle]
    /\ sent = [e \in Engines |-> Nothing]
    /\ ghosts = {}
    /\ ops = 0

-----------------------------------------------------------------------------
(* The servers. *)

SameOnServer(server, a, b) == IF server \in DistinctCase THEN a = b ELSE SameName(a, b)

Entry(k, name) == {x \in remote[k] : SameOnServer(k.server, x.name, name)}

Child(k, name) == Key(k.server, Append(k.path, name))

Tree(k) == {q \in DOMAIN remote : q = k \/ (q.server = k.server /\ IsParentOf(k.path, q.path, FALSE, FALSE))}

Without(k, name) == [remote EXCEPT ![k] = @ \ Entry(k, name)]

(* A directory takes what is below it along. *)
MoveTree(files, from, to) ==
    LET moved(q) == Key(q.server, to.path \o SubSeq(q.path, Len(from.path) + 1, Len(q.path)))
        stay == DOMAIN files \ Tree(from)
    IN  [q \in stay \cup {moved(t) : t \in Tree(from)} |->
            IF q \in stay THEN files[q] ELSE files[CHOOSE t \in Tree(from) : moved(t) = q]]

(* A command that is sent. *)
Cmd(kind, k, name) ==
    [kind |-> kind, server |-> k.server, path |-> k.path, name |-> name, size |-> Unknown,
     toPath |-> k.path, toName |-> name, state |-> "pending", files |-> <<>>, excused |-> FALSE]

Dir(c) == Key(c.server, c.path)
ToDir(c) == Key(c.server, c.toPath)

Renamed(c, x) ==
    LET files == [Without(Dir(c), c.name) EXCEPT
                     ![ToDir(c)] = (@ \ Entry(ToDir(c), c.toName)) \cup {[x EXCEPT !.name = c.toName]}]
    IN  IF x.dir THEN MoveTree(files, Child(Dir(c), x.name), Child(ToDir(c), c.toName)) ELSE files

(* What the server may make of a command it can carry out: nothing if it cannot. *)
Results(c) ==
    LET x == IF Dir(c) \in DOMAIN remote THEN Entry(Dir(c), c.name) ELSE {}
        names == IF x = {} THEN {c.name} ELSE {y.name : y \in x}
    IN  IF Dir(c) \notin DOMAIN remote THEN {}
        ELSE CASE c.kind \in {"dele", "raw"} -> {Without(Dir(c), y.name) : y \in {z \in x : ~z.dir}}
               [] c.kind = "rmd" ->
                    {Restrict(Without(Dir(c), y.name), DOMAIN remote \ {Child(Dir(c), y.name)}) :
                        y \in {z \in x : z.dir /\ remote[Child(Dir(c), z.name)] = {}}}
               [] c.kind \in {"mkd", "mkdfull"} ->
                    {With([remote EXCEPT ![Dir(c)] = @ \cup {Dirent(c.name, TRUE, Unknown, FALSE)}],
                          Child(Dir(c), c.name), {}) :
                        y \in {z \in {c} : x = {} /\ Child(Dir(c), c.name) \notin DOMAIN remote}}
               [] c.kind = "stor" ->
                    {[remote EXCEPT ![Dir(c)] = (@ \ x) \cup {Dirent(n, FALSE, c.size, FALSE)}] :
                        n \in {m \in names : \A y \in x : ~y.dir}}
               [] c.kind = "chmod" ->
                    {[remote EXCEPT ![Dir(c)] = (@ \ {y}) \cup {[y EXCEPT !.size = c.size]}] :
                        y \in {z \in x : ~z.dir}}
               [] c.kind = "rnto" ->
                    {Renamed(c, y) : y \in {z \in x : /\ ToDir(c) \in DOMAIN remote
                                                      /\ z.dir => ToDir(c) \notin Tree(Child(Dir(c), z.name))
                                                      /\ \A t \in Entry(ToDir(c), c.toName) :
                                                            (ToDir(c) = Dir(c) /\ t = z) \/ (~t.dir /\ ~z.dir)}}
               [] OTHER -> {remote}

(* The listings a command may make wrong: of the directories it names, and of the
   one that goes, under whatever case the server has it, with all below it. *)
Named(c) == {Dir(c), ToDir(c)}
Variants(c) == {Child(Dir(c), n) : n \in {m \in Names : SameOnServer(c.server, m, c.name)}}
Below(c) ==
    IF c.kind \in {"rmd", "rnto"}
    THEN {k \in Keys : \E t \in Variants(c) : k.server = t.server /\ IsParentOf(t.path, k.path, FALSE, TRUE)}
    ELSE {}
Changes(c) == IF c.kind \in {"nothing", "list", "rnfr"} THEN {} ELSE Named(c) \cup Below(c)

(* Those the cache is told of with the reply, and not before. *)
ToldLate(c) == IF c.kind \in {"mkd", "mkdfull", "stor", "chmod"} THEN Named(c) ELSE Below(c)

(* The directory itself, if it has another case: RemoveDir does not find it. *)
OtherCase(c) == Variants(c) \ {Child(Dir(c), c.name)}

Pending == {c \in ghosts \cup Range(sent) : c.kind # "nothing" /\ c.state = "pending"}

Excuse(c, keys) ==
    [c EXCEPT !.entries = [k \in DOMAIN @ |-> IF k \in keys THEN [@[k] EXCEPT !.excused = TRUE] ELSE @[k]]]

-----------------------------------------------------------------------------
(* What a control connection does. *)

End(e) == op' = [op EXCEPT ![e] = Idle]
Go(e, stage) == op' = [op EXCEPT ![e].stage = stage]

(* SendCommand.  Listings other connections are receiving of directories the
   command may change have been overtaken. *)
SendCommand(e, c) ==
    /\ sent' = [f \in Engines |->
                   IF f = e THEN c
                   ELSE IF sent[f].kind = "list" /\ sent[f].state = "ok" /\ Dir(sent[f]) \in Changes(c)
                   THEN [sent[f] EXCEPT !.excused = TRUE] ELSE sent[f]]
    /\ Go(e, "wait")

Target(e) == Key(ServerOf[e], op[e].cmd.path)

(* Locks of a kind of operation on a path; see OpLockManager. *)
SameLock(e, f) ==
    /\ op[f].stage # "idle" /\ op[e].cmd.kind = op[f].cmd.kind
    /\ ServerOf[e] = ServerOf[f]
    /\ op[e].cmd.path \o op[e].cmd.names = op[f].cmd.path \o op[f].cmd.names

Taken(e) == \E f \in Engines \ {e} : SameLock(e, f) /\ op[f].lock = "held"

-----------------------------------------------------------------------------
(* Commands are given. *)

NewOp(cmd, stage, refresh) ==
    [stage |-> stage, cmd |-> cmd, lock |-> "none", refresh |-> refresh]

(* CFileZillaEnginePrivate::List and the change of directory: a listing that is
   sure and recent ends it at once. *)
BeginList(e, cmd) ==
    LET k == Key(ServerOf[e], cmd.path)
        c == IF cmd.clear THEN InvalidateServer(cache, k.server) ELSE cache
        listing == c.entries[k]
        found == ~cmd.refresh /\ IsCached(c, k)
        refresh == cmd.refresh \/ (found /\ (listing.outdated \/ listing.unsure))
    IN  /\ cache' = IF cmd.refresh THEN c ELSE Lookup(c, k)
        /\ \/ op' = [op EXCEPT ![e] = NewOp(cmd, "lock", refresh)] /\ ~(found /\ ~refresh)
           \/ UNCHANGED op

Begin(e, cmd) ==
    /\ op[e] = Idle /\ ops < MaxOps
    /\ ops' = ops + 1
    /\ \/ cmd.kind = "list" /\ BeginList(e, cmd)
       \/ /\ cmd.kind # "list"
          /\ op' = [op EXCEPT ![e] = NewOp(cmd, IF cmd.kind = "mkd" THEN "lock" ELSE "send", FALSE)]
          /\ UNCHANGED cache
    /\ UNCHANGED <<remote, sent, ghosts>>

-----------------------------------------------------------------------------
(* Listings. *)

(* A listing that is sure, recent and, for a refresh, stored since the lock was
   asked for, may be used.  lock is what the operation has of the lock by now. *)
Usable(e, lock) ==
    LET k == Target(e)
    IN  /\ Found(cache, k, FALSE) /\ ~cache.entries[k].outdated
        /\ ~op[e].refresh \/ (lock # "none" /\ e \in cache.entries[k].after)

(* time_before_locking_ is taken. *)
TakeTime(c, e) ==
    [c EXCEPT !.entries = [k \in DOMAIN @ |-> [@[k] EXCEPT !.after = c.entries[k].after \ {e}]]]

(* Send in list_waitlock. *)
ListSend(e, lock) ==
    LET c == Lookup(cache, Target(e))
        now == IF lock # "none" THEN lock ELSE IF Taken(e) THEN "waiting" ELSE "held"
    IN  \/ /\ Usable(e, lock)
           /\ cache' = c
           /\ End(e)
           /\ UNCHANGED sent
        \/ /\ ~Usable(e, lock)
           /\ cache' = IF lock = "none" THEN TakeTime(c, e) ELSE c
           /\ \/ /\ now = "waiting"
                 /\ op' = [op EXCEPT ![e].lock = now]
                 /\ UNCHANGED sent
              \/ /\ now = "held"
                 /\ sent' = [sent EXCEPT ![e] = Cmd("list", Target(e), NoName)]
                 /\ op' = [op EXCEPT ![e].lock = now, ![e].stage = "wait"]

(* The lock of CFtpMkdirOpData. *)
MkdLock(e, lock) ==
    /\ op' = IF lock = "held" \/ ~Taken(e)
             THEN [op EXCEPT ![e].lock = "held", ![e].stage = "send"]
             ELSE [op EXCEPT ![e].lock = "waiting"]
    /\ UNCHANGED <<cache, sent>>

Locking(e, lock) ==
    /\ op[e].stage = "lock" /\ sent[e] = Nothing
    /\ IF op[e].cmd.kind = "list" THEN ListSend(e, lock) ELSE MkdLock(e, lock)
    /\ UNCHANGED <<remote, ghosts, ops>>

AskForLock(e) == op[e].stage = "lock" /\ op[e].lock = "none" /\ Locking(e, "none")

(* OnObtainLock: the one who held it is gone. *)
ObtainLock(e) == op[e].stage = "lock" /\ op[e].lock = "waiting" /\ ~Taken(e) /\ Locking(e, "held")

-----------------------------------------------------------------------------
(* The Send of the other operations. *)

(* Mutant: the command is sent first. *)
InvalidateFirstNot(e) == cache

(* The calls of InvalidateFile and InvalidateServer before a command is sent. *)
InvalidateFirst(e) ==
    LET cmd == op[e].cmd
        server == ServerOf[e]
    IN  CASE cmd.kind = "delete" -> InvalidateFile(cache, server, cmd.path, Last(cmd.names))
          [] cmd.kind = "rmd" -> InvalidateFile(cache, server, cmd.path, Last(cmd.names))
          [] cmd.kind = "rename" /\ op[e].stage = "rnto" ->
                InvalidateFile(InvalidateFile(cache, server, cmd.path, Last(cmd.names)),
                               server, cmd.toPath, cmd.toName)
          [] cmd.kind = "raw" -> InvalidateServer(cache, server)
          [] OTHER -> cache

(* The command, by the kind and the state of the operation. *)
NextCommand(e) ==
    LET cmd == op[e].cmd
        k == Target(e)
        name == Last(cmd.names)
    IN  CASE cmd.kind = "delete" -> Cmd("dele", k, name)
          [] cmd.kind \in {"rmd", "raw"} -> Cmd(cmd.kind, k, name)
          [] cmd.kind = "rename" /\ op[e].stage = "send" -> Cmd("rnfr", k, name)
          [] cmd.kind = "rename" /\ op[e].stage = "rnto" ->
                [Cmd("rnto", k, name) EXCEPT !.toPath = cmd.toPath, !.toName = cmd.toName]
          [] cmd.kind = "upload" -> [Cmd("stor", k, name) EXCEPT !.size = cmd.size]
          [] cmd.kind = "chmod" -> [Cmd("chmod", k, name) EXCEPT !.size = cmd.size]
          [] cmd.kind = "mkd" /\ op[e].stage = "send" -> Cmd("mkd", k, Head(cmd.names))
          [] OTHER -> Cmd("mkdfull", Key(k.server, k.path \o Front(cmd.names)), name)

Send(e) ==
    /\ op[e].stage \in {"send", "rnto", "full"} /\ sent[e] = Nothing
    /\ cache' = InvalidateFirst(e)
    /\ SendCommand(e, NextCommand(e))
    /\ UNCHANGED <<remote, ghosts, ops>>

(* MKD: no directory to start from, or the one just made cannot be entered. *)
MkdTryFull(e) ==
    /\ op[e].stage = "send" /\ op[e].cmd.kind = "mkd"
    /\ Go(e, "full")
    /\ UNCHANGED <<cache, remote, sent, ghosts, ops>>

-----------------------------------------------------------------------------
(* The server carries out a command, or refuses it. *)

Answered(e, state) == sent' = [sent EXCEPT ![e].state = state]

ServerLists(e) ==
    /\ sent[e].kind = "list"
    /\ LET k == Dir(sent[e])
       IN  IF k \notin DOMAIN remote THEN Answered(e, "failed")
           ELSE \/ Answered(e, "failed")
                \/ sent' = [sent EXCEPT ![e].state = "ok", ![e].files = SetToSeq(remote[k]),
                                        ![e].excused = \E c \in Pending : k \in Changes(c)]
    /\ UNCHANGED remote

ServerChanges(e) ==
    /\ sent[e].kind # "list"
    /\ \/ remote' \in Results(sent[e]) /\ Answered(e, "ok")
       \/ sent[e].kind = "stor" /\ remote' \in Results(sent[e]) /\ Answered(e, "partial")
       \/ Answered(e, "failed") /\ UNCHANGED remote
       \/ sent[e].kind = "mkd" /\ Results(sent[e]) = {} /\ Answered(e, "exists") /\ UNCHANGED remote

ServerDoes(e) ==
    /\ sent[e] # Nothing /\ sent[e].state = "pending"
    /\ ServerLists(e) \/ ServerChanges(e)
    /\ UNCHANGED <<cache, op, ghosts, ops>>

(* Of a lost connection. *)
GhostDoes(c) ==
    /\ c \in ghosts
    /\ ghosts' = ghosts \ {c}
    /\ remote' \in Results(c) \cup {remote}
    /\ UNCHANGED <<cache, op, sent, ops>>

-----------------------------------------------------------------------------
(* The replies. *)

ListReply(e) ==
    /\ cache' = IF sent[e].state = "ok"
                THEN Store(cache, Target(e), Listing(sent[e].files, sent[e].excused))
                ELSE cache
    /\ End(e)

(* One file after the other, from the last. *)
DeleteReply(e) ==
    LET names == op[e].cmd.names
    IN  /\ cache' = IF sent[e].state = "ok" THEN RemoveFile(cache, ServerOf[e], op[e].cmd.path, Last(names))
                    ELSE cache
        /\ op' = IF Len(names) = 1 THEN [op EXCEPT ![e] = Idle]
                 ELSE [op EXCEPT ![e].cmd.names = Front(names), ![e].stage = "send"]

(* The history: Rename does not know that it was a directory when the listing of
   its parent does not show it, or no more once the new name is removed from it. *)
RenameReply(e) ==
    LET cmd == op[e].cmd
        k == Target(e)
        seen == IF cmd.path = cmd.toPath THEN RemoveFile(cache, k.server, k.path, cmd.toName) ELSE cache
        known == IsCached(cache, k) /\ ShowsDir(seen, k, Last(cmd.names))
        overtaken == IF known THEN OtherCase(sent[e]) ELSE Below(sent[e])
    IN  \/ /\ sent[e].state = "ok" /\ sent[e].kind = "rnfr"
           /\ Go(e, "rnto")
           /\ UNCHANGED cache
        \/ /\ sent[e].state = "ok" /\ sent[e].kind = "rnto"
           /\ cache' = Excuse(Rename(cache, k.server, k.path, Last(cmd.names), cmd.toPath, cmd.toName),
                              overtaken)
           /\ End(e)
        \/ sent[e].state # "ok" /\ End(e) /\ UNCHANGED cache

RemoveDirReply(e) ==
    /\ cache' = IF sent[e].state = "ok"
                THEN Excuse(RemoveDir(cache, ServerOf[e], op[e].cmd.path, Last(op[e].cmd.names)),
                            OtherCase(sent[e]))
                ELSE cache
    /\ End(e)

(* A segment was made, or was there, unless it is known to be a file; then the
   next one.  When it is refused the operation ends: the state for the full path
   is set, but the break after it leads to the internal error at the end of the
   function.  Made with its full path, a directory is not told to the cache. *)
MkdReply(e) ==
    LET cmd == op[e].cmd
        k == Target(e)
        name == Head(cmd.names)
        i == IF IsCached(cache, k) THEN LookupFile(cache.entries[k].files, name) ELSE 0
        isFile == sent[e].state = "exists" /\ i # 0 /\ ~cache.entries[k].files[i].dir
    IN  \/ /\ sent[e].kind = "mkd" /\ sent[e].state \in {"ok", "exists"}
           /\ cache' = UpdateFile(cache, k.server, k.path, name, TRUE, "dir", Unknown)
           /\ op' = IF Len(cmd.names) = 1 \/ isFile THEN [op EXCEPT ![e] = Idle]
                    ELSE [op EXCEPT ![e].cmd.path = Append(@, name), ![e].cmd.names = Tail(@),
                                    ![e].stage = "send"]
        \/ sent[e].kind = "mkd" /\ sent[e].state = "failed" /\ End(e) /\ UNCHANGED cache
        \/ /\ sent[e].kind = "mkdfull"
           /\ cache' = IF sent[e].state = "ok" THEN Excuse(cache, Changes(sent[e])) ELSE cache
           /\ End(e)

ChmodReply(e) ==
    /\ cache' = IF sent[e].state = "ok"
                THEN UpdateFile(cache, ServerOf[e], op[e].cmd.path, Last(op[e].cmd.names), FALSE, "unknown", Unknown)
                ELSE cache
    /\ End(e)

(* CControlSocket::ResetOperation of an upload: however it ends once STOR was
   sent, the cache is told, unless the server refused at once and for good. *)
UpdateCache(e, size) ==
    UpdateFile(cache, ServerOf[e], op[e].cmd.path, Last(op[e].cmd.names), TRUE, "file", size)

UploadReply(e) ==
    /\ \/ cache' = UpdateCache(e, IF sent[e].state = "ok" THEN op[e].cmd.size ELSE Unknown)
       \/ sent[e].state = "failed" /\ UNCHANGED cache
    /\ End(e)

Reply(e) ==
    /\ op[e].stage = "wait" /\ sent[e].state # "pending"
    /\ CASE op[e].cmd.kind = "list" -> ListReply(e)
         [] op[e].cmd.kind = "delete" -> DeleteReply(e)
         [] op[e].cmd.kind = "rename" -> RenameReply(e)
         [] op[e].cmd.kind = "rmd" -> RemoveDirReply(e)
         [] op[e].cmd.kind = "mkd" -> MkdReply(e)
         [] op[e].cmd.kind = "chmod" -> ChmodReply(e)
         [] op[e].cmd.kind = "upload" -> UploadReply(e)
         [] op[e].cmd.kind = "raw" -> End(e) /\ UNCHANGED cache
    /\ sent' = [sent EXCEPT ![e] = Nothing]
    /\ UNCHANGED <<remote, ghosts, ops>>

-----------------------------------------------------------------------------
(* Operations that end without a reply. *)

(* What the operation leaves in the cache.  The ones that would have told it
   with the reply leave listings behind that nothing marks. *)
Abandoned(e) ==
    IF op[e].stage # "wait" THEN cache
    ELSE IF sent[e].kind = "stor" THEN UpdateCache(e, Unknown)
    ELSE Excuse(cache, ToldLate(sent[e]))

Cancel(e) ==
    /\ op[e].stage # "idle"
    /\ cache' = Abandoned(e)
    /\ End(e)
    /\ UNCHANGED <<remote, sent, ghosts, ops>>

(* The connection is lost, or times out. *)
Lost(e) ==
    /\ op[e].stage # "idle"
    /\ cache' = Abandoned(e)
    /\ End(e)
    /\ sent' = [sent EXCEPT ![e] = Nothing]
    /\ ghosts' = ghosts \cup {c \in {sent[e]} : c \in Pending /\ Changes(c) # {}}
    /\ UNCHANGED <<remote, ops>>

(* The reply to a command whose operation was cancelled is skipped: no other
   command is sent before. *)
SkipReply(e) ==
    /\ op[e].stage # "wait" /\ sent[e] # Nothing /\ sent[e].state # "pending"
    /\ sent' = [sent EXCEPT ![e] = Nothing]
    /\ UNCHANGED <<cache, remote, op, ghosts, ops>>

TimePasses ==
    /\ \E k \in DOMAIN cache.entries : ~cache.entries[k].outdated /\ cache' = Expire(cache, k)
    /\ UNCHANGED <<remote, op, sent, ghosts, ops>>

Step(e) == AskForLock(e) \/ ObtainLock(e) \/ Send(e) \/ MkdTryFull(e) \/ ServerDoes(e) \/ Reply(e) \/ SkipReply(e)

Next ==
    \/ \E e \in Engines : Step(e) \/ Cancel(e) \/ Lost(e) \/ \E cmd \in Commands : Begin(e, cmd)
    \/ \E c \in ghosts : GhostDoes(c)
    \/ TimePasses

Spec == Init /\ [][Next]_vars

-----------------------------------------------------------------------------
(* The properties. *)

Consistent == CacheIsConsistent(cache)

(* A listing of the cache shows what the server has. *)
Shows(k) ==
    /\ k \in DOMAIN remote
    /\ LET files == cache.entries[k].files
       IN  Range(files) = remote[k] /\ Len(files) = Cardinality(remote[k])

Awaited(k) ==
    \E e \in Engines : op[e].stage = "wait" /\ sent[e].state \in {"ok", "partial"} /\ k \in ToldLate(sent[e])

(* A listing that is not marked unsure is what the server has, after any
   operations of all engines, also those that failed, were cancelled or lost
   their connection.  Exceptions: the listing was being received while another
   engine changed the directory; the reply of an operation that tells the cache
   only then is still awaited, or never came; the parent of a directory made
   with its full path; a directory that was renamed, and all below it, when the
   listing of its parent did not show it; and a directory that was removed or
   renamed under a name of another case than the server's. *)
SureListingsAreTrue ==
    \A k \in DOMAIN cache.entries :
        cache.entries[k].unsure \/ cache.entries[k].excused \/ Awaited(k) \/ Shows(k)
=============================================================================
