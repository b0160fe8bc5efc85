---------------------------- MODULE FileTransfer ----------------------------
(***************************************************************************)
(* Transfers of one file over FTP as CFtpFileTransferOpData                *)
(* (engine/ftp/filetransfer.cpp) carries them out: what is known of the    *)
(* remote file, from the cached listing, a new one, SIZE and MDTM; the     *)
(* question to the user (CheckOverwriteFile and SetFileExistsAction,       *)
(* engine/controlsocket.cpp); resuming, and the test whether the server    *)
(* can.  Other clients and engines change files meanwhile.                 *)
(*                                                                         *)
(* The target is the local file of a download and the remote file of an    *)
(* upload.  A file is its size and whether it holds the beginning of the   *)
(* source.  Transfers are binary.  Times of files are not modelled, only   *)
(* whether the remote one may be known: comparing them has any result.     *)
(***************************************************************************)
EXTENDS Integers, FiniteSets

CONSTANTS
    Names,           \* names of the target
    FirstName,       \* the one the transfer was queued with
    Servers,         \* servers: SIZE, MDTM, REST, and the offset they count wrongly from, if any
    MaxSize,         \* bound: sizes
    GB2, GB4,        \* 2^31 and 2^32
    OtherNames,      \* bound: the targets others change
    OtherSizes,      \* bound: the sizes they leave
    MaxChanges,      \* bound: changes by others
    MaxEvents        \* bound: transfers, one after the other, and those changes

ASSUME TransferAssumption ==
    /\ FirstName \in Names /\ OtherNames \subseteq Names /\ OtherSizes \subseteq 1..MaxSize
    /\ Servers \subseteq [size : BOOLEAN, mdtm : BOOLEAN, rest : {"no", "yes", "announced"},
                    bug : {GB2, GB4, MaxSize + 1}]
    /\ MaxSize \in Nat /\ GB2 \in Nat /\ GB4 \in Nat /\ MaxChanges \in Nat /\ MaxEvents \in Nat
    /\ 1 < GB2 /\ GB2 < GB4 /\ GB4 < MaxSize

VARIABLES
    op,              \* CFtpFileTransferOpData
    target,          \* the files with the names the target may have
    source,          \* the size of the source
    listing,         \* what the directory cache has of the remote directory
    server,          \* what the server supports
    caps,            \* CServerCapabilities; history: whether a test was made without the size
    unseen,          \* history: names whose listing does not show what others did
    transfers, changes   \* what the bounds count

vars == <<op, target, source, listing, server, caps, unseen, transfers, changes>>
env == <<target, source, listing, server, unseen, transfers, changes>>

Unknown == -1                      \* -1 and aio_base::nosize
Sizes == Unknown..MaxSize
NoFile == [size |-> Unknown, good |-> FALSE]
File(size, good) == [size |-> size, good |-> good]
Source == "source"                 \* the remote file of a download

(* An entry of a listing: none, one that differs in case, or the file. *)
Entries == [match : {"none", "other", "exact"}, size : Sizes, unsure : BOOLEAN]
NoEntry == [match |-> "none", size |-> Unknown, unsure |-> FALSE]
Other == [NoEntry EXCEPT !.match = "other"]
Exact(size, unsure) == [match |-> "exact", size |-> size, unsure |-> unsure]

States == {"idle", "cwd", "list", "size", "mdtm", "asked", "resumetest", "test", "transfer", "waittransfer", "mfmt"}

(* From wasGood on history: whether the target was right when the transfer was
   sent; the names the user agreed to have changed, or the transfer has opened;
   those that others changed since the server was asked; the commands it refused
   although there was the file to upload to; whether others changed anything at
   all; whether a new name was not checked, or was checked with an unsure entry. *)
NewOp(download) ==
    [state |-> "cwd", download |-> download, name |-> FirstName, resume |-> FALSE,
     remoteSize |-> Unknown, remoteTime |-> FALSE, localSize |-> Unknown, offset |-> 0,
     result |-> "none", wasGood |-> FALSE,
     consent |-> {}, since |-> {}, refused |-> {}, disturbed |-> FALSE, unchecked |-> FALSE, doubtful |-> FALSE]

RemoteNames == IF op.download THEN {Source} ELSE Names
Remote == IF op.download THEN Source ELSE op.name
RemoteSize(n) == IF op.download THEN source ELSE target[n].size
LocalSize == IF op.download THEN target[op.name].size ELSE source

Ops == [state : States, download : BOOLEAN, name : Names, resume : BOOLEAN, remoteSize : Sizes, remoteTime : BOOLEAN,
        localSize : Sizes, offset : -2..MaxSize, result : {"none", "ok", "skipped", "failed"}, wasGood : BOOLEAN,
        consent : SUBSET Names, since : SUBSET Names, refused : SUBSET {"size", "mdtm"}, disturbed : BOOLEAN, unchecked : BOOLEAN, doubtful : BOOLEAN]

TypeOK ==
    /\ op \in Ops
    /\ target \in [Names -> [size : Sizes, good : BOOLEAN]] /\ source \in 0..MaxSize
    /\ listing \in [cached : BOOLEAN, entries : [RemoteNames -> Entries]]
    /\ server \in Servers
    /\ caps \in [two : {"unknown", "yes", "no"}, four : {"unknown", "yes", "no"}, size : {"unknown", "yes"},
                 guessed : BOOLEAN]
    /\ unseen \subseteq RemoteNames /\ transfers \in Nat /\ changes \in Nat

(* Listings that show every file.  Where the file system ignores case one may be
   listed with other letters, elsewhere there may be another such file. *)
Listed(n) == {Other, IF RemoteSize(n) = Unknown THEN NoEntry ELSE Exact(RemoteSize(n), FALSE)}
Listing(entries) == [cached |-> TRUE, entries |-> entries]
NotCached == [cached |-> FALSE, entries |-> [n \in RemoteNames |-> NoEntry]]
NewListings ==
    {Listing(e) : e \in {f \in [RemoteNames -> UNION {Listed(n) : n \in RemoteNames}] :
                            \A n \in RemoteNames : f[n] \in Listed(n)}}

Init ==
    /\ \E download \in BOOLEAN : op = [NewOp(download) EXCEPT !.state = "idle"]
    /\ source \in 1..MaxSize
    /\ \E n \in Sizes, m \in {Unknown, source} :
          target = [f \in Names |-> LET size == IF f = FirstName THEN n ELSE m IN File(size, size \in 0..source)]
    /\ listing \in NewListings \cup {NotCached}
    /\ server \in Servers
    /\ \E size \in {"unknown"} \cup (IF server.size THEN {"yes"} ELSE {}) :      \* FEAT may have announced it
          caps = [two |-> "unknown", four |-> "unknown", size |-> size, guessed |-> FALSE]
    /\ unseen = {}
    /\ transfers = 0 /\ changes = 0

-----------------------------------------------------------------------------
(* What is known of the remote file.  l is the listing of the cache. *)

Go(o, state) == [o EXCEPT !.state = state]
(* Of an operation that is gone, its result and what the properties ask for. *)
End(o, result) ==
    [NewOp(o.download) EXCEPT
        !.state = "idle", !.result = result, !.name = IF result = "ok" THEN o.name ELSE @,
        !.resume = (result = "ok" /\ o.resume), !.offset = IF result = "ok" /\ o.resume THEN o.offset ELSE @,
        !.wasGood = (result = "ok" /\ o.resume /\ o.wasGood), !.doubtful = (result = "ok" /\ o.doubtful),
        !.disturbed = o.disturbed]

(* History: what others do from now on was not seen. *)
Looked(o) == [o EXCEPT !.since = {}]
Refused(command) ==
    [op EXCEPT !.refused = IF op.download \/ RemoteSize(Remote) = Unknown THEN @ ELSE @ \cup {command}]

Exists(o, l) ==
    IF o.download THEN target[o.name].size # Unknown
    ELSE (l.cached /\ l.entries[o.name].match = "exact") \/ o.remoteSize # Unknown \/ o.remoteTime

(* What CheckOverwriteFile reads again: the local file, and the time in the
   listing, which may be known. *)
Reread(o, l) ==
    [o EXCEPT !.localSize = IF o.download THEN target[o.name].size ELSE source,
              !.remoteTime = @ \/ (l.cached /\ l.entries[IF o.download THEN Source ELSE o.name].match = "exact"),
              !.since = IF o.download THEN {} ELSE @]

(* Mutant: what SIZE and MDTM say does not count. *)
CheckOverwriteFileByListing(o, l) ==
    LET exists == IF o.download THEN target[o.name].size # Unknown
                  ELSE l.cached /\ l.entries[o.name].match = "exact"
    IN  Go(Reread(o, l), IF exists THEN "asked" ELSE "resumetest")

CheckOverwriteFile(o, l) == Go(Reread(o, l), IF Exists(o, l) THEN "asked" ELSE "resumetest")

(* The time of the source may have to be preserved and not be known yet. *)
MdtmOrCheck(o, l) ==
    {CheckOverwriteFile(o, l)} \cup (IF o.download /\ server.mdtm THEN {Go(o, "mdtm")} ELSE {})

(* What SubcommandResult makes of LookupFile: again is the state to go to
   when the entry is unsure, nodir when the directory is not cached. *)
AfterLookup(l, nodir, again) ==
    LET entry == l.entries[Remote]
    IN  IF ~l.cached THEN {Go(op, nodir)}
        ELSE CASE entry.match = "none" -> MdtmOrCheck(op, l)
               [] entry.match = "other" -> {Go(op, again), Go(op, "size")}
               [] OTHER -> IF entry.unsure THEN {Go(op, again)}
                           ELSE MdtmOrCheck([op EXCEPT !.remoteSize = entry.size, !.remoteTime = TRUE], l)

Begin ==
    /\ op.state = "idle" /\ transfers + changes < MaxEvents
    /\ transfers' = transfers + 1
    /\ op' = NewOp(op.download)
    /\ UNCHANGED <<target, source, listing, server, caps, unseen, changes>>

(* filetransfer_waitcwd; if it failed, the absolute path is used. *)
CwdResult ==
    /\ op.state = "cwd"
    /\ op' \in AfterLookup(listing, "list", "list") \cup {Go(op, "size")}
    /\ UNCHANGED <<env, caps>>

(* filetransfer_waitlist: a new listing, which may have been dropped again. *)
ListOk ==
    /\ op.state = "list"
    /\ listing' \in NewListings \cup {NotCached}
    /\ \E o \in AfterLookup(listing', "size", "size") : op' = Looked(o)
    /\ unseen' = {}
    /\ UNCHANGED <<target, source, server, caps, transfers, changes>>

ListFails ==
    /\ op.state = "list"
    /\ op' = Go(op, "size")
    /\ UNCHANGED <<env, caps>>

(* ParseResponse in filetransfer_size.  The server tells the size, or it refuses
   the command, also for a file there is, or answers what is not understood.
   When it is known to know SIZE, or says that there is no such file, a refusal
   is believed and MDTM not tried. *)
SizeReply ==
    /\ op.state = "size"
    /\ LET size == RemoteSize(Remote)
       IN  \/ /\ server.size /\ size # Unknown
              /\ op' = Looked([op EXCEPT !.remoteSize = size, !.state = "mdtm"])
              /\ caps' = [caps EXCEPT !.size = "yes"]
           \/ op' = Go(Refused("size"), "mdtm") /\ UNCHANGED caps
           \/ /\ caps.size = "yes" \/ (server.size /\ size = Unknown)
              /\ op' = Looked(CheckOverwriteFile(Refused("size"), listing))
              /\ UNCHANGED caps
    /\ UNCHANGED env

(* In filetransfer_mdtm. *)
MdtmReply ==
    /\ op.state = "mdtm"
    /\ \/ /\ server.mdtm /\ RemoteSize(Remote) # Unknown
          /\ op' = CheckOverwriteFile(Looked([op EXCEPT !.remoteTime = TRUE]), listing)
       \/ op' = CheckOverwriteFile(Refused("mdtm"), listing)
    /\ UNCHANGED <<env, caps>>

-----------------------------------------------------------------------------
(* SetFileExistsAction: the answer of the user. *)

Proceed == op' = [op EXCEPT !.state = "resumetest", !.consent = @ \cup {op.name}]
Skip == op' = End(op, "skipped")

Overwrite == Proceed
OverwriteNewer == Proceed \/ (op.remoteTime /\ Skip)
OverwriteSize == IF op.localSize # op.remoteSize \/ op.localSize < 0 THEN Proceed ELSE Skip
OverwriteSizeOrNewer == Proceed \/ (op.remoteTime /\ op.localSize = op.remoteSize /\ op.localSize >= 0 /\ Skip)

Resume ==
    op' = [op EXCEPT !.state = "resumetest", !.consent = @ \cup {op.name},
                     !.resume = IF op.download THEN op.localSize # Unknown ELSE op.remoteSize # Unknown]

(* Another name.  That of an upload is only looked up in the cache. *)
Rename(n) ==
    LET new == [op EXCEPT !.name = n, !.refused = {}]
        entry == listing.entries[n]
    IN  op' = IF op.download THEN CheckOverwriteFile(new, listing)
              ELSE IF listing.cached /\ entry.match = "exact"
              THEN CheckOverwriteFile([new EXCEPT !.remoteSize = entry.size, !.remoteTime = TRUE,
                                                  !.doubtful = entry.unsure], listing)
              ELSE [new EXCEPT !.remoteSize = Unknown, !.remoteTime = FALSE, !.unchecked = TRUE,
                               !.state = "resumetest"]

Answer ==
    /\ op.state = "asked"
    /\ \/ Overwrite \/ OverwriteNewer \/ OverwriteSize \/ OverwriteSizeOrNewer
       \/ Resume \/ Skip
       \/ \E n \in Names \ {op.name} : Rename(n)
    /\ UNCHANGED <<env, caps>>

-----------------------------------------------------------------------------
(* Resuming. *)

(* Sizes are compared as unsigned numbers. *)
Unsigned(size) == IF size = Unknown THEN MaxSize + 1 ELSE size

(* Mutant: the limit for 2 GB is not looked at. *)
TestResumeCapability4(local, remote) ==
    IF local < GB4 \/ caps.four = "no" THEN "continue"
    ELSE IF remote = local THEN "ok"
    ELSE IF caps.four = "yes" THEN "critical"
    ELSE IF remote > local THEN "test" ELSE "continue"

(* What TestResumeCapability decides: the limit of 4 GB, then that of 2 GB. *)
TestResumeCapability(local, remote) ==
    LET decides(limit, cap) ==
            IF local < limit \/ cap = "no" THEN "continue"
            ELSE IF remote = local THEN "ok"
            ELSE IF cap = "yes" THEN "critical"
            ELSE IF remote > local THEN "test" ELSE "continue"
    IN  IF decides(GB4, caps.four) # "continue" THEN decides(GB4, caps.four) ELSE decides(GB2, caps.two)

(* The capability the result of the test is kept in. *)
Tested(result) == IF op.localSize > GB4 THEN [caps EXCEPT !.four = result] ELSE [caps EXCEPT !.two = result]

(* The writer of a download is opened at the offset. *)
SendDownload ==
    LET local == target[op.name].size
        decision == IF op.resume /\ op.state = "resumetest"
                    THEN TestResumeCapability(Unsigned(local), Unsigned(op.remoteSize)) ELSE "continue"
        offset == IF op.resume /\ local # Unknown THEN local ELSE 0
        read == [op EXCEPT !.localSize = IF op.resume THEN local ELSE 0, !.wasGood = target[op.name].good]
    IN  CASE decision = "ok" -> op' = End(read, "ok") /\ UNCHANGED target
          [] decision = "critical" -> op' = End(read, "failed") /\ UNCHANGED target
          [] decision = "test" -> op' = [read EXCEPT !.state = "test", !.offset = op.remoteSize - 1] /\ UNCHANGED target
          [] OTHER -> /\ op' = [read EXCEPT !.state = "waittransfer", !.offset = offset, !.consent = @ \cup {op.name}]
                      /\ target' = [target EXCEPT ![op.name] = File(offset, @.good \/ offset = 0)]

(* An upload resumed at the size of its source or beyond it; a file that an upload
   is begun with has a size. *)
Complete(o) == o.offset > 0 /\ o.offset >= o.localSize

(* An upload that is complete already may still get its time. *)
SendUpload ==
    LET offset == IF op.resume /\ op.remoteSize > 0 THEN op.remoteSize ELSE 0
        read == [op EXCEPT !.offset = offset, !.wasGood = target[op.name].good]
    IN  /\ IF Complete(read)
           THEN op' \in {End(read, "ok"), Go(read, "mfmt")}
           ELSE op' = Go(read, "waittransfer")
        /\ UNCHANGED target

Send ==
    /\ op.state \in {"resumetest", "transfer"}
    /\ IF op.download THEN SendDownload ELSE SendUpload
    /\ UNCHANGED <<source, listing, server, caps, unseen, transfers, changes>>

-----------------------------------------------------------------------------
(* The server, and what its answers lead to. *)

Restarts == op.offset > 0
Honours == server.rest # "no" /\ op.offset < server.bug
MayAccept == Restarts => server.rest # "no"

(* Mutant: after the test, the transfer is tested again. *)
TestPassedAgain == op' = Go(op, "resumetest") /\ caps' = [Tested("no") EXCEPT !.guessed = @ \/ ~Restarts]

(* One byte was sent and the connection closed. *)
TestPassed == op' = Go(op, "transfer") /\ caps' = [Tested("no") EXCEPT !.guessed = @ \/ ~Restarts]

TestFailed == op' = End(op, "failed") /\ caps' = Tested("yes")

TestResult ==
    /\ op.state = "test"
    /\ LET bytes == IF Restarts THEN source - op.offset ELSE source
       IN  IF (Restarts => Honours) /\ bytes = 1 THEN TestPassed ELSE MayAccept /\ TestFailed
    /\ UNCHANGED env

(* The target when n bytes of the source have been sent, from the offset on:
   a download's wherever the server began, STOR with REST at the offset, APPE at
   the end of the file. *)
Written(n) ==
    LET old == target[op.name]
        right == IF ~Restarts THEN TRUE
                 ELSE IF op.download THEN old.good /\ Honours
                 ELSE old.good /\ Honours /\ (IF server.rest = "announced" THEN old.size >= op.offset
                                              ELSE old.size = op.offset)
    IN  File(n, right)

(* CControlSocket::ResetOperation of an upload; see UpdateFile in DirectoryCache. *)
Marked(entry, size) == IF entry.match = "exact" THEN [entry EXCEPT !.unsure = TRUE] ELSE Exact(size, TRUE)
UpdateCache(size) ==
    listing' = IF op.download \/ ~listing.cached THEN listing
               ELSE [listing EXCEPT !.entries[op.name] = Marked(@, size)]

TransferOk ==
    /\ op.state = "waittransfer" /\ MayAccept
    /\ target' = [target EXCEPT ![op.name] = IF op.offset <= source THEN Written(source) ELSE @]
    /\ \/ op' = End(op, "ok") /\ UpdateCache(source)
       \/ op' = Go(op, "mfmt") /\ ~op.download /\ UNCHANGED listing
    /\ UNCHANGED <<source, server, caps, unseen, transfers, changes>>

(* Less was sent. *)
TransferFails ==
    /\ op.state = "waittransfer" /\ MayAccept
    /\ \E n \in op.offset..source : target' = [target EXCEPT ![op.name] = Written(n)]
    /\ op' = End(op, "failed") /\ UpdateCache(Unknown)
    /\ UNCHANGED <<source, server, caps, unseen, transfers, changes>>

MfmtReply ==
    /\ op.state = "mfmt"
    /\ op' = End(op, "ok")
    /\ IF Complete(op) THEN UNCHANGED listing ELSE UpdateCache(source)
    /\ UNCHANGED <<target, source, server, caps, unseen, transfers, changes>>

(* A command is refused, the user cancels, the connection is lost.  If the
   transfer command was sent by then, and not refused for good, the cache is
   updated. *)
Abort ==
    /\ op.state # "idle"
    /\ op' = End(op, "failed")
    /\ \/ UpdateCache(Unknown) /\ op.state \in {"waittransfer", "mfmt"} /\ ~Complete(op)
       \/ UNCHANGED listing /\ (op.state = "mfmt" => Complete(op))
    /\ UNCHANGED <<target, source, server, caps, unseen, transfers, changes>>

-----------------------------------------------------------------------------
(* Others. *)

(* A change of a remote file by another engine is marked in the cache, that by
   another program is not. *)
Noticed(n) ==
    IF ~listing.cached THEN UNCHANGED <<listing, unseen>>
    ELSE \/ unseen' = unseen \cup {n} /\ UNCHANGED listing
         \/ listing' = [listing EXCEPT !.entries[n] = Marked(@, Unknown)] /\ UNCHANGED unseen

OthersChangeTarget(n) ==
    /\ target' \in {[target EXCEPT ![n] = f] : f \in {NoFile} \cup {File(k, FALSE) : k \in OtherSizes}}
    /\ UNCHANGED source
    /\ op' = [op EXCEPT !.disturbed = TRUE, !.since = @ \cup {n}]
    /\ IF op.download THEN UNCHANGED <<listing, unseen>> ELSE Noticed(n)

OthersChangeSource ==
    /\ source' \in OtherSizes
    /\ target' = [n \in Names |-> [target[n] EXCEPT !.good = FALSE]]
    /\ op' = [op EXCEPT !.disturbed = TRUE]
    /\ IF op.download THEN Noticed(Source) ELSE UNCHANGED <<listing, unseen>>

Others ==
    /\ changes < MaxChanges /\ transfers + changes < MaxEvents
    /\ changes' = changes + 1
    /\ OthersChangeSource \/ \E n \in OtherNames : OthersChangeTarget(n)
    /\ UNCHANGED <<server, caps, transfers>>

Replies == CwdResult \/ ListOk \/ ListFails \/ SizeReply \/ MdtmReply \/ TestResult \/ TransferOk \/ TransferFails \/ MfmtReply

Next == Begin \/ Replies \/ Answer \/ Send \/ Abort \/ Others

(* The server answers, or the timeout ends the operation; Send follows in the
   same call.  Nothing makes the user answer. *)
Spec == Init /\ [][Next]_vars /\ WF_vars(Replies \/ Send \/ Abort)

-----------------------------------------------------------------------------
(* The properties. *)

(* An existing file is changed by a transfer only after the user has agreed for
   its name.  Exceptions: others changed it since it was decided not to ask; the
   listing does not show it; the name was an answer of the user to an upload's
   question and the listing does not have exactly it; no listing has exactly it,
   and the server, asked, did not tell of it: it refused SIZE and MDTM, or refused
   SIZE when it is known to know it, so that MDTM was not tried. *)
NoSilentOverwrite ==
    [][\A n \in Names :
          target[n].size # Unknown /\ target'[n] # target[n] /\ changes' = changes
          => \/ n \in op.consent \/ n \in op.since
             \/ ~op.download /\ \/ n \in unseen \/ op.unchecked
                                \/ /\ op.refused = {"size", "mdtm"} \/ (op.refused = {"size"} /\ caps.size = "yes")
                                   /\ ~(listing.cached /\ listing.entries[n].match = "exact")]_vars

(* A transfer that ends well leaves the complete file, also when it was resumed
   from what an earlier one had left, at sizes where the server counts wrongly.
   Exceptions: the target was not the beginning of the source; others changed
   something meanwhile or unseen; an upload resumed at the size an unsure entry
   gave, or on a server that counts wrongly at that size, which only downloads
   test; the size of the source was unknown when the server was tested, and the test,
   from the beginning of the file, passed because the source had a single byte. *)
ResumedFileIsRight ==
    /\ op.state = "idle" /\ op.result = "ok" /\ ~op.disturbed
    /\ op.resume => op.wasGood /\ unseen = {}
    /\ ~op.download /\ op.resume => ~op.doubtful /\ op.offset < server.bug
    /\ op.download /\ op.resume => ~caps.guessed
    => target[op.name] = File(source, TRUE)

(* A transfer ends, or the user is asked. *)
TransfersEnd == op.state # "idle" ~> op.state \in {"idle", "asked"}
=============================================================================
