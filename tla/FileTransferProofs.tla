------------------------ MODULE FileTransferProofs ------------------------
(***************************************************************************)
(* Proofs about transfers of a file: for any number of transfers and of    *)
(* changes by others, any names and any sizes.                             *)
(*                                                                         *)
(* The argument follows what is known: that the listing is right unless    *)
(* something was not seen, hence the size of the remote file, hence the    *)
(* answer whether there is a file to ask about, and the decision whether   *)
(* the server can be trusted with an offset.                               *)
(***************************************************************************)
EXTENDS FileTransfer, TLAPS

-----------------------------------------------------------------------------
(* Whether the user would have to be asked. *)

Settled == {"resumetest", "test", "transfer", "waittransfer"}

(* The file may be changed. *)
Allowed(n) ==
    \/ n \in op.consent \/ n \in op.since \/ target[n].size = Unknown
    \/ ~op.download /\ \/ n \in unseen \/ op.unchecked
                       \/ /\ op.refused = {"size", "mdtm"} \/ (op.refused = {"size"} /\ caps.size = "yes")
                          /\ ~(listing.cached /\ listing.entries[n].match = "exact")

Decided ==
    /\ op.state \in Settled => Allowed(op.name)
    /\ op.download /\ op.state = "waittransfer" => op.name \in op.consent

(* A file the listing does not have is not there, unless others made it.  While the
   time of an upload is set the cache does not have the upload. *)
Uploaded(n) == op.state = "mfmt" /\ n = op.name /\ ~Complete(op)

Missing ==
    ~op.download /\ listing.cached =>
       \A n \in Names : listing.entries[n].match = "none" /\ ~Uploaded(n)
                        => target[n].size = Unknown \/ n \in unseen

(* The server has told the size of a file there is, or refused to. *)
AtMdtm ==
    ~op.download /\ op.state = "mdtm"
       => op.remoteSize # Unknown \/ target[op.name].size = Unknown \/ op.name \in op.since \/ "size" \in op.refused

-----------------------------------------------------------------------------
(* What is known of the two files. *)

Good == \A n \in Names : target[n].good => target[n].size \in 0..source

Shown ==
    listing.cached =>
       \A n \in RemoteNames :
          /\ listing.entries[n].match = "exact" /\ ~listing.entries[n].unsure /\ n \notin unseen
          /\ ~Uploaded(n)
          => listing.entries[n].size = RemoteSize(n)

Sized ==
    op.remoteSize # Unknown /\ ~op.disturbed /\ unseen = {} /\ ~op.doubtful /\ op.state # "mfmt"
       => op.remoteSize = RemoteSize(Remote)

Local ==
    /\ op.state = "asked" /\ ~op.disturbed => op.localSize = LocalSize
    /\ ~op.download /\ op.state \in {"resumetest", "waittransfer"} /\ ~op.disturbed => op.localSize = source
    /\ op.resume => op.state \in Settled \cup {"mfmt", "idle"}
    /\ op.download /\ op.resume /\ ~op.disturbed /\ op.state \in {"resumetest", "test", "transfer"}
          => target[op.name].size # Unknown

(* Nothing is decided before the server was asked. *)
Fresh ==
    /\ op.state \in {"cwd", "list", "size"} => op.remoteSize = Unknown
    /\ op.download \/ op.state \in {"cwd", "list", "size", "mdtm"} => ~op.doubtful

-----------------------------------------------------------------------------
(* What is known of the server. *)

Stages ==
    /\ op.state \in {"test", "transfer"} => op.download /\ op.resume
    /\ op.state = "mfmt" => ~op.download
    /\ op.state = "test" =>
          /\ GB2 <= op.localSize /\ op.offset = op.remoteSize - 1
          /\ op.remoteSize # Unknown => op.localSize <= op.offset
          /\ ~op.disturbed => op.localSize = target[op.name].size
    /\ op.state = "transfer" /\ ~op.disturbed /\ ~caps.guessed =>
          op.offset < server.bug /\ target[op.name].size <= op.offset

Judged ==
    ~caps.guessed => /\ caps.two = "no" => server.bug >= GB4
                     /\ caps.four = "no" => server.bug > GB4

Moving ==
    op.state = "waittransfer" =>
       /\ op.offset >= 0 /\ (op.offset > 0 => op.resume)
       /\ ~op.download => ~Complete(op)
       /\ op.download /\ ~op.disturbed =>
             /\ target[op.name].size = op.offset
             /\ target[op.name].good <=> op.wasGood \/ op.offset = 0
             /\ op.offset > 0 /\ op.wasGood /\ unseen = {} /\ ~caps.guessed => op.offset < server.bug
       /\ ~op.download /\ op.offset > 0 => op.offset = op.remoteSize
       /\ ~op.download /\ ~op.disturbed => (target[op.name].good <=> op.wasGood)

(* Nothing that could spoil the result has happened. *)
Undisturbed ==
    /\ ~op.disturbed
    /\ op.resume => op.wasGood /\ unseen = {}
    /\ ~op.download /\ op.resume => ~op.doubtful /\ op.offset < server.bug
    /\ op.download /\ op.resume => ~caps.guessed

Finished ==
    (op.state = "mfmt" \/ (op.state = "idle" /\ op.result = "ok")) /\ Undisturbed
       => target[op.name].size = source /\ target[op.name].good

IInv ==
    /\ TypeOK /\ Decided /\ Missing /\ AtMdtm
    /\ Good /\ Shown /\ Sized /\ Local /\ Fresh
    /\ Stages /\ Judged /\ Moving /\ Finished

-----------------------------------------------------------------------------
(* What the operators make of the operation. *)

Files == [size : Sizes, good : BOOLEAN]
Listings == [cached : BOOLEAN, entries : [RemoteNames -> Entries]]
Capabilities ==
    [two : {"unknown", "yes", "no"}, four : {"unknown", "yes", "no"}, size : {"unknown", "yes"}, guessed : BOOLEAN]

LEMMA SizesFacts == Unknown = -1 /\ Unknown \in Sizes /\ 0 \in Sizes /\ \A n \in 0..MaxSize : n \in Sizes /\ n # Unknown
  BY TransferAssumption DEF Sizes, Unknown

LEMMA NewOpFields ==
    ASSUME NEW download \in BOOLEAN
    PROVE  LET o == NewOp(download)
           IN  /\ o \in Ops /\ o.state = "cwd" /\ o.download = download /\ o.name = FirstName /\ ~o.resume
               /\ o.remoteSize = Unknown /\ ~o.remoteTime /\ o.offset = 0 /\ o.result = "none" /\ ~o.wasGood
               /\ o.consent = {} /\ o.since = {} /\ ~o.disturbed /\ ~o.unchecked /\ ~o.doubtful /\ o.refused = {}
  BY TransferAssumption, SizesFacts DEF NewOp, Ops, States

LEMMA GoFields ==
    ASSUME NEW o \in Ops, NEW state \in States
    PROVE  LET r == Go(o, state)
           IN  /\ r \in Ops /\ r.state = state /\ r.download = o.download /\ r.name = o.name /\ r.resume = o.resume
               /\ r.remoteSize = o.remoteSize /\ r.localSize = o.localSize /\ r.offset = o.offset
               /\ r.wasGood = o.wasGood /\ r.consent = o.consent /\ r.since = o.since /\ r.disturbed = o.disturbed
               /\ r.unchecked = o.unchecked /\ r.doubtful = o.doubtful /\ r.result = o.result
               /\ r.remoteTime = o.remoteTime /\ r.refused = o.refused
  BY DEF Go, Ops

LEMMA LookedFields ==
    ASSUME NEW o \in Ops
    PROVE  LET r == Looked(o)
           IN  /\ r \in Ops /\ r.state = o.state /\ r.download = o.download /\ r.name = o.name /\ r.resume = o.resume
               /\ r.remoteSize = o.remoteSize /\ r.localSize = o.localSize /\ r.consent = o.consent /\ r.since = {}
               /\ r.disturbed = o.disturbed /\ r.unchecked = o.unchecked /\ r.doubtful = o.doubtful
               /\ r.remoteTime = o.remoteTime /\ r.refused = o.refused
  BY DEF Looked, Ops

LEMMA RefusedFields ==
    ASSUME op \in Ops, NEW command \in {"size", "mdtm"}
    PROVE  LET r == Refused(command)
           IN  /\ r \in Ops /\ r.state = op.state /\ r.download = op.download /\ r.name = op.name /\ r.resume = op.resume
               /\ r.remoteSize = op.remoteSize /\ r.localSize = op.localSize /\ r.consent = op.consent
               /\ r.since = op.since /\ r.disturbed = op.disturbed /\ r.unchecked = op.unchecked
               /\ r.doubtful = op.doubtful /\ r.remoteTime = op.remoteTime
               /\ op.refused \subseteq r.refused /\ r.refused \in SUBSET {"size", "mdtm"}
               /\ ~op.download => command \in r.refused \/ target[op.name].size = Unknown
<1> DEFINE q == IF op.download \/ RemoteSize(Remote) = Unknown THEN op.refused ELSE op.refused \cup {command}
<1>1. /\ op.refused \subseteq q /\ q \in SUBSET {"size", "mdtm"}
      /\ ~op.download => command \in q \/ target[op.name].size = Unknown
  BY DEF Ops, RemoteSize, Remote
<1>2. Refused(command) = [op EXCEPT !.refused = q]
  BY DEF Refused
<1> HIDE DEF q
<1>3. QED
  BY <1>1, <1>2 DEF Ops

LEMMA EndFields ==
    ASSUME NEW o \in Ops, NEW result \in {"ok", "skipped", "failed"}
    PROVE  LET r == End(o, result)
           IN  /\ r \in Ops /\ r.state = "idle" /\ r.download = o.download /\ r.result = result
               /\ r.remoteSize = Unknown /\ r.disturbed = o.disturbed
               /\ r.resume <=> result = "ok" /\ o.resume
               /\ r.doubtful <=> result = "ok" /\ o.doubtful
               /\ result = "ok" => /\ r.name = o.name
                                   /\ o.resume => r.offset = o.offset /\ (r.wasGood <=> o.wasGood)
<1>1. o.download \in BOOLEAN /\ o.name \in Names /\ o.resume \in BOOLEAN /\ o.offset \in -2..MaxSize
      /\ o.wasGood \in BOOLEAN /\ o.doubtful \in BOOLEAN /\ o.disturbed \in BOOLEAN
  BY DEF Ops
<1> DEFINE n == NewOp(o.download)
<1>2. n \in Ops /\ n.download = o.download /\ n.remoteSize = Unknown /\ n.name \in Names /\ n.offset \in -2..MaxSize
  BY <1>1, NewOpFields DEF Ops
<1> HIDE DEF n
<1>3. End(o, result) = [n EXCEPT
        !.state = "idle", !.result = result, !.name = IF result = "ok" THEN o.name ELSE @,
        !.resume = (result = "ok" /\ o.resume), !.offset = IF result = "ok" /\ o.resume THEN o.offset ELSE @,
        !.wasGood = (result = "ok" /\ o.resume /\ o.wasGood), !.doubtful = (result = "ok" /\ o.doubtful),
        !.disturbed = o.disturbed]
  BY DEF End, n
<1> DEFINE r == End(o, result)
           a == IF result = "ok" THEN o.name ELSE n.name
           b == IF result = "ok" /\ o.resume THEN o.offset ELSE n.offset
           d == (result = "ok" /\ o.resume)
           e == (result = "ok" /\ o.resume /\ o.wasGood)
           f == (result = "ok" /\ o.doubtful)
<1>4. a \in Names /\ b \in -2..MaxSize /\ d \in BOOLEAN /\ e \in BOOLEAN /\ f \in BOOLEAN
  BY <1>1, <1>2
<1>5. r = [n EXCEPT !.state = "idle", !.result = result, !.name = a, !.resume = d, !.offset = b,
                    !.wasGood = e, !.doubtful = f, !.disturbed = o.disturbed]
  BY <1>2, <1>3 DEF Ops
<1> HIDE DEF a, b, d, e, f, r
<1> DEFINE m == [n EXCEPT !.state = "idle", !.result = result, !.name = a, !.resume = d]
<1>6. /\ m \in Ops /\ m.state = "idle" /\ m.download = o.download /\ m.result = result /\ m.remoteSize = Unknown
      /\ m.resume = d /\ m.name = a
  BY <1>1, <1>2, <1>4 DEF Ops, States
<1>8. r = [m EXCEPT !.offset = b, !.wasGood = e, !.doubtful = f, !.disturbed = o.disturbed]
  BY <1>2, <1>5 DEF Ops
<1> HIDE DEF m
<1>9. /\ r \in Ops /\ r.state = "idle" /\ r.download = o.download /\ r.result = result /\ r.remoteSize = Unknown
      /\ r.disturbed = o.disturbed /\ r.resume = d /\ r.name = a /\ r.offset = b /\ r.wasGood = e /\ r.doubtful = f
  BY <1>1, <1>4, <1>6, <1>8 DEF Ops
<1>7. QED
  BY <1>1, <1>4, <1>9 DEF a, b, d, e, f, r

LEMMA CheckOverwriteFields ==
    ASSUME TypeOK, NEW o \in Ops, NEW l, l.cached \in BOOLEAN
    PROVE  LET r == CheckOverwriteFile(o, l)
           IN  /\ r \in Ops /\ r.state = (IF Exists(o, l) THEN "asked" ELSE "resumetest")
               /\ r.download = o.download /\ r.name = o.name /\ r.resume = o.resume
               /\ r.remoteSize = o.remoteSize /\ r.consent = o.consent /\ r.disturbed = o.disturbed
               /\ r.localSize = (IF o.download THEN target[o.name].size ELSE source)
               /\ r.since = (IF o.download THEN {} ELSE o.since)
               /\ r.unchecked = o.unchecked /\ r.doubtful = o.doubtful /\ r.refused = o.refused
<1>1. target[o.name].size \in Sizes /\ source \in Sizes
  BY SizesFacts DEF TypeOK, Ops
<1> DEFINE q == Reread(o, l)
<1>2. /\ q \in Ops
      /\ q.download = o.download /\ q.name = o.name /\ q.resume = o.resume
      /\ q.remoteSize = o.remoteSize /\ q.consent = o.consent /\ q.disturbed = o.disturbed
      /\ q.localSize = (IF o.download THEN target[o.name].size ELSE source)
      /\ q.since = (IF o.download THEN {} ELSE o.since)
      /\ q.unchecked = o.unchecked /\ q.doubtful = o.doubtful /\ q.refused = o.refused
  BY <1>1 DEF Reread, Ops
<1> HIDE DEF q
<1>3. CheckOverwriteFile(o, l) = Go(q, IF Exists(o, l) THEN "asked" ELSE "resumetest")
  BY DEF CheckOverwriteFile, q
<1>4. QED
  BY <1>2, <1>3, GoFields DEF States

-----------------------------------------------------------------------------
(* Steps by which it is found out whether there is a file. *)

Looks == {"list", "size", "mdtm", "asked", "resumetest"}

LEMMA LookingKeeps ==
    ASSUME IInv, UNCHANGED <<target, source, server, transfers, changes>>,
           op' \in Ops, op'.state \in Looks, op'.download = op.download, op'.disturbed = op.disturbed,
           op'.resume => op'.state = "resumetest" /\ (op.download => op'.localSize # Unknown),
           listing' \in Listings, unseen' \subseteq RemoteNames, caps' \in Capabilities,
           caps'.two = caps.two, caps'.four = caps.four, caps'.guessed = caps.guessed,
           Missing', Shown', Sized', Fresh', AtMdtm',
           op'.state = "resumetest" => Allowed(op.name)',
           op'.state \in {"asked", "resumetest"} /\ ~op'.disturbed => op'.localSize = LocalSize'
    PROVE  IInv'
<1>1. RemoteNames' = RemoteNames
  BY DEF RemoteNames
<1>2. TypeOK'
  BY <1>1 DEF IInv, TypeOK, Listings, Capabilities
<1>3. Decided'
  BY DEF Decided, Settled, Looks
<1>4. Good' /\ Judged'
  BY DEF IInv, Good, Judged
<1>5. Local'
  BY DEF Local, LocalSize, Looks, Settled
<1>6. Stages' /\ Moving' /\ Finished'
  BY DEF Stages, Moving, Finished, Looks
<1>7. QED
  BY <1>2, <1>3, <1>4, <1>5, <1>6 DEF IInv

(* The operation goes on to ask the server. *)
LEMMA GoOnKeeps ==
    ASSUME IInv, UNCHANGED <<target, source, server, listing, unseen, transfers, changes>>,
           op' \in Ops, op'.state \in {"list", "size", "mdtm"},
           op'.download = op.download, op'.disturbed = op.disturbed, ~op'.resume, op'.name = op.name,
           op.state \in {"cwd", "list", "size", "mdtm"}, op'.doubtful = op.doubtful,
           op'.state \in {"list", "size"} => op'.remoteSize = Unknown,
           caps' \in Capabilities, caps'.two = caps.two, caps'.four = caps.four, caps'.guessed = caps.guessed,
           op'.remoteSize \in {op.remoteSize, RemoteSize(Remote)},
           AtMdtm'
    PROVE  IInv'
<1>4. ~op'.doubtful /\ Fresh'
  BY DEF IInv, Fresh
<1>1. Missing' /\ Shown' /\ Sized'
  BY <1>4 DEF IInv, Missing, Shown, Uploaded, Sized, RemoteNames, RemoteSize, Remote
<1>2. listing' \in Listings /\ unseen' \subseteq RemoteNames
  BY DEF IInv, TypeOK, Listings
<1>3. QED
  BY <1>1, <1>2, <1>4, LookingKeeps DEF Looks

(* CheckOverwriteFile is called for what is known, with a listing that is right as far
   as others are seen. *)
LEMMA CheckKeeps ==
    ASSUME IInv, UNCHANGED <<target, source, server, transfers, changes>>,
           NEW o \in Ops, op' \in {CheckOverwriteFile(o, listing'), Looked(CheckOverwriteFile(o, listing'))},
           o.download = op.download, o.disturbed = op.disturbed, ~o.resume,
           listing' \in Listings, unseen' \subseteq RemoteNames, caps' \in Capabilities,
           caps'.two = caps.two, caps'.four = caps.four, caps'.guessed = caps.guessed,
           Missing', Shown', o.download => ~o.doubtful,
           o.remoteSize # Unknown /\ ~o.disturbed /\ unseen' = {} /\ ~o.doubtful
              => o.remoteSize = (IF o.download THEN source ELSE target[o.name].size),
           ~o.download /\ ~Exists(o, listing') =>
              \/ target[o.name].size = Unknown \/ o.name \in unseen'
              \/ op'.since = o.since /\ o.name \in o.since
              \/ /\ o.refused = {"size", "mdtm"} \/ (o.refused = {"size"} /\ caps'.size = "yes")
                 /\ ~(listing'.cached /\ listing'.entries[o.name].match = "exact")
    PROVE  IInv'
<1> DEFINE r == CheckOverwriteFile(o, listing')
<1>1. /\ r \in Ops /\ r.state = (IF Exists(o, listing') THEN "asked" ELSE "resumetest")
      /\ r.download = o.download /\ r.name = o.name /\ r.resume = o.resume
      /\ r.remoteSize = o.remoteSize /\ r.consent = o.consent /\ r.disturbed = o.disturbed
      /\ r.localSize = (IF o.download THEN target[o.name].size ELSE source)
      /\ r.since = (IF o.download THEN {} ELSE o.since)
      /\ r.unchecked = o.unchecked /\ r.doubtful = o.doubtful /\ r.refused = o.refused
  BY CheckOverwriteFields DEF IInv, Listings
<1> HIDE DEF r
<1>2. /\ op' \in Ops /\ op'.state = r.state
      /\ op'.download = o.download /\ op'.name = o.name /\ op'.resume = o.resume
      /\ op'.remoteSize = o.remoteSize /\ op'.disturbed = o.disturbed /\ op'.localSize = r.localSize
      /\ op'.doubtful = o.doubtful /\ op'.refused = o.refused
  BY <1>1, LookedFields DEF r
<1>3. Sized'
  BY <1>1, <1>2 DEF Sized, RemoteSize, Remote
<1>4. AtMdtm'
  BY <1>1, <1>2 DEF AtMdtm
<1>5. op'.state = "resumetest" => Allowed(op.name)'
  BY <1>1, <1>2 DEF Allowed, Exists
<1>6. op'.state \in {"asked", "resumetest"} /\ ~op'.disturbed => op'.localSize = LocalSize'
  BY <1>1, <1>2 DEF LocalSize
<1>7. op'.state \in Looks /\ ~op'.resume /\ op'.download = op.download /\ op'.disturbed = op.disturbed
  BY <1>1, <1>2 DEF Looks
<1>9. Fresh'
  BY <1>1, <1>2 DEF Fresh
<1>8. QED
  BY <1>2, <1>3, <1>4, <1>5, <1>6, <1>7, <1>9, LookingKeeps

-----------------------------------------------------------------------------
(* What the server tells. *)

LEMMA NewListingsFacts ==
    ASSUME target \in [Names -> Files], source \in 0..MaxSize, NEW l \in NewListings \cup {NotCached}
    PROVE  /\ l \in Listings
           /\ l.cached => \A n \in RemoteNames :
                             /\ l.entries[n].match = "none" => RemoteSize(n) = Unknown
                             /\ l.entries[n].match = "exact" => l.entries[n].size = RemoteSize(n)
<1>1. \A n \in RemoteNames : RemoteSize(n) \in Sizes
  BY SizesFacts DEF Files, RemoteNames, RemoteSize
<1>2. \A n \in RemoteNames : \A e \in Listed(n) :
         /\ e \in Entries
         /\ e.match = "none" => RemoteSize(n) = Unknown
         /\ e.match = "exact" => e.size = RemoteSize(n)
  <2> SUFFICES ASSUME NEW n \in RemoteNames, NEW e \in Listed(n)
               PROVE  e \in Entries /\ (e.match = "none" => RemoteSize(n) = Unknown)
                      /\ (e.match = "exact" => e.size = RemoteSize(n))
    OBVIOUS
  <2>1. CASE e = Other
    BY <2>1, SizesFacts DEF Entries, Other, NoEntry
  <2>2. CASE e = NoEntry /\ RemoteSize(n) = Unknown
    BY <2>2, SizesFacts DEF Entries, NoEntry
  <2>3. CASE e = Exact(RemoteSize(n), FALSE)
    BY <1>1, <2>3 DEF Entries, Exact
  <2>4. QED
    BY <2>1, <2>2, <2>3 DEF Listed
<1>3. CASE l = NotCached
  BY <1>3, SizesFacts DEF NotCached, Listings, Entries, NoEntry
<1>4. CASE l \in NewListings
  <2>1. PICK e \in [RemoteNames -> UNION {Listed(n) : n \in RemoteNames}] :
           l = Listing(e) /\ \A n \in RemoteNames : e[n] \in Listed(n)
    BY <1>4 DEF NewListings
  <2>2. e \in [RemoteNames -> Entries]
    BY <2>1, <1>2
  <2>3. QED
    BY <2>1, <2>2, <1>2 DEF Listing, Listings
<1>5. QED
  BY <1>3, <1>4

(* LookupFile has looked into the listing of the cache, or into a new one. *)
LEMMA LookupKeeps ==
    ASSUME IInv, op.state \in {"cwd", "list"}, UNCHANGED <<target, source, server, caps, transfers, changes>>,
           NEW again \in {"list", "size"}, NEW o \in AfterLookup(listing', again, again), op' \in {o, Looked(o)},
           listing' \in Listings, unseen' \subseteq RemoteNames,
           ~op.download /\ listing'.cached =>
              \A n \in Names : listing'.entries[n].match = "none" => target[n].size = Unknown \/ n \in unseen',
           listing'.cached =>
              \A n \in RemoteNames :
                 listing'.entries[n].match = "exact" /\ ~listing'.entries[n].unsure /\ n \notin unseen'
                 => listing'.entries[n].size = RemoteSize(n)
    PROVE  IInv'
<1> DEFINE entry == listing'.entries[Remote]
           known == [op EXCEPT !.remoteSize = entry.size, !.remoteTime = TRUE]
<1>1. op \in Ops /\ ~op.resume /\ ~op.doubtful /\ op.remoteSize = Unknown /\ caps \in Capabilities
  BY DEF IInv, TypeOK, Local, Fresh, Capabilities, Settled
<1>2. Remote \in RemoteNames
  BY <1>1 DEF Remote, RemoteNames, Ops
<1>3. entry \in Entries /\ entry.size \in Sizes
  BY <1>2 DEF Listings, Entries
<1>4. /\ known \in Ops /\ known.download = op.download /\ known.name = op.name /\ ~known.resume /\ ~known.doubtful
      /\ known.disturbed = op.disturbed /\ known.remoteSize = entry.size /\ known.since = op.since
  BY <1>1, <1>3 DEF Ops
<1> HIDE DEF entry, known
<1>5. ASSUME NEW state \in {"list", "size"}, o = Go(op, state)
      PROVE  IInv'
  <2>1. /\ o \in Ops /\ o.state = state /\ o.download = op.download /\ o.name = op.name /\ ~o.resume /\ ~o.doubtful
        /\ o.disturbed = op.disturbed /\ o.remoteSize = Unknown
    BY <1>1, <1>5, GoFields DEF States
  <2>2. /\ op' \in Ops /\ op'.state = state /\ op'.download = op.download /\ op'.name = op.name /\ ~op'.resume
        /\ ~op'.doubtful /\ op'.disturbed = op.disturbed /\ op'.remoteSize = Unknown
    BY <2>1, LookedFields
  <2>3. Missing' /\ Shown' /\ Sized' /\ Fresh' /\ AtMdtm'
    BY <1>5, <2>2 DEF Missing, Shown, Uploaded, Sized, Fresh, AtMdtm, RemoteNames, RemoteSize
  <2>4. QED
    BY <1>1, <1>5, <2>2, <2>3, LookingKeeps DEF Looks
<1>6. ASSUME NEW q \in {op, known}, o \in MdtmOrCheck(q, listing'), listing'.cached,
             \/ q = op /\ entry.match = "none"
             \/ q = known /\ entry.match = "exact" /\ ~entry.unsure
      PROVE  IInv'
  <2>1. /\ q \in Ops /\ q.download = op.download /\ q.name = op.name /\ ~q.resume /\ ~q.doubtful
        /\ q.disturbed = op.disturbed
    BY <1>1, <1>4
  <2>2. q.remoteSize # Unknown /\ unseen' = {} => q.remoteSize = RemoteSize(Remote)
    BY <1>1, <1>2, <1>4, <1>6 DEF entry
  <2>3. CASE o = Go(q, "mdtm") /\ op.download
    <3>1. /\ o \in Ops /\ o.state = "mdtm" /\ o.download = op.download /\ o.name = op.name /\ ~o.resume
          /\ ~o.doubtful /\ o.disturbed = op.disturbed /\ o.remoteSize = q.remoteSize
      <4>1. "mdtm" \in States
        BY DEF States
      <4>2. QED
        BY <2>1, <2>3, <4>1, GoFields
    <3>2. /\ op' \in Ops /\ op'.state = "mdtm" /\ op'.download = op.download /\ op'.name = op.name /\ ~op'.resume
          /\ ~op'.doubtful /\ op'.disturbed = op.disturbed /\ op'.remoteSize = q.remoteSize
      BY <3>1, LookedFields
    <3>3. Missing' /\ Shown' /\ Sized' /\ Fresh' /\ AtMdtm'
      BY <2>2, <2>3, <3>2 DEF Missing, Shown, Uploaded, Sized, Fresh, AtMdtm, RemoteNames, RemoteSize, Remote
    <3>4. QED
      BY <1>1, <3>2, <3>3, LookingKeeps DEF Looks
  <2>4. CASE o = CheckOverwriteFile(q, listing')
    <3>1. q.remoteSize # Unknown /\ unseen' = {} => q.remoteSize = (IF q.download THEN source ELSE target[q.name].size)
      BY <2>1, <2>2 DEF RemoteSize, Remote
    <3>2. ~q.download /\ ~Exists(q, listing') => target[q.name].size = Unknown \/ q.name \in unseen'
      BY <1>1, <1>6, <2>1 DEF Exists, entry, Remote, Ops
    <3>3. op'.download = op.download /\ op'.state \in {"asked", "resumetest"}
      BY <2>1, <2>4, CheckOverwriteFields, LookedFields DEF IInv, Listings
    <3>4. Missing' /\ Shown'
      BY <3>3 DEF Missing, Shown, Uploaded, RemoteNames, RemoteSize
    <3>5. QED
      BY <1>1, <2>1, <2>4, <3>1, <3>2, <3>4, CheckKeeps
  <2>5. QED
    BY <1>6, <2>1, <2>3, <2>4 DEF MdtmOrCheck
<1>7. CASE ~listing'.cached
  BY <1>5, <1>7 DEF AfterLookup
<1>8. CASE listing'.cached /\ entry.match = "none"
  <2>1. o \in MdtmOrCheck(op, listing')
    BY <1>8 DEF AfterLookup, entry
  <2>2. QED
    BY <1>6, <1>8, <2>1
<1>9. CASE listing'.cached /\ entry.match = "other"
  BY <1>5, <1>9 DEF AfterLookup, entry
<1>10. CASE listing'.cached /\ entry.match = "exact"
  <2>1. CASE entry.unsure
    <3>1. o = Go(op, again)
      BY <1>10, <2>1 DEF AfterLookup, entry
    <3>2. QED
      BY <1>5, <3>1
  <2>2. CASE ~entry.unsure
    <3>1. o \in MdtmOrCheck(known, listing')
      BY <1>10, <2>2 DEF AfterLookup, entry, known
    <3>2. QED
      BY <1>6, <1>10, <2>2, <3>1
  <2>3. QED
    BY <2>1, <2>2
<1>11. QED
  BY <1>3, <1>7, <1>8, <1>9, <1>10 DEF Entries

LEMMA CwdKeeps == IInv /\ CwdResult => IInv'
<1> SUFFICES ASSUME IInv, CwdResult PROVE IInv'
  OBVIOUS
<1>1. op \in Ops /\ op.state = "cwd" /\ ~op.resume /\ op.remoteSize = Unknown /\ caps \in Capabilities
      /\ listing \in Listings /\ unseen \subseteq RemoteNames
  BY DEF IInv, TypeOK, CwdResult, Local, Fresh, Capabilities, Listings, Settled
<1>2. UNCHANGED <<target, source, server, caps, listing, unseen, transfers, changes>>
  BY DEF CwdResult, env
<1>3. CASE op' = Go(op, "size")
  <2>1. "size" \in States
    BY DEF States
  <2>2. /\ op' \in Ops /\ op'.state = "size" /\ op'.download = op.download /\ op'.name = op.name /\ ~op'.resume
        /\ op'.doubtful = op.doubtful /\ op'.disturbed = op.disturbed /\ op'.remoteSize = Unknown
    BY <1>1, <1>3, <2>1, GoFields
  <2>3. AtMdtm'
    BY <2>2 DEF AtMdtm
  <2>4. QED
    BY <1>1, <1>2, <2>2, <2>3, GoOnKeeps
<1>4. CASE op' \in AfterLookup(listing, "list", "list")
  <2>1. op' \in AfterLookup(listing', "list", "list")
    BY <1>2, <1>4
  <2>2. ~op.download /\ listing'.cached =>
           \A n \in Names : listing'.entries[n].match = "none" => target[n].size = Unknown \/ n \in unseen'
    BY <1>1, <1>2 DEF IInv, Missing, Uploaded
  <2>3. listing'.cached =>
              \A n \in RemoteNames :
                 listing'.entries[n].match = "exact" /\ ~listing'.entries[n].unsure /\ n \notin unseen'
                 => listing'.entries[n].size = RemoteSize(n)
    BY <1>1, <1>2 DEF IInv, Shown, Uploaded
  <2>4. QED
    BY <1>1, <1>2, <2>1, <2>2, <2>3, LookupKeeps
<1>5. QED
  BY <1>3, <1>4 DEF CwdResult

LEMMA ListKeeps == IInv /\ ListOk => IInv'
<1> SUFFICES ASSUME IInv, ListOk PROVE IInv'
  OBVIOUS
<1>1. PICK o \in AfterLookup(listing', "size", "size") : op' = Looked(o)
  BY DEF ListOk
<1>2. UNCHANGED <<target, source, server, caps, transfers, changes>> /\ unseen' = {} /\ op.state = "list"
  BY DEF ListOk
<1>3. /\ listing' \in Listings
      /\ listing'.cached => \A n \in RemoteNames :
                             /\ listing'.entries[n].match = "none" => RemoteSize(n) = Unknown
                             /\ listing'.entries[n].match = "exact" => listing'.entries[n].size = RemoteSize(n)
  BY NewListingsFacts DEF IInv, TypeOK, Files, ListOk
<1>4. ~op.download /\ listing'.cached =>
         \A n \in Names : listing'.entries[n].match = "none" => target[n].size = Unknown \/ n \in unseen'
  BY <1>3 DEF RemoteNames, RemoteSize
<1>5. QED
  BY <1>1, <1>2, <1>3, <1>4, LookupKeeps

LEMMA ListFailsKeeps == IInv /\ ListFails => IInv'
<1> SUFFICES ASSUME IInv, ListFails PROVE IInv'
  OBVIOUS
<1>1. op \in Ops /\ op.state = "list" /\ ~op.resume /\ op.remoteSize = Unknown /\ caps \in Capabilities
  BY DEF IInv, TypeOK, ListFails, Local, Fresh, Capabilities, Settled
<1>2. "size" \in States
  BY DEF States
<1>3. /\ op' \in Ops /\ op'.state = "size" /\ op'.download = op.download /\ op'.name = op.name /\ ~op'.resume
      /\ op'.doubtful = op.doubtful /\ op'.disturbed = op.disturbed /\ op'.remoteSize = Unknown
  BY <1>1, <1>2, GoFields DEF ListFails
<1>4. AtMdtm'
  BY <1>3 DEF AtMdtm
<1>5. QED
  BY <1>1, <1>3, <1>4, GoOnKeeps DEF ListFails, env

LEMMA SizeKeeps == IInv /\ SizeReply => IInv'
<1> SUFFICES ASSUME IInv, SizeReply PROVE IInv'
  OBVIOUS
<1> DEFINE size == RemoteSize(Remote)
<1>1. op \in Ops /\ op.state = "size" /\ ~op.resume /\ ~op.doubtful /\ op.remoteSize = Unknown /\ caps \in Capabilities
      /\ listing \in Listings /\ unseen \subseteq RemoteNames
  BY DEF IInv, TypeOK, SizeReply, Local, Fresh, Capabilities, Listings, Settled
<1>2. UNCHANGED <<target, source, server, listing, unseen, transfers, changes>>
  BY DEF SizeReply, env
<1>3. size \in Sizes
  BY <1>1, SizesFacts DEF IInv, TypeOK, RemoteSize, Remote, Ops
<1> DEFINE refused == Refused("size")
<1>8. /\ refused \in Ops /\ refused.state = op.state /\ refused.download = op.download /\ refused.name = op.name
      /\ ~refused.resume /\ refused.remoteSize = op.remoteSize /\ refused.doubtful = op.doubtful /\ refused.since = op.since
      /\ refused.disturbed = op.disturbed /\ refused.refused \in SUBSET {"size", "mdtm"}
      /\ ~op.download => "size" \in refused.refused \/ target[op.name].size = Unknown
  BY <1>1, RefusedFields
<1> HIDE DEF refused
<1>4. CASE size # Unknown /\ op' = Looked([op EXCEPT !.remoteSize = size, !.state = "mdtm"])
           /\ caps' = [caps EXCEPT !.size = "yes"]
  <2> DEFINE o == [op EXCEPT !.remoteSize = size, !.state = "mdtm"]
  <2>1. size = RemoteSize(Remote) /\ "mdtm" \in States
    BY <1>4 DEF States
  <2> HIDE DEF size
  <2>2. /\ o \in Ops /\ o.state = "mdtm" /\ o.download = op.download /\ o.name = op.name /\ ~o.resume
        /\ o.doubtful = op.doubtful /\ o.disturbed = op.disturbed /\ o.remoteSize = size
    BY <1>1, <1>3, <2>1 DEF Ops
  <2> HIDE DEF o
  <2>3. /\ op' \in Ops /\ op'.state = "mdtm" /\ op'.download = op.download /\ op'.name = op.name /\ ~op'.resume
        /\ op'.doubtful = op.doubtful /\ op'.disturbed = op.disturbed /\ op'.remoteSize = size
    BY <1>4, <2>2, LookedFields DEF o
  <2>4. caps' \in Capabilities /\ caps'.two = caps.two /\ caps'.four = caps.four /\ caps'.guessed = caps.guessed
    BY <1>1, <1>4 DEF Capabilities
  <2>5. AtMdtm'
    BY <1>4, <2>3 DEF AtMdtm
  <2>6. QED
    BY <1>1, <1>2, <2>1, <2>3, <2>4, <2>5, GoOnKeeps
<1>5. CASE /\ caps.size = "yes" \/ (server.size /\ size = Unknown)
           /\ op' = Looked(CheckOverwriteFile(refused, listing)) /\ UNCHANGED caps
  <2>3. /\ CheckOverwriteFile(refused, listing) \in Ops
        /\ CheckOverwriteFile(refused, listing).state \in {"asked", "resumetest"}
        /\ CheckOverwriteFile(refused, listing).download = op.download
    BY <1>1, <1>8, CheckOverwriteFields DEF IInv, Listings
  <2>4. op'.download = op.download /\ op'.state \in {"asked", "resumetest"}
    BY <1>5, <2>3, LookedFields
  <2>5. Missing' /\ Shown'
    BY <1>1, <1>2, <2>4 DEF IInv, Missing, Shown, Uploaded, RemoteNames, RemoteSize
  <2>6. op' = Looked(CheckOverwriteFile(refused, listing'))
    BY <1>2, <1>5
  <2>7. ASSUME ~refused.download, ~Exists(refused, listing')
        PROVE  \/ target[refused.name].size = Unknown
               \/ /\ refused.refused = {"size", "mdtm"} \/ (refused.refused = {"size"} /\ caps'.size = "yes")
                  /\ ~(listing'.cached /\ listing'.entries[refused.name].match = "exact")
    <3>1. ~(listing'.cached /\ listing'.entries[refused.name].match = "exact")
      BY <2>7 DEF Exists
    <3>2. CASE target[op.name].size = Unknown
      BY <1>8, <3>2
    <3>3. CASE target[op.name].size # Unknown
      <4>1. caps'.size = "yes"
        BY <1>5, <1>8, <2>7, <3>3 DEF RemoteSize, Remote
      <4>2. "size" \in refused.refused /\ refused.refused \in SUBSET {"size", "mdtm"}
        BY <1>8, <2>7, <3>3
      <4>3. refused.refused = {"size", "mdtm"} \/ refused.refused = {"size"}
        BY <4>2
      <4>4. QED
        BY <3>1, <4>1, <4>3
    <3>4. QED
      BY <3>2, <3>3
  <2>8. QED
    BY <1>1, <1>2, <1>5, <1>8, <2>5, <2>6, <2>7, CheckKeeps
<1>6. CASE op' = Go(refused, "mdtm") /\ UNCHANGED caps
  <2>1. "mdtm" \in States
    BY DEF States
  <2>2. /\ op' \in Ops /\ op'.state = "mdtm" /\ op'.download = op.download /\ op'.name = op.name /\ ~op'.resume
        /\ op'.doubtful = op.doubtful /\ op'.disturbed = op.disturbed /\ op'.remoteSize = op.remoteSize
        /\ op'.refused = refused.refused
    BY <1>1, <1>6, <1>8, <2>1, GoFields
  <2>3. AtMdtm'
    BY <1>2, <1>8, <2>2 DEF AtMdtm
  <2>4. QED
    BY <1>1, <1>2, <1>6, <2>2, <2>3, GoOnKeeps
<1>7. QED
  BY <1>4, <1>5, <1>6 DEF SizeReply, refused

LEMMA MdtmKeeps == IInv /\ MdtmReply => IInv'
<1> SUFFICES ASSUME IInv, MdtmReply PROVE IInv'
  OBVIOUS
<1>1. op \in Ops /\ op.state = "mdtm" /\ ~op.resume /\ ~op.doubtful /\ caps \in Capabilities
      /\ listing \in Listings /\ unseen \subseteq RemoteNames
  BY DEF IInv, TypeOK, MdtmReply, Local, Fresh, Capabilities, Listings, Settled
<1>2. UNCHANGED <<target, source, server, caps, listing, unseen, transfers, changes>>
  BY DEF MdtmReply, env
<1>3. ASSUME NEW o \in Ops, o.download = op.download, o.name = op.name, ~o.resume, ~o.doubtful,
             o.disturbed = op.disturbed, o.remoteSize = op.remoteSize, op' = CheckOverwriteFile(o, listing),
             \/ o.remoteTime
             \/ /\ o.since = op.since /\ op.refused \subseteq o.refused
                /\ ~op.download => "mdtm" \in o.refused \/ target[op.name].size = Unknown
      PROVE  IInv'
  <2>1. op' = CheckOverwriteFile(o, listing')
    BY <1>2, <1>3
  <2>2. /\ op'.download = o.download /\ op'.state \in {"asked", "resumetest"}
        /\ op'.since = (IF o.download THEN {} ELSE o.since)
    BY <1>1, <1>3, CheckOverwriteFields DEF IInv, Listings
  <2>3. Missing' /\ Shown'
    BY <1>1, <1>2, <1>3, <2>2 DEF IInv, Missing, Shown, Uploaded, RemoteNames, RemoteSize
  <2>4. o.remoteSize # Unknown /\ ~o.disturbed /\ unseen' = {} /\ ~o.doubtful
           => o.remoteSize = (IF o.download THEN source ELSE target[o.name].size)
    BY <1>1, <1>2, <1>3 DEF IInv, Sized, RemoteSize, Remote
  <2>5. ASSUME ~o.download, ~Exists(o, listing')
        PROVE  \/ target[o.name].size = Unknown
               \/ op'.since = o.since /\ o.name \in o.since
               \/ /\ o.refused = {"size", "mdtm"}
                  /\ ~(listing'.cached /\ listing'.entries[o.name].match = "exact")
    <3>1. ~o.remoteTime /\ op.remoteSize = Unknown /\ ~(listing'.cached /\ listing'.entries[o.name].match = "exact")
      BY <1>3, <2>5 DEF Exists
    <3>2. o.since = op.since /\ op.refused \subseteq o.refused /\ op'.since = o.since
      BY <1>3, <2>2, <2>5, <3>1
    <3>3. target[op.name].size = Unknown \/ op.name \in op.since \/ "size" \in op.refused
      BY <1>1, <1>3, <2>5, <3>1 DEF IInv, AtMdtm
    <3>4. target[op.name].size = Unknown \/ "mdtm" \in o.refused
      BY <1>3, <2>5, <3>1
    <3>5. "size" \in o.refused /\ "mdtm" \in o.refused => o.refused = {"size", "mdtm"}
      <4>1. o.refused \in SUBSET {"size", "mdtm"}
        BY DEF Ops
      <4>2. QED
        BY <4>1
    <3>6. QED
      BY <1>3, <3>1, <3>2, <3>3, <3>4, <3>5
  <2>6. QED
    BY <1>1, <1>2, <1>3, <2>1, <2>3, <2>4, <2>5, CheckKeeps
<1>4. CASE op' = CheckOverwriteFile(Looked([op EXCEPT !.remoteTime = TRUE]), listing)
  <2> DEFINE seen == [op EXCEPT !.remoteTime = TRUE]
  <2>1. /\ seen \in Ops /\ seen.download = op.download /\ seen.name = op.name /\ ~seen.resume /\ ~seen.doubtful
        /\ seen.disturbed = op.disturbed /\ seen.remoteSize = op.remoteSize /\ seen.remoteTime
    BY <1>1 DEF Ops
  <2>2. op' = CheckOverwriteFile(Looked(seen), listing)
    BY <1>4
  <2> HIDE DEF seen
  <2>3. QED
    BY <1>3, <2>1, <2>2, LookedFields
<1>5. CASE op' = CheckOverwriteFile(Refused("mdtm"), listing)
  BY <1>1, <1>3, <1>5, RefusedFields
<1>6. QED
  BY <1>4, <1>5 DEF MdtmReply

LEMMA BeginKeeps == IInv /\ Begin => IInv'
<1> SUFFICES ASSUME IInv, Begin PROVE IInv'
  OBVIOUS
<1>1. op.state = "idle" /\ op.download \in BOOLEAN /\ op' = NewOp(op.download) /\ transfers' = transfers + 1
      /\ UNCHANGED <<target, source, listing, server, caps, unseen, changes>>
  BY DEF IInv, TypeOK, Begin, Ops
<1>2. /\ op' \in Ops /\ op'.state = "cwd" /\ op'.download = op.download /\ ~op'.resume
      /\ op'.remoteSize = Unknown /\ ~op'.doubtful
  BY <1>1, NewOpFields
<1>3. TypeOK'
  BY <1>1, <1>2 DEF IInv, TypeOK, RemoteNames
<1>4. Missing' /\ Shown'
  BY <1>1, <1>2 DEF IInv, Missing, Shown, Uploaded, RemoteNames, RemoteSize
<1>5. Decided' /\ AtMdtm' /\ Sized' /\ Local' /\ Fresh'
  BY <1>2 DEF Decided, AtMdtm, Sized, Local, Fresh, Settled
<1>6. Good' /\ Judged'
  BY <1>1 DEF IInv, Good, Judged
<1>7. Stages' /\ Moving' /\ Finished'
  BY <1>2 DEF Stages, Moving, Finished
<1>8. QED
  BY <1>3, <1>4, <1>5, <1>6, <1>7 DEF IInv

-----------------------------------------------------------------------------
(* The operation ends. *)

LEMMA EndKeeps ==
    ASSUME IInv, NEW o \in Ops, NEW result \in {"ok", "skipped", "failed"}, op' = End(o, result),
           o.download = op.download, o.doubtful = op.doubtful, UNCHANGED <<source, server, unseen, transfers, changes>>,
           target' \in [Names -> Files], listing' \in Listings, caps' \in Capabilities,
           Good', Missing', Shown', Judged', Finished'
    PROVE  IInv'
<1>1. /\ op' \in Ops /\ op'.state = "idle" /\ op'.download = op.download /\ op'.remoteSize = Unknown
      /\ op'.doubtful => op.doubtful
  BY EndFields
<1>2. TypeOK'
  BY <1>1 DEF IInv, TypeOK, RemoteNames, Files, Listings, Capabilities
<1>3. Decided' /\ AtMdtm' /\ Sized' /\ Local'
  BY <1>1 DEF Decided, AtMdtm, Sized, Local, Settled
<1>4. Fresh'
  BY <1>1 DEF IInv, Fresh
<1>5. Stages' /\ Moving'
  BY <1>1 DEF Stages, Moving
<1>6. QED
  BY <1>2, <1>3, <1>4, <1>5 DEF IInv

(* It ends without success, and nothing else changes. *)
LEMMA StopKeeps ==
    ASSUME IInv, NEW o \in Ops, NEW result \in {"skipped", "failed"}, op' = End(o, result),
           op.state = "mfmt" => Complete(op),
           o.download = op.download, o.doubtful = op.doubtful,
           UNCHANGED <<target, source, server, listing, unseen, transfers, changes>>,
           caps' \in Capabilities, Judged'
    PROVE  IInv'
<1>1. op' \in Ops /\ op'.state = "idle" /\ op'.download = op.download /\ op'.result = result
  BY EndFields
<1>2. target' \in [Names -> Files] /\ listing' \in Listings /\ Good'
  BY DEF IInv, TypeOK, Files, Listings, Good
<1>3. Missing' /\ Shown'
  BY <1>1 DEF IInv, Missing, Shown, Uploaded, RemoteNames, RemoteSize
<1>4. Finished'
  BY <1>1 DEF Finished
<1>5. QED
  BY <1>2, <1>3, <1>4, EndKeeps

LEMMA UpdateCacheKeeps ==
    ASSUME IInv, NEW size \in Sizes, UpdateCache(size), UNCHANGED <<source, unseen>>,
           op'.download = op.download, op'.state = "idle",
           \A n \in Names \ {op.name} : target'[n] = target[n]
    PROVE  listing' \in Listings /\ Missing' /\ Shown'
<1>1. listing \in Listings /\ op.name \in Names /\ op.download \in BOOLEAN
  BY DEF IInv, TypeOK, Listings, Ops
<1>2. CASE op.download
  <2>1. listing' = listing /\ op.state # "mfmt"
    BY <1>2 DEF UpdateCache, IInv, Stages
  <2>2. QED
    BY <1>1, <1>2, <2>1 DEF IInv, Missing, Shown, Uploaded, RemoteNames, RemoteSize
<1>3. CASE ~listing.cached
  <2>1. listing' = listing
    BY <1>3 DEF UpdateCache
  <2>2. QED
    BY <1>1, <1>3, <2>1 DEF Missing, Shown, Uploaded
<1>4. CASE ~op.download /\ listing.cached
  <2> DEFINE new == Marked(listing.entries[op.name], size)
  <2>1. RemoteNames = Names /\ RemoteNames' = Names /\ listing.entries \in [Names -> Entries]
    BY <1>1, <1>4 DEF RemoteNames, Listings
  <2>2. new \in Entries /\ new.match = "exact" /\ new.unsure
    BY <1>1, <2>1 DEF Marked, Entries, Exact
  <2>3. listing' = [listing EXCEPT !.entries[op.name] = new]
    BY <1>4 DEF UpdateCache
  <2> HIDE DEF new
  <2>4. /\ listing' \in Listings /\ listing'.cached = listing.cached
        /\ listing'.entries = [listing.entries EXCEPT ![op.name] = new]
    BY <1>1, <2>1, <2>2, <2>3 DEF Listings
  <2>5. listing'.entries[op.name] = new /\ \A n \in Names \ {op.name} : listing'.entries[n] = listing.entries[n]
    BY <1>1, <2>1, <2>4
  <2>6. Missing'
    BY <1>4, <2>2, <2>4, <2>5 DEF IInv, Missing, Uploaded
  <2>7. Shown'
    BY <1>4, <2>1, <2>2, <2>4, <2>5 DEF IInv, Shown, Uploaded, RemoteSize
  <2>8. QED
    BY <2>4, <2>6, <2>7
<1>5. QED
  BY <1>2, <1>3, <1>4

LEMMA AbortKeeps == IInv /\ Abort => IInv'
<1> SUFFICES ASSUME IInv, Abort PROVE IInv'
  OBVIOUS
<1>1. op \in Ops /\ op' = End(op, "failed") /\ UNCHANGED <<target, source, server, caps, unseen, transfers, changes>>
      /\ caps \in Capabilities /\ Judged'
  BY DEF Abort, IInv, TypeOK, Capabilities, Judged
<1>2. CASE UNCHANGED listing /\ (op.state = "mfmt" => Complete(op))
  BY <1>1, <1>2, StopKeeps
<1>3. CASE UpdateCache(Unknown)
  <2>1. op'.state = "idle" /\ op'.download = op.download /\ op'.result = "failed"
    BY <1>1, EndFields
  <2>3. listing' \in Listings /\ Missing' /\ Shown'
    BY <1>1, <1>3, <2>1, SizesFacts, UpdateCacheKeeps
  <2>4. Finished' /\ Good' /\ target' \in [Names -> Files]
    BY <1>1, <2>1 DEF Finished, IInv, Good, TypeOK, Files
  <2>5. QED
    BY <1>1, <2>3, <2>4, EndKeeps
<1>4. QED
  BY <1>2, <1>3 DEF Abort

(* The answer of the server to MFMT ends a transfer that was well. *)
LEMMA MfmtKeeps == IInv /\ MfmtReply => IInv'
<1> SUFFICES ASSUME IInv, MfmtReply PROVE IInv'
  OBVIOUS
<1>1. op \in Ops /\ op.state = "mfmt" /\ op' = End(op, "ok") /\ caps \in Capabilities
      /\ UNCHANGED <<target, source, server, caps, unseen, transfers, changes>> /\ source \in Sizes
      /\ ~op.download /\ Judged'
  BY SizesFacts DEF MfmtReply, IInv, TypeOK, Capabilities, Judged, Stages
<1>2. /\ op' \in Ops /\ op'.state = "idle" /\ op'.download = op.download /\ op'.disturbed = op.disturbed
      /\ op'.name = op.name /\ (op'.resume <=> op.resume) /\ (op'.doubtful <=> op.doubtful)
      /\ op.resume => op'.offset = op.offset /\ (op'.wasGood <=> op.wasGood)
  BY <1>1, EndFields
<1>8. ASSUME Complete(op) PROVE listing' \in Listings /\ Missing' /\ Shown'
  <2>1. UNCHANGED listing /\ listing \in Listings
    BY <1>8 DEF MfmtReply, IInv, TypeOK, Listings
  <2>2. QED
    BY <1>1, <1>2, <1>8, <2>1 DEF IInv, Missing, Shown, Uploaded, RemoteNames, RemoteSize
<1>9. ASSUME ~Complete(op) PROVE listing' \in Listings /\ Missing' /\ Shown'
  <2>1. UpdateCache(source)
    BY <1>9 DEF MfmtReply
  <2>2. QED
    BY <1>1, <1>2, <2>1, UpdateCacheKeeps
<1>3. listing' \in Listings /\ Missing' /\ Shown'
  BY <1>8, <1>9
<1>4. Undisturbed' => Undisturbed
  BY <1>1, <1>2 DEF Undisturbed
<1>5. Finished'
  BY <1>1, <1>2, <1>4 DEF IInv, Finished
<1>6. Good' /\ target' \in [Names -> Files]
  BY <1>1 DEF IInv, Good, TypeOK, Files
<1>7. QED
  BY <1>1, <1>3, <1>5, <1>6, EndKeeps

-----------------------------------------------------------------------------
(* The user answers. *)

LEMMA AskedFacts ==
    ASSUME IInv, op.state = "asked", UNCHANGED <<env, caps>>
    PROVE  /\ op \in Ops /\ ~op.resume /\ caps \in Capabilities /\ listing \in Listings /\ unseen \subseteq RemoteNames
           /\ op.download => ~op.doubtful
           /\ UNCHANGED <<target, source, server, caps, listing, unseen, transfers, changes>>
           /\ op.localSize \in Sizes /\ op.remoteSize \in Sizes
  BY DEF IInv, TypeOK, Local, Fresh, Capabilities, Listings, Settled, env, Ops

(* The user agrees, and may want the transfer resumed. *)
LEMMA AgreedKeeps ==
    ASSUME IInv, op.state = "asked", UNCHANGED <<env, caps>>,
           op' \in Ops, op'.state = "resumetest", op.name \in op'.consent, op'.name = op.name,
           op'.download = op.download, op'.remoteSize = op.remoteSize, op'.localSize = op.localSize,
           op'.disturbed = op.disturbed, op'.doubtful = op.doubtful,
           op'.resume => (op.download => op.localSize # Unknown)
    PROVE  IInv'
<1>1. Missing' /\ Shown' /\ Sized' /\ Fresh' /\ AtMdtm'
  BY AskedFacts DEF IInv, Missing, Shown, Uploaded, Sized, Fresh, AtMdtm, RemoteNames, RemoteSize, Remote
<1>2. Allowed(op.name)'
  BY DEF Allowed
<1>3. ~op'.disturbed => op'.localSize = LocalSize'
  BY AskedFacts DEF IInv, Local, LocalSize
<1>4. QED
  BY <1>1, <1>2, <1>3, AskedFacts, LookingKeeps DEF Looks

LEMMA RenameKeeps ==
    ASSUME IInv, op.state = "asked", UNCHANGED <<env, caps>>, NEW n \in Names, Rename(n)
    PROVE  IInv'
<1> DEFINE new == [op EXCEPT !.name = n, !.refused = {}]
           entry == listing.entries[n]
           known == [new EXCEPT !.remoteSize = entry.size, !.remoteTime = TRUE, !.doubtful = entry.unsure]
<1>1. /\ op \in Ops /\ ~op.resume /\ caps \in Capabilities /\ listing \in Listings /\ unseen \subseteq RemoteNames
      /\ op.download => ~op.doubtful
      /\ UNCHANGED <<target, source, server, caps, listing, unseen, transfers, changes>>
  BY AskedFacts
<1>2. /\ new \in Ops /\ new.name = n /\ new.download = op.download /\ new.resume = op.resume
      /\ new.remoteSize = op.remoteSize /\ new.localSize = op.localSize /\ new.disturbed = op.disturbed
      /\ new.doubtful = op.doubtful /\ new.state = "asked" /\ new.unchecked = op.unchecked
  BY <1>1 DEF Ops
<1>3. ASSUME op'.download = op.download, op'.state \in {"asked", "resumetest"}
      PROVE  Missing' /\ Shown'
  BY <1>1, <1>3 DEF IInv, Missing, Shown, Uploaded, RemoteNames, RemoteSize
<1>4. CASE op.download
  <2>1. op' = CheckOverwriteFile(new, listing')
    BY <1>1, <1>4 DEF Rename
  <2> HIDE DEF new
  <2>2. op'.download = op.download /\ op'.state \in {"asked", "resumetest"}
    BY <1>1, <1>2, <2>1, CheckOverwriteFields DEF IInv, Listings
  <2>3. new.remoteSize # Unknown /\ ~new.disturbed /\ unseen' = {} /\ ~new.doubtful
           => new.remoteSize = (IF new.download THEN source ELSE target[new.name].size)
    BY <1>1, <1>2, <1>4 DEF IInv, Sized, RemoteSize, Remote
  <2>4. QED
    BY <1>1, <1>2, <1>3, <1>4, <2>1, <2>2, <2>3, CheckKeeps
<1>5. CASE ~op.download /\ listing.cached /\ entry.match = "exact"
  <2>1. op' = CheckOverwriteFile(known, listing')
    BY <1>1, <1>5 DEF Rename
  <2> HIDE DEF new
  <2>2. entry \in Entries /\ RemoteNames = Names
    BY <1>1, <1>5 DEF Listings, RemoteNames
  <2>3. entry.size \in Sizes /\ entry.unsure \in BOOLEAN
    BY <2>2 DEF Entries
  <2> HIDE DEF entry
  <2>4. /\ known \in Ops /\ known.name = n /\ known.download = op.download /\ known.resume = op.resume
        /\ known.remoteSize = entry.size /\ known.disturbed = op.disturbed /\ known.doubtful = entry.unsure
    BY <1>2, <2>3 DEF Ops
  <2> HIDE DEF known
  <2>5. op'.download = op.download /\ op'.state \in {"asked", "resumetest"}
    BY <1>1, <2>1, <2>4, CheckOverwriteFields DEF IInv, Listings
  <2>6. unseen = {} /\ ~entry.unsure => entry.size = target[n].size
    BY <1>5, <2>2 DEF IInv, Shown, Uploaded, RemoteSize, entry
  <2>7. known.remoteSize # Unknown /\ ~known.disturbed /\ unseen' = {} /\ ~known.doubtful
           => known.remoteSize = (IF known.download THEN source ELSE target[known.name].size)
    BY <1>1, <1>5, <2>4, <2>6
  <2>8. Exists(known, listing')
    BY <1>1, <1>5, <2>4 DEF Exists, entry
  <2>9. QED
    BY <1>1, <1>3, <1>5, <2>1, <2>4, <2>5, <2>7, <2>8, CheckKeeps
<1>6. CASE ~op.download /\ ~(listing.cached /\ entry.match = "exact")
  <2>1. op' = [new EXCEPT !.remoteSize = Unknown, !.remoteTime = FALSE, !.unchecked = TRUE, !.state = "resumetest"]
    BY <1>6 DEF Rename
  <2> HIDE DEF new
  <2>2. /\ op' \in Ops /\ op'.state = "resumetest" /\ op'.download = op.download /\ op'.name = n
        /\ op'.resume = op.resume /\ op'.remoteSize = Unknown /\ op'.unchecked /\ op'.disturbed = op.disturbed
        /\ op'.localSize = op.localSize
    BY <1>2, <2>1, SizesFacts DEF Ops, States
  <2>3. Missing' /\ Shown'
    BY <1>3, <2>2
  <2>4. Sized' /\ Fresh' /\ AtMdtm' /\ Allowed(op.name)'
    BY <1>6, <2>2 DEF Sized, Fresh, AtMdtm, Allowed
  <2>5. ~op'.disturbed => op'.localSize = LocalSize'
    BY <1>1, <1>6, <2>2 DEF IInv, Local, LocalSize
  <2>6. QED
    BY <1>1, <2>2, <2>3, <2>4, <2>5, LookingKeeps DEF Looks
<1>7. QED
  BY <1>4, <1>5, <1>6

LEMMA AnswerKeeps == IInv /\ Answer => IInv'
<1> SUFFICES ASSUME IInv, Answer PROVE IInv'
  OBVIOUS
<1>1. op.state = "asked" /\ UNCHANGED <<env, caps>>
  BY DEF Answer
<1>2. op \in Ops /\ ~op.resume /\ op.name \in Names
  BY <1>1, AskedFacts DEF Ops
<1>3. CASE Proceed
  <2>1. /\ op' \in Ops /\ op'.state = "resumetest" /\ op.name \in op'.consent /\ op'.name = op.name
        /\ op'.download = op.download /\ op'.remoteSize = op.remoteSize /\ op'.localSize = op.localSize
        /\ op'.disturbed = op.disturbed /\ op'.doubtful = op.doubtful /\ op'.resume = op.resume
    BY <1>2, <1>3 DEF Proceed, Ops, States
  <2>2. QED
    BY <1>1, <1>2, <2>1, AgreedKeeps
<1>4. CASE Resume
  <2> DEFINE new == IF op.download THEN op.localSize # Unknown ELSE op.remoteSize # Unknown
  <2>1. op' = [op EXCEPT !.state = "resumetest", !.consent = @ \cup {op.name}, !.resume = new]
    BY <1>4 DEF Resume
  <2>2. new \in BOOLEAN /\ (new => (op.download => op.localSize # Unknown))
    OBVIOUS
  <2> HIDE DEF new
  <2>3. /\ op' \in Ops /\ op'.state = "resumetest" /\ op.name \in op'.consent /\ op'.name = op.name
        /\ op'.download = op.download /\ op'.remoteSize = op.remoteSize /\ op'.localSize = op.localSize
        /\ op'.disturbed = op.disturbed /\ op'.doubtful = op.doubtful /\ op'.resume = new
    BY <1>2, <2>1, <2>2 DEF Ops, States
  <2>4. QED
    BY <1>1, <2>2, <2>3, AgreedKeeps
<1>5. CASE Skip
  <2>1. Judged'
    BY <1>1 DEF IInv, Judged, env
  <2>2. QED
    BY <1>1, <1>5, <2>1, AskedFacts, StopKeeps DEF Skip, env
<1>6. CASE \E n \in Names \ {op.name} : Rename(n)
  BY <1>1, <1>6, RenameKeeps
<1>7. QED
  BY <1>3, <1>4, <1>5, <1>6 DEF Answer, Overwrite, OverwriteNewer, OverwriteSize, OverwriteSizeOrNewer

-----------------------------------------------------------------------------
(* The transfer is sent. *)

(* What a step of the transfer may disturb when the operation and the target keep what
   was decided. *)
LEMMA DecidedKeeps ==
    ASSUME IInv, op.state \in Settled, op'.name = op.name, op'.consent = op.consent, op'.since = op.since,
           op'.unchecked = op.unchecked, op'.download = op.download, op'.refused = op.refused, caps'.size = caps.size,
           UNCHANGED <<target, unseen, listing>>
    PROVE  Allowed(op.name)'
  BY DEF IInv, Decided, Allowed

LEMMA UploadKeeps ==
    ASSUME IInv, op.state \in {"resumetest", "transfer"}, ~op.download, SendUpload,
           UNCHANGED <<source, listing, server, caps, unseen, transfers, changes>>
    PROVE  IInv'
<1> DEFINE offset == IF op.resume /\ op.remoteSize > 0 THEN op.remoteSize ELSE 0
           read == [op EXCEPT !.offset = offset, !.wasGood = target[op.name].good]
<1>1. /\ op \in Ops /\ op.state = "resumetest" /\ caps \in Capabilities /\ listing \in Listings
      /\ target \in [Names -> Files] /\ UNCHANGED target /\ Judged' /\ Good' /\ source \in 0..MaxSize
  BY DEF IInv, TypeOK, Stages, Capabilities, Listings, Files, SendUpload, Judged, Good
<1>2. target[op.name].good \in BOOLEAN /\ target[op.name].size \in Sizes /\ op.remoteSize \in Sizes
      /\ op.name \in Names /\ op.localSize \in Sizes /\ op.resume \in BOOLEAN
  BY <1>1 DEF Ops, Files
<1>3. /\ offset \in -2..MaxSize /\ offset >= 0 /\ offset \in Int
      /\ offset > 0 => op.resume /\ offset = op.remoteSize
  BY <1>2, TransferAssumption DEF Sizes, Unknown
<1>4. /\ Complete(read) => op' \in {End(read, "ok"), Go(read, "mfmt")}
      /\ ~Complete(read) => op' = Go(read, "waittransfer")
  BY DEF SendUpload
<1> HIDE DEF offset
<1>5. /\ read \in Ops /\ read.offset = offset /\ (read.wasGood <=> target[op.name].good) /\ read.state = op.state
      /\ read.download = op.download /\ read.name = op.name /\ read.resume = op.resume
      /\ read.remoteSize = op.remoteSize /\ read.localSize = op.localSize /\ read.disturbed = op.disturbed
      /\ read.doubtful = op.doubtful /\ read.consent = op.consent /\ read.since = op.since
      /\ read.unchecked = op.unchecked /\ read.refused = op.refused
  BY <1>1, <1>2, <1>3 DEF Ops
<1> HIDE DEF read
<1>13. Complete(read) <=> offset > 0 /\ offset >= op.localSize
  BY <1>5 DEF Complete
<1>6. ASSUME NEW o, o.name = op.name, o.resume <=> op.resume, o.offset = offset, o.disturbed = op.disturbed,
             o.wasGood <=> target[op.name].good, o.doubtful <=> op.doubtful,
             offset > 0 /\ offset >= op.localSize, ~o.disturbed, o.resume => o.wasGood /\ unseen = {},
             o.resume => ~o.doubtful
      PROVE  target[op.name].size = source /\ target[op.name].good
  <2>1. op.resume /\ offset = op.remoteSize /\ target[op.name].good /\ unseen = {} /\ ~op.doubtful /\ ~op.disturbed
    BY <1>3, <1>6
  <2>2. op.localSize = source
    BY <1>1, <2>1 DEF IInv, Local
  <2>3. op.remoteSize = target[op.name].size
    BY <1>1, <1>2, <1>3, <1>6, <2>1, SizesFacts DEF IInv, Sized, RemoteSize, Remote
  <2>4. target[op.name].size \in 0..source
    BY <1>2, <2>1 DEF IInv, Good
  <2>5. QED
    BY <1>1, <1>6, <2>1, <2>2, <2>3, <2>4
<1>7. CASE op' = End(read, "ok") /\ offset > 0 /\ offset >= op.localSize
  <2>1. /\ op'.state = "idle" /\ op'.download = op.download /\ op'.name = op.name /\ op'.disturbed = op.disturbed
        /\ op'.resume <=> op.resume
        /\ op'.doubtful <=> op.doubtful
        /\ op.resume => op'.offset = offset /\ (op'.wasGood <=> target[op.name].good)
    BY <1>5, <1>7, EndFields
  <2>2. op.resume
    BY <1>3, <1>7
  <2>3. Missing' /\ Shown'
    BY <1>1, <2>1 DEF IInv, Missing, Shown, Uploaded, RemoteNames, RemoteSize
  <2>4. Finished'
    BY <1>1, <1>6, <1>7, <2>1, <2>2 DEF Finished, Undisturbed
  <2>5. QED
    BY <1>1, <1>5, <1>7, <2>3, <2>4, EndKeeps
<1>8. ASSUME NEW state \in {"mfmt", "waittransfer"}, op' = Go(read, state)
      PROVE  /\ op' \in Ops /\ op'.state = state /\ op'.download = op.download /\ op'.name = op.name
             /\ op'.disturbed = op.disturbed /\ op'.resume = op.resume /\ op'.doubtful = op.doubtful
             /\ op'.offset = offset /\ (op'.wasGood <=> target[op.name].good) /\ op'.remoteSize = op.remoteSize
             /\ op'.localSize = op.localSize /\ op'.consent = op.consent /\ op'.since = op.since
             /\ op'.unchecked = op.unchecked /\ op'.refused = op.refused
  <2>1. state \in States
    BY DEF States
  <2>2. QED
    BY <1>5, <1>8, <2>1, GoFields
<1>9. ASSUME NEW state \in {"mfmt", "waittransfer"}, op' = Go(read, state), Stages', Moving', Finished',
             state = "mfmt" => offset > 0 /\ offset >= op.localSize
      PROVE  IInv'
  <2>1. TypeOK'
    BY <1>1, <1>8, <1>9 DEF IInv, TypeOK, RemoteNames, Files
  <2>7. \A n \in Names : ~Uploaded(n) /\ ~Uploaded(n)'
    BY <1>1, <1>8, <1>9 DEF Uploaded, Complete
  <2>2. Missing' /\ Shown' /\ AtMdtm' /\ Fresh'
    BY <1>1, <1>8, <1>9, <2>7 DEF IInv, Missing, Shown, Uploaded, AtMdtm, Fresh, RemoteNames, RemoteSize
  <2>3. Sized'
    BY <1>1, <1>8, <1>9 DEF IInv, Sized, RemoteSize, Remote
  <2>4. Local'
    BY <1>1, <1>8, <1>9 DEF IInv, Local, Settled
  <2>5. Decided'
    BY <1>1, <1>8, <1>9, DecidedKeeps DEF Decided, Settled
  <2>6. QED
    BY <1>1, <1>9, <2>1, <2>2, <2>3, <2>4, <2>5 DEF IInv
<1>10. CASE op' = Go(read, "mfmt") /\ offset > 0 /\ offset >= op.localSize
  <2>1. Stages' /\ Moving'
    BY <1>8, <1>10 DEF Stages, Moving
  <2>2. Finished'
    BY <1>1, <1>6, <1>8, <1>10 DEF Finished, Undisturbed
  <2>3. QED
    BY <1>9, <1>10, <2>1, <2>2
<1>11. CASE op' = Go(read, "waittransfer") /\ ~Complete(read)
  <2>1. Stages' /\ Finished'
    BY <1>8, <1>11 DEF Stages, Finished
  <2>4. ~Complete(op)'
    BY <1>8, <1>11, <1>13 DEF Complete
  <2>2. Moving'
    BY <1>1, <1>3, <1>8, <1>11, <2>4 DEF Moving
  <2>3. QED
    BY <1>9, <1>11, <2>1, <2>2
<1>12. QED
  BY <1>4, <1>7, <1>10, <1>11, <1>13

LEMMA TestFacts ==
    ASSUME NEW local \in Nat, NEW remote \in Nat
    PROVE  LET d == TestResumeCapability(local, remote)
           IN  /\ d \in {"ok", "critical", "test", "continue"}
               /\ d = "ok" => remote = local
               /\ d = "test" => local >= GB2 /\ remote > local
               /\ d = "continue" => /\ local < GB4 \/ caps.four = "no" \/ remote < local
                                    /\ local < GB2 \/ caps.two = "no" \/ remote < local
  BY TransferAssumption DEF TestResumeCapability

LEMMA UnsignedFacts ==
    ASSUME NEW size \in Sizes
    PROVE  /\ Unsigned(size) \in Nat /\ Unsigned(size) <= MaxSize + 1
           /\ size # Unknown => Unsigned(size) = size /\ size \in 0..MaxSize
           /\ size = Unknown => Unsigned(size) = MaxSize + 1
  BY TransferAssumption DEF Unsigned, Sizes, Unknown

(* A download that is resumed without a test, or after it, is resumed where the server
   counts rightly. *)
LEMMA OffsetIsRight ==
    ASSUME IInv, op.download, op.resume, ~op.disturbed, target[op.name].good, unseen = {}, ~caps.guessed,
           \/ op.state = "transfer"
           \/ /\ op.state = "resumetest"
              /\ TestResumeCapability(Unsigned(target[op.name].size), Unsigned(op.remoteSize)) = "continue"
    PROVE  target[op.name].size < server.bug
<1> DEFINE local == target[op.name].size
           remote == Unsigned(op.remoteSize)
<1>1. /\ op.name \in Names /\ op.remoteSize \in Sizes /\ local \in 0..source /\ source \in 0..MaxSize /\ server \in Servers
      /\ op.offset \in Int /\ local \in Sizes
  BY SizesFacts DEF IInv, TypeOK, Ops, Good
<1>2. server.bug \in {GB2, GB4, MaxSize + 1}
  BY <1>1, TransferAssumption
<1>3. CASE op.state = "transfer"
  <2>1. op.offset < server.bug /\ local <= op.offset
    BY <1>3 DEF IInv, Stages
  <2>2. QED
    BY <1>1, <1>2, <2>1, TransferAssumption
<1>4. CASE op.state = "resumetest" /\ TestResumeCapability(Unsigned(local), remote) = "continue"
  <2>1. ~op.doubtful
    BY DEF IInv, Fresh
  <2>2. op.remoteSize # Unknown => op.remoteSize = source
    BY <1>4, <2>1 DEF IInv, Sized, RemoteSize, Remote
  <2>3. remote \in Nat /\ remote >= local /\ Unsigned(local) = local /\ local \in Nat
    BY <1>1, <2>2, UnsignedFacts, SizesFacts, TransferAssumption
  <2>4. /\ local < GB4 \/ caps.four = "no" \/ remote < local
        /\ local < GB2 \/ caps.two = "no" \/ remote < local
    <3> HIDE DEF local, remote
    <3>1. QED
      BY <1>4, <2>3, TestFacts
  <2>5. local < GB4 \/ server.bug > GB4
    BY <2>3, <2>4 DEF IInv, Judged
  <2>6. local < GB2 \/ server.bug >= GB4
    BY <2>3, <2>4 DEF IInv, Judged
  <2>7. QED
    BY <1>1, <1>2, <2>5, <2>6, TransferAssumption
<1>5. QED
  BY <1>3, <1>4

LEMMA DownloadKeeps ==
    ASSUME IInv, op.state \in {"resumetest", "transfer"}, op.download, SendDownload,
           UNCHANGED <<source, listing, server, caps, unseen, transfers, changes>>
    PROVE  IInv'
<1> DEFINE local == target[op.name].size
           decision == IF op.resume /\ op.state = "resumetest"
                       THEN TestResumeCapability(Unsigned(local), Unsigned(op.remoteSize)) ELSE "continue"
           offset == IF op.resume /\ local # Unknown THEN local ELSE 0
           read == [op EXCEPT !.localSize = IF op.resume THEN local ELSE 0, !.wasGood = target[op.name].good]
<1>1. /\ op \in Ops /\ caps \in Capabilities /\ listing \in Listings /\ target \in [Names -> Files]
      /\ source \in 0..MaxSize /\ Judged'
  BY DEF IInv, TypeOK, Capabilities, Listings, Files, Judged
<1>2. target[op.name].good \in BOOLEAN /\ local \in Sizes /\ op.remoteSize \in Sizes /\ op.name \in Names
      /\ op.resume \in BOOLEAN /\ ~op.doubtful
  BY <1>1 DEF Ops, Files, IInv, Fresh
<1>3. /\ Unsigned(local) \in Nat /\ Unsigned(op.remoteSize) \in Nat
      /\ Unsigned(local) <= MaxSize + 1 /\ Unsigned(op.remoteSize) <= MaxSize + 1
      /\ local # Unknown => Unsigned(local) = local /\ local \in 0..MaxSize
      /\ op.remoteSize # Unknown => Unsigned(op.remoteSize) = op.remoteSize /\ op.remoteSize \in 0..MaxSize
      /\ local = Unknown => Unsigned(local) = MaxSize + 1
      /\ op.remoteSize = Unknown => Unsigned(op.remoteSize) = MaxSize + 1
  BY <1>2, UnsignedFacts
<1>4. /\ decision \in {"ok", "critical", "test", "continue"}
      /\ decision # "continue" => op.resume /\ op.state = "resumetest"
      /\ decision = "ok" => Unsigned(op.remoteSize) = Unsigned(local)
      /\ decision = "test" => Unsigned(local) >= GB2 /\ Unsigned(op.remoteSize) > Unsigned(local)
  <2> HIDE DEF local
  <2>1. QED
    BY <1>3, TestFacts
<1>5. /\ offset \in 0..MaxSize /\ (offset > 0 => op.resume /\ offset = local)
      /\ offset = 0 \/ offset = local
  BY <1>2, <1>3, TransferAssumption
<1>6. /\ decision = "ok" => op' = End(read, "ok") /\ UNCHANGED target
      /\ decision = "critical" => op' = End(read, "failed") /\ UNCHANGED target
      /\ decision = "test" => op' = [read EXCEPT !.state = "test", !.offset = op.remoteSize - 1] /\ UNCHANGED target
      /\ decision = "continue" =>
            /\ op' = [read EXCEPT !.state = "waittransfer", !.offset = offset, !.consent = @ \cup {op.name}]
            /\ target' = [target EXCEPT ![op.name] = File(offset, @.good \/ offset = 0)]
  BY Zenon DEF SendDownload
<1> DEFINE size == IF op.resume THEN local ELSE 0
<1>7. size \in Sizes /\ (op.resume => size = local)
  BY <1>2, SizesFacts
<1>8. read = [op EXCEPT !.localSize = size, !.wasGood = target[op.name].good]
  OBVIOUS
<1> HIDE DEF size, offset, decision, read
<1>9. /\ read \in Ops /\ (read.wasGood <=> target[op.name].good) /\ read.state = op.state
      /\ read.download = op.download /\ read.name = op.name /\ read.resume = op.resume
      /\ read.remoteSize = op.remoteSize /\ read.localSize = size /\ read.disturbed = op.disturbed
      /\ read.doubtful = op.doubtful /\ read.consent = op.consent /\ read.since = op.since
      /\ read.unchecked = op.unchecked /\ read.refused = op.refused
  BY <1>1, <1>2, <1>7, <1>8 DEF Ops
<1>10. op.state # "mfmt" /\ op.state \in Settled
  BY DEF Settled
<1>11. CASE decision = "ok"
  <2>1. op' = End(read, "ok") /\ UNCHANGED target /\ op.resume
    BY <1>4, <1>6, <1>11
  <2>2. /\ op'.state = "idle" /\ op'.download = op.download /\ op'.name = op.name /\ op'.disturbed = op.disturbed
        /\ op'.resume /\ (op'.wasGood <=> target[op.name].good)
    <3>1. read.resume
      BY <1>9, <2>1
    <3>2. /\ op'.state = "idle" /\ op'.download = read.download /\ op'.name = read.name
          /\ op'.disturbed = read.disturbed /\ op'.resume /\ (op'.wasGood <=> read.wasGood)
      BY <1>9, <2>1, <3>1, EndFields
    <3>3. QED
      BY <1>9, <3>2
  <2>3. Missing' /\ Shown' /\ Good'
    BY <1>10, <2>1, <2>2 DEF IInv, Missing, Shown, Uploaded, Good, RemoteNames, RemoteSize
  <2>4. ASSUME target[op.name].good, unseen = {}, ~op.disturbed
        PROVE  target[op.name].size = source
    <3>1. local \in 0..source
      BY <1>2, <2>4 DEF IInv, Good
    <3>2. op.remoteSize # Unknown
      BY <1>1, <1>3, <1>4, <1>11, <3>1, SizesFacts, TransferAssumption
    <3>3. op.remoteSize = source
      BY <1>2, <1>10, <2>4, <3>2 DEF IInv, Sized, RemoteSize, Remote
    <3>4. QED
      BY <1>1, <1>3, <1>4, <1>11, <3>1, <3>2, <3>3, SizesFacts
  <2>5. Finished'
    BY <2>1, <2>2, <2>4 DEF Finished, Undisturbed
  <2>6. QED
    BY <1>1, <1>9, <2>1, <2>3, <2>5, EndKeeps
<1>12. CASE decision = "critical"
  BY <1>1, <1>6, <1>9, <1>10, <1>12, StopKeeps
<1>13. CASE decision = "test"
  <2>1. op' = [read EXCEPT !.state = "test", !.offset = op.remoteSize - 1] /\ UNCHANGED target /\ op.resume
    BY <1>4, <1>6, <1>13
  <2>2. op.remoteSize - 1 \in -2..MaxSize
    BY <1>2, TransferAssumption DEF Sizes, Unknown
  <2>3. /\ op' \in Ops /\ op'.state = "test" /\ op'.offset = op.remoteSize - 1 /\ (op'.wasGood <=> target[op.name].good)
        /\ op'.download = op.download /\ op'.name = op.name /\ op'.resume = op.resume
        /\ op'.remoteSize = op.remoteSize /\ op'.localSize = size /\ op'.disturbed = op.disturbed
        /\ op'.doubtful = op.doubtful /\ op'.consent = op.consent /\ op'.since = op.since
        /\ op'.unchecked = op.unchecked /\ op'.refused = op.refused
    BY <1>9, <2>1, <2>2 DEF Ops, States
  <2>4. TypeOK'
    BY <1>1, <2>1, <2>3 DEF IInv, TypeOK, RemoteNames
  <2>5. Missing' /\ Shown' /\ Good' /\ AtMdtm' /\ Fresh'
    BY <1>2, <1>10, <2>1, <2>3 DEF IInv, Missing, Shown, Uploaded, Good, AtMdtm, Fresh, RemoteNames, RemoteSize
  <2>6. Sized'
    BY <1>2, <1>10, <2>1, <2>3 DEF IInv, Sized, RemoteSize, Remote
  <2>7. Local'
    BY <1>10, <2>1, <2>3 DEF IInv, Local, Settled
  <2>8. Decided'
    BY <1>10, <2>1, <2>3, DecidedKeeps DEF Decided
  <2>9. local # Unknown /\ GB2 <= local /\ (op.remoteSize # Unknown => local <= op.remoteSize - 1)
    BY <1>3, <1>4, <1>13, TransferAssumption
  <2>10. Stages'
    BY <1>2, <1>7, <2>1, <2>3, <2>9 DEF Stages
  <2>11. Moving' /\ Finished'
    BY <2>3 DEF Moving, Finished
  <2>12. QED
    BY <1>1, <2>4, <2>5, <2>6, <2>7, <2>8, <2>10, <2>11 DEF IInv
<1>14. CASE decision = "continue"
  <2> DEFINE right == target[op.name].good \/ offset = 0
  <2>1. /\ op' = [read EXCEPT !.state = "waittransfer", !.offset = offset, !.consent = @ \cup {op.name}]
        /\ target' = [target EXCEPT ![op.name] = File(offset, right)]
    BY <1>1, <1>2, <1>6, <1>14
  <2> HIDE DEF right
  <2>2. /\ op' \in Ops /\ op'.state = "waittransfer" /\ op'.offset = offset /\ (op'.wasGood <=> target[op.name].good)
        /\ op'.download = op.download /\ op'.name = op.name /\ op'.resume = op.resume
        /\ op'.remoteSize = op.remoteSize /\ op'.disturbed = op.disturbed
        /\ op'.doubtful = op.doubtful /\ op.name \in op'.consent
    <3>1. offset \in -2..MaxSize /\ offset \in 0..MaxSize
      BY <1>5, TransferAssumption
    <3>2. QED
      BY <1>2, <1>9, <2>1, <3>1 DEF Ops, States
  <2>3. /\ target' \in [Names -> Files] /\ target'[op.name].size = offset /\ (target'[op.name].good <=> right)
        /\ \A n \in Names \ {op.name} : target'[n] = target[n]
    <3>1. File(offset, right) \in Files /\ File(offset, right).size = offset /\ File(offset, right).good = right
      BY <1>5, SizesFacts DEF File, Files, right
    <3>2. QED
      BY <1>1, <1>2, <2>1, <3>1
  <2>4. TypeOK'
    BY <1>1, <2>2, <2>3 DEF IInv, TypeOK, RemoteNames, Files
  <2>5. Missing' /\ Shown' /\ AtMdtm' /\ Fresh'
    BY <1>2, <1>10, <2>2 DEF IInv, Missing, Shown, Uploaded, AtMdtm, Fresh, RemoteNames, RemoteSize
  <2>6. Good'
    <3> SUFFICES ASSUME NEW n \in Names, target'[n].good PROVE target'[n].size \in 0..source
      BY DEF Good
    <3>1. CASE n # op.name
      BY <2>3, <3>1 DEF IInv, Good
    <3>2. CASE n = op.name /\ offset = 0
      BY <1>1, <2>3, <3>2
    <3>3. CASE n = op.name /\ target[op.name].good
      BY <1>1, <1>2, <1>5, <2>3, <3>3 DEF IInv, Good
    <3>4. QED
      BY <2>3, <3>1, <3>2, <3>3 DEF right
  <2>7. Sized'
    BY <1>2, <1>10, <2>2 DEF IInv, Sized, RemoteSize, Remote
  <2>8. Local'
    BY <2>2 DEF Local, Settled
  <2>9. Decided'
    BY <2>2 DEF Decided, Allowed
  <2>10. Stages' /\ Finished'
    BY <2>2 DEF Stages, Finished
  <2>11. ASSUME offset > 0, target[op.name].good, unseen = {}, ~caps.guessed, ~op.disturbed
         PROVE  offset < server.bug
    <3>1. op.resume /\ offset = local
      BY <1>5, <2>11
    <3>2. op.state = "resumetest" =>
             TestResumeCapability(Unsigned(target[op.name].size), Unsigned(op.remoteSize)) = "continue"
      BY <1>14, <3>1 DEF decision
    <3>3. QED
      BY <2>11, <3>1, <3>2, OffsetIsRight
  <2>12. Moving'
    BY <1>5, <2>2, <2>3, <2>11 DEF Moving, right
  <2>13. QED
    BY <1>1, <2>4, <2>5, <2>6, <2>7, <2>8, <2>9, <2>10, <2>12 DEF IInv
<1>15. QED
  BY <1>4, <1>11, <1>12, <1>13, <1>14

LEMMA SendKeeps == IInv /\ Send => IInv'
  BY UploadKeeps, DownloadKeeps DEF Send

-----------------------------------------------------------------------------
(* What the answers of the server lead to. *)

LEMMA TestedFields ==
    ASSUME NEW result \in {"yes", "no"}, caps \in Capabilities, op.localSize \in Sizes
    PROVE  /\ Tested(result) \in Capabilities /\ Tested(result).guessed = caps.guessed /\ Tested(result).size = caps.size
           /\ op.localSize > GB4 => Tested(result).four = result /\ Tested(result).two = caps.two
           /\ ~(op.localSize > GB4) => Tested(result).two = result /\ Tested(result).four = caps.four
  BY DEF Tested, Capabilities

LEMMA TestKeeps == IInv /\ TestResult => IInv'
<1> SUFFICES ASSUME IInv, TestResult PROVE IInv'
  OBVIOUS
<1>1. /\ op \in Ops /\ caps \in Capabilities /\ op.state = "test" /\ op.localSize \in Sizes /\ server \in Servers
      /\ UNCHANGED <<target, source, listing, server, unseen, transfers, changes>>
      /\ op.offset \in Int /\ op.remoteSize \in Sizes
  BY DEF IInv, TypeOK, Capabilities, TestResult, env, Ops
<1>2. CASE TestFailed
  <2>1. op' = End(op, "failed") /\ caps' = Tested("yes")
    BY <1>2 DEF TestFailed
  <2>2. caps' \in Capabilities /\ Judged'
    BY <1>1, <2>1, TestedFields DEF IInv, Judged
  <2>3. QED
    BY <1>1, <2>1, <2>2, StopKeeps
<1>3. CASE TestPassed /\ (Restarts => Honours)
  <2> DEFINE t == Tested("no")
             guessed == (caps.guessed \/ ~Restarts)
  <2>1. /\ t \in Capabilities /\ t.guessed = caps.guessed /\ t.size = caps.size
        /\ op.localSize > GB4 => t.four = "no" /\ t.two = caps.two
        /\ ~(op.localSize > GB4) => t.two = "no" /\ t.four = caps.four
    BY <1>1, TestedFields
  <2>2. op' = Go(op, "transfer") /\ caps' = [t EXCEPT !.guessed = guessed]
    BY <1>3, <2>1 DEF TestPassed, Capabilities
  <2> HIDE DEF t, guessed
  <2>3. guessed \in BOOLEAN
    BY DEF guessed
  <2>4. /\ caps' \in Capabilities /\ caps'.guessed = guessed /\ caps'.size = caps.size
        /\ op.localSize > GB4 => caps'.four = "no" /\ caps'.two = caps.two
        /\ ~(op.localSize > GB4) => caps'.two = "no" /\ caps'.four = caps.four
    BY <2>1, <2>2, <2>3 DEF Capabilities
  <2>5. /\ op' \in Ops /\ op'.state = "transfer" /\ op'.download = op.download /\ op'.name = op.name
        /\ op'.resume = op.resume /\ op'.remoteSize = op.remoteSize /\ op'.offset = op.offset
        /\ op'.consent = op.consent /\ op'.since = op.since /\ op'.disturbed = op.disturbed
        /\ op'.unchecked = op.unchecked /\ op'.doubtful = op.doubtful /\ op'.refused = op.refused
    <3>1. "transfer" \in States
      BY DEF States
    <3>2. QED
      BY <1>1, <2>2, <3>1, GoFields
  <2>6. ASSUME ~guessed
        PROVE  /\ ~caps.guessed /\ op.offset < server.bug /\ GB2 <= op.localSize /\ op.localSize <= op.offset
    <3>1. ~caps.guessed /\ op.offset > 0 /\ op.offset < server.bug
      BY <1>3, <2>6 DEF guessed, Restarts, Honours
    <3>2. op.remoteSize # Unknown
      BY <1>1, <3>1, SizesFacts DEF IInv, Stages
    <3>3. QED
      BY <1>1, <3>1, <3>2 DEF IInv, Stages
  <2>7. server.bug \in {GB2, GB4, MaxSize + 1}
    BY <1>1, TransferAssumption
  <2>8. Judged'
    <3> SUFFICES ASSUME ~guessed
                 PROVE  (caps'.two = "no" => server.bug >= GB4) /\ (caps'.four = "no" => server.bug > GB4)
      BY <1>1, <2>4 DEF Judged
    <3>1. /\ caps.two = "no" => server.bug >= GB4
          /\ caps.four = "no" => server.bug > GB4
      BY <2>6 DEF IInv, Judged
    <3>2. server.bug >= GB4 /\ (op.localSize > GB4 => server.bug > GB4)
      BY <1>1, <2>6, <2>7, TransferAssumption DEF Sizes, Unknown
    <3>3. QED
      BY <2>4, <3>1, <3>2
  <2>9. Stages'
    <3>1. ~op.disturbed => op.localSize = target[op.name].size
      BY <1>1 DEF IInv, Stages
    <3>2. op.download /\ op.resume
      BY <1>1 DEF IInv, Stages
    <3>3. QED
      BY <1>1, <2>4, <2>5, <2>6, <3>1, <3>2 DEF Stages
  <2>10. TypeOK'
    BY <1>1, <2>4, <2>5 DEF IInv, TypeOK, RemoteNames, Capabilities
  <2>11. Missing' /\ Shown' /\ Good' /\ AtMdtm' /\ Fresh'
    BY <1>1, <2>5 DEF IInv, Missing, Shown, Uploaded, Good, AtMdtm, Fresh, RemoteNames, RemoteSize
  <2>12. Sized'
    BY <1>1, <2>5 DEF IInv, Sized, RemoteSize, Remote
  <2>13. Local'
    BY <1>1, <2>5 DEF IInv, Local, Settled
  <2>14. Decided'
    BY <1>1, <2>4, <2>5, DecidedKeeps DEF Decided, Settled
  <2>15. Moving' /\ Finished'
    BY <2>5 DEF Moving, Finished
  <2>16. QED
    BY <2>8, <2>9, <2>10, <2>11, <2>12, <2>13, <2>14, <2>15 DEF IInv
<1>4. QED
  BY <1>2, <1>3 DEF TestResult

LEMMA WrittenFacts ==
    ASSUME IInv, op.state = "waittransfer", NEW n \in op.offset..source
    PROVE  /\ Written(n) \in Files /\ Written(n).size = n /\ n \in 0..source
  <1>1. op.offset >= 0 /\ op.offset \in Int /\ source \in 0..MaxSize /\ target[op.name].good \in BOOLEAN
    BY DEF IInv, Moving, TypeOK, Ops
  <1>2. n \in Sizes /\ n \in 0..source
    BY <1>1, SizesFacts, TransferAssumption
  <1>3. QED
    BY <1>1, <1>2 DEF Written, File, Files, Restarts, Honours

(* What was written from the offset on is right. *)
LEMMA WrittenIsRight ==
    ASSUME IInv, op.state = "waittransfer", MayAccept, Undisturbed
    PROVE  op.offset <= source /\ Written(source).good
<1>1. /\ op \in Ops /\ source \in 0..MaxSize /\ op.offset \in Int /\ op.offset >= 0 /\ op.download \in BOOLEAN
      /\ op.name \in Names /\ op.remoteSize \in Sizes
  BY DEF IInv, TypeOK, Moving, Ops
<1>2. CASE ~Restarts
  BY <1>1, <1>2 DEF Restarts, Written, File
<1>3. CASE Restarts
  <2>1. op.offset > 0 /\ op.resume /\ server.rest # "no"
    BY <1>3 DEF Restarts, IInv, Moving, MayAccept
  <2>2. op.wasGood /\ unseen = {} /\ ~op.disturbed
    BY <2>1 DEF Undisturbed
  <2>3. target[op.name].good
    BY <1>1, <2>2 DEF IInv, Moving
  <2>4. target[op.name].size = op.offset
    <3>1. CASE op.download
      BY <2>2, <3>1 DEF IInv, Moving
    <3>2. CASE ~op.download
      <4>1. op.offset = op.remoteSize /\ op.remoteSize # Unknown /\ ~op.doubtful
        BY <1>1, <2>1, <3>2, SizesFacts DEF IInv, Moving, Undisturbed
      <4>2. QED
        BY <2>2, <3>2, <4>1 DEF IInv, Sized, RemoteSize, Remote
    <3>3. QED
      BY <3>1, <3>2
  <2>5. op.offset < server.bug
    <3>1. CASE op.download
      BY <2>1, <2>2, <3>1 DEF IInv, Moving, Undisturbed
    <3>2. CASE ~op.download
      BY <2>1, <3>2 DEF Undisturbed
    <3>3. QED
      BY <3>1, <3>2
  <2>6. op.offset <= source
    BY <1>1, <2>3, <2>4 DEF IInv, Good
  <2>7. Honours
    BY <2>1, <2>5 DEF Honours
  <2>8. target[op.name].size >= op.offset
    BY <1>1, <2>4
  <2> DEFINE right == IF ~Restarts THEN TRUE
                      ELSE IF op.download THEN target[op.name].good /\ Honours
                      ELSE target[op.name].good /\ Honours /\ (IF server.rest = "announced" THEN target[op.name].size >= op.offset
                                                              ELSE target[op.name].size = op.offset)
  <2>9. right
    BY <1>3, <2>3, <2>4, <2>7, <2>8, Zenon
  <2>10. Written(source).good = right
    BY Zenon DEF Written, File
  <2>11. QED
    BY <2>6, <2>9, <2>10
<1>4. QED
  BY <1>2, <1>3

LEMMA TransferOkKeeps == IInv /\ TransferOk => IInv'
<1> SUFFICES ASSUME IInv, TransferOk PROVE IInv'
  OBVIOUS
<1> DEFINE new == IF op.offset <= source THEN Written(source) ELSE target[op.name]
<1>1. /\ op \in Ops /\ op.state = "waittransfer" /\ MayAccept /\ caps \in Capabilities /\ source \in Sizes
      /\ UNCHANGED <<source, server, caps, unseen, transfers, changes>> /\ op.name \in Names
      /\ target \in [Names -> Files] /\ source \in 0..MaxSize /\ op.offset \in Int /\ Judged'
  BY SizesFacts DEF IInv, TypeOK, TransferOk, Ops, Capabilities, Files, Judged
<1>2. /\ target' = [target EXCEPT ![op.name] = new]
      /\ \/ op' = End(op, "ok") /\ UpdateCache(source)
         \/ op' = Go(op, "mfmt") /\ ~op.download /\ UNCHANGED listing
  BY <1>1 DEF TransferOk
<1>3. new \in Files /\ (new.good => new.size \in 0..source)
  <2>1. CASE op.offset <= source
    <3>1. source \in op.offset..source
      BY <1>1, <2>1
    <3>2. QED
      BY <1>1, <2>1, <3>1, WrittenFacts
  <2>2. CASE ~(op.offset <= source)
    BY <1>1, <2>2 DEF IInv, Good
  <2>3. QED
    BY <2>1, <2>2
<1>4. Undisturbed => new.size = source /\ new.good
  <2>1. SUFFICES ASSUME Undisturbed PROVE new.size = source /\ new.good
    OBVIOUS
  <2>2. op.offset <= source /\ Written(source).good
    BY <1>1, <2>1, WrittenIsRight
  <2>3. QED
    BY <2>2 DEF Written, File
<1> HIDE DEF new
<1>5. /\ target' \in [Names -> Files] /\ target'[op.name] = new
      /\ \A n \in Names \ {op.name} : target'[n] = target[n]
  BY <1>1, <1>2, <1>3
<1>6. Good'
  BY <1>1, <1>3, <1>5 DEF IInv, Good
<1>7. CASE op' = End(op, "ok") /\ UpdateCache(source)
  <2>1. /\ op'.state = "idle" /\ op'.download = op.download /\ op'.name = op.name /\ op'.disturbed = op.disturbed
        /\ op'.resume <=> op.resume
        /\ op'.doubtful <=> op.doubtful
        /\ op.resume => op'.offset = op.offset /\ (op'.wasGood <=> op.wasGood)
    BY <1>1, <1>7, EndFields
  <2>2. listing' \in Listings /\ Missing' /\ Shown'
    BY <1>1, <1>5, <1>7, <2>1, UpdateCacheKeeps
  <2>3. Undisturbed' => Undisturbed
    BY <1>1, <2>1 DEF Undisturbed
  <2>4. Finished'
    BY <1>1, <1>4, <1>5, <2>1, <2>3 DEF Finished
  <2>5. QED
    BY <1>1, <1>5, <1>6, <1>7, <2>2, <2>4, EndKeeps
<1>8. CASE op' = Go(op, "mfmt") /\ ~op.download /\ UNCHANGED listing
  <2>1. "mfmt" \in States
    BY DEF States
  <2>2. /\ op' \in Ops /\ op'.state = "mfmt" /\ op'.download = op.download /\ op'.name = op.name
        /\ op'.resume = op.resume /\ op'.offset = op.offset /\ op'.wasGood = op.wasGood
        /\ op'.disturbed = op.disturbed /\ op'.doubtful = op.doubtful /\ op'.localSize = op.localSize
    BY <1>1, <1>8, <2>1, GoFields
  <2>10. ~Uploaded(op.name) /\ \A n \in Names : Uploaded(n)' <=> n = op.name
    BY <1>1, <1>8, <2>2 DEF IInv, Moving, Uploaded, Complete
  <2>3. TypeOK'
    BY <1>1, <1>5, <1>8, <2>2 DEF IInv, TypeOK, RemoteNames, Files
  <2>4. Missing' /\ Shown'
    <3>1. \A n \in Names : ~Uploaded(n)
      BY <1>1 DEF Uploaded
    <3>2. QED
      BY <1>1, <1>5, <1>8, <2>2, <2>10, <3>1 DEF IInv, Missing, Shown, RemoteNames, RemoteSize
  <2>5. Decided' /\ AtMdtm' /\ Sized' /\ Local' /\ Fresh'
    BY <1>8, <2>2 DEF Decided, AtMdtm, Sized, Local, Fresh, Settled
  <2>6. Stages' /\ Moving'
    BY <1>8, <2>2 DEF Stages, Moving
  <2>7. Undisturbed' => Undisturbed
    BY <1>1, <2>2 DEF Undisturbed
  <2>8. Finished'
    BY <1>1, <1>4, <1>5, <2>2, <2>7 DEF Finished
  <2>9. QED
    BY <1>1, <1>6, <2>3, <2>4, <2>5, <2>6, <2>8 DEF IInv
<1>9. QED
  BY <1>2, <1>7, <1>8

LEMMA TransferFailsKeeps == IInv /\ TransferFails => IInv'
<1> SUFFICES ASSUME IInv, TransferFails PROVE IInv'
  OBVIOUS
<1>1. /\ op \in Ops /\ op.state = "waittransfer" /\ caps \in Capabilities /\ op.name \in Names
      /\ UNCHANGED <<source, server, caps, unseen, transfers, changes>>
      /\ target \in [Names -> Files] /\ op' = End(op, "failed") /\ UpdateCache(Unknown) /\ Judged'
  BY DEF IInv, TypeOK, TransferFails, Ops, Capabilities, Files, Judged
<1>2. PICK n \in op.offset..source : target' = [target EXCEPT ![op.name] = Written(n)]
  BY DEF TransferFails
<1>3. Written(n) \in Files /\ Written(n).size = n /\ n \in 0..source
  BY <1>1, WrittenFacts
<1>4. /\ target' \in [Names -> Files] /\ target'[op.name] = Written(n)
      /\ \A m \in Names \ {op.name} : target'[m] = target[m]
  BY <1>1, <1>2, <1>3
<1>5. Good'
  BY <1>1, <1>3, <1>4 DEF IInv, Good
<1>6. op'.state = "idle" /\ op'.download = op.download /\ op'.result = "failed"
  BY <1>1, EndFields
<1>7. listing' \in Listings /\ Missing' /\ Shown'
  BY <1>1, <1>4, <1>6, SizesFacts, UpdateCacheKeeps
<1>8. Finished'
  BY <1>6 DEF Finished
<1>9. QED
  BY <1>1, <1>4, <1>5, <1>7, <1>8, EndKeeps

-----------------------------------------------------------------------------
(* Others. *)

(* A change is marked in the listing, or was not seen. *)
LEMMA NoticedFacts ==
    ASSUME IInv, NEW n \in RemoteNames, Noticed(n)
    PROVE  /\ listing' \in Listings /\ unseen' \subseteq RemoteNames /\ unseen \subseteq unseen'
           /\ listing'.cached = listing.cached
           /\ \A m \in RemoteNames \ {n} : listing'.entries[m] = listing.entries[m]
           /\ listing.cached => n \in unseen' \/ (listing'.entries[n].match = "exact" /\ listing'.entries[n].unsure)
<1>1. listing \in Listings /\ unseen \subseteq RemoteNames /\ listing.entries \in [RemoteNames -> Entries]
      /\ listing.cached \in BOOLEAN
  BY DEF IInv, TypeOK, Listings
<1>2. CASE ~listing.cached
  <2>1. listing' = listing /\ unseen' = unseen
    BY <1>2 DEF Noticed
  <2>2. QED
    BY <1>1, <1>2, <2>1
<1>3. CASE unseen' = unseen \cup {n} /\ UNCHANGED listing
  BY <1>1, <1>3
<1>4. CASE listing' = [listing EXCEPT !.entries[n] = Marked(@, Unknown)] /\ UNCHANGED unseen
  <2> DEFINE new == Marked(listing.entries[n], Unknown)
  <2>1. new \in Entries /\ new.match = "exact" /\ new.unsure
    BY <1>1, SizesFacts DEF Marked, Entries, Exact
  <2>2. listing' = [listing EXCEPT !.entries[n] = new]
    BY <1>4
  <2> HIDE DEF new
  <2>3. /\ listing' \in Listings /\ listing'.cached = listing.cached
        /\ listing'.entries = [listing.entries EXCEPT ![n] = new]
    BY <1>1, <2>1, <2>2 DEF Listings
  <2>4. QED
    BY <1>1, <1>4, <2>1, <2>3
<1>5. QED
  BY <1>2, <1>3, <1>4 DEF Noticed

(* What is left to show when others have changed something. *)
LEMMA DisturbedKeeps ==
    ASSUME IInv, UNCHANGED <<server, caps, transfers>>, changes' = changes + 1,
           op' \in Ops, op'.disturbed, op'.state = op.state, op'.download = op.download, op'.name = op.name,
           op'.resume = op.resume, op'.remoteSize = op.remoteSize, op'.localSize = op.localSize,
           op'.offset = op.offset, op'.consent = op.consent, op'.unchecked = op.unchecked,
           op'.doubtful = op.doubtful, op'.refused = op.refused,
           target' \in [Names -> Files], source' \in 0..MaxSize, listing' \in Listings, unseen' \subseteq RemoteNames,
           Missing', Shown', Good', AtMdtm', op.state \in Settled => Allowed(op.name)'
    PROVE  IInv'
<1>1. TypeOK'
  BY DEF IInv, TypeOK, RemoteNames, Files, Listings
<1>2. Decided'
  BY DEF IInv, Decided
<1>3. Sized' /\ Local' /\ Fresh'
  BY DEF IInv, Sized, Local, Fresh
<1>4. Judged' /\ Finished'
  BY DEF IInv, Judged, Finished, Undisturbed
<1>5. Stages'
  BY DEF IInv, Stages
<1>6. Moving'
  <2>1. Complete(op)' <=> Complete(op)
    BY DEF Complete
  <2>2. QED
    BY <2>1 DEF IInv, Moving
<1>7. QED
  BY <1>1, <1>2, <1>3, <1>4, <1>5, <1>6 DEF IInv

LEMMA OthersTargetKeeps ==
    ASSUME IInv, UNCHANGED <<server, caps, transfers>>, changes' = changes + 1,
           NEW n \in OtherNames, OthersChangeTarget(n)
    PROVE  IInv'
<1>1. /\ op \in Ops /\ n \in Names /\ target \in [Names -> Files] /\ source' = source /\ source \in 0..MaxSize
      /\ op' = [op EXCEPT !.disturbed = TRUE, !.since = @ \cup {n}] /\ op.download \in BOOLEAN /\ op.name \in Names
      /\ op.since \subseteq Names /\ op.state \in States
  BY TransferAssumption DEF IInv, TypeOK, Files, OthersChangeTarget, Ops
<1>2. PICK f \in {NoFile} \cup {File(k, FALSE) : k \in OtherSizes} : target' = [target EXCEPT ![n] = f]
  BY DEF OthersChangeTarget
<1>3. f \in Files /\ ~f.good
  <2>1. CASE f = NoFile
    BY <2>1, SizesFacts DEF NoFile, Files
  <2>2. ASSUME NEW k \in OtherSizes, f = File(k, FALSE) PROVE f \in Files /\ ~f.good
    <3>1. k \in Sizes
      BY TransferAssumption, SizesFacts
    <3>2. QED
      BY <2>2, <3>1 DEF File, Files
  <2>3. QED
    BY <2>1, <2>2
<1>4. /\ target' \in [Names -> Files] /\ target'[n] = f
      /\ \A m \in Names \ {n} : target'[m] = target[m]
  BY <1>1, <1>2, <1>3
<1>5. /\ op' \in Ops /\ op'.disturbed /\ op'.state = op.state /\ op'.download = op.download /\ op'.name = op.name
      /\ op'.resume = op.resume /\ op'.remoteSize = op.remoteSize /\ op'.localSize = op.localSize
      /\ op'.offset = op.offset /\ op'.consent = op.consent /\ op'.unchecked = op.unchecked
      /\ op'.doubtful = op.doubtful /\ op'.refused = op.refused /\ op'.since = op.since \cup {n}
  BY <1>1 DEF Ops
<1>6. Good'
  BY <1>1, <1>3, <1>4 DEF IInv, Good
<1>7. AtMdtm'
  BY <1>1, <1>4, <1>5 DEF IInv, AtMdtm
<1>8. CASE op.download
  <2>1. listing' = listing /\ unseen' = unseen
    BY <1>8 DEF OthersChangeTarget
  <2>2. listing' \in Listings /\ unseen' \subseteq RemoteNames
    BY <2>1 DEF IInv, TypeOK, Listings
  <2>3. Missing' /\ Shown'
    BY <1>1, <1>5, <1>8, <2>1 DEF IInv, Missing, Shown, Uploaded, Complete, RemoteNames, RemoteSize
  <2>4. op.state \in Settled => Allowed(op.name)'
    BY <1>1, <1>4, <1>5, <1>8, <2>1 DEF IInv, Decided, Allowed
  <2>5. QED
    BY <1>1, <1>4, <1>5, <1>6, <1>7, <2>2, <2>3, <2>4, DisturbedKeeps
<1>9. CASE ~op.download
  <2>1. RemoteNames = Names /\ RemoteNames' = Names /\ Noticed(n)
    BY <1>5, <1>9 DEF RemoteNames, OthersChangeTarget
  <2>2. /\ listing' \in Listings /\ unseen' \subseteq RemoteNames /\ unseen \subseteq unseen'
        /\ listing'.cached = listing.cached
        /\ \A m \in RemoteNames \ {n} : listing'.entries[m] = listing.entries[m]
        /\ listing.cached => n \in unseen' \/ (listing'.entries[n].match = "exact" /\ listing'.entries[n].unsure)
    BY <1>1, <2>1, NoticedFacts
  <2>3. Missing'
    BY <1>4, <1>5, <2>1, <2>2 DEF IInv, Missing, Uploaded, Complete
  <2>4. Shown'
    <3> SUFFICES ASSUME listing'.cached, NEW m \in Names, listing'.entries[m].match = "exact",
                        ~listing'.entries[m].unsure, m \notin unseen', ~Uploaded(m)'
                 PROVE  listing'.entries[m].size = target'[m].size
      BY <1>5, <1>9, <2>1 DEF Shown, Uploaded, RemoteSize
    <3>1. m # n /\ listing'.entries[m] = listing.entries[m] /\ m \notin unseen /\ target'[m] = target[m]
      BY <1>4, <2>1, <2>2
    <3>2. listing.entries[m].size = RemoteSize(m)
      BY <1>5, <2>1, <2>2, <3>1 DEF IInv, Shown, Uploaded, Complete
    <3>3. QED
      BY <1>9, <3>1, <3>2 DEF RemoteSize
  <2>5. op.state \in Settled => Allowed(op.name)'
    <3> SUFFICES ASSUME op.state \in Settled PROVE Allowed(op.name)'
      OBVIOUS
    <3>1. CASE op.name = n
      BY <1>5, <3>1 DEF Allowed
    <3>2. CASE op.name # n
      <4>1. Allowed(op.name)
        BY DEF IInv, Decided
      <4>2. target'[op.name] = target[op.name] /\ listing'.entries[op.name] = listing.entries[op.name]
        BY <1>1, <1>4, <2>1, <2>2, <3>2
      <4>3. QED
        BY <1>5, <1>9, <2>2, <4>1, <4>2 DEF Allowed
    <3>3. QED
      BY <3>1, <3>2
  <2>6. QED
    BY <1>1, <1>4, <1>5, <1>6, <1>7, <2>2, <2>3, <2>4, <2>5, DisturbedKeeps
<1>10. QED
  BY <1>8, <1>9

LEMMA OthersSourceKeeps ==
    ASSUME IInv, UNCHANGED <<server, caps, transfers>>, changes' = changes + 1, OthersChangeSource
    PROVE  IInv'
<1>1. /\ op \in Ops /\ target \in [Names -> Files] /\ source' \in 0..MaxSize
      /\ op' = [op EXCEPT !.disturbed = TRUE] /\ op.download \in BOOLEAN /\ op.name \in Names
      /\ target' = [n \in Names |-> [target[n] EXCEPT !.good = FALSE]] /\ listing \in Listings
      /\ unseen \subseteq RemoteNames
  BY TransferAssumption DEF IInv, TypeOK, Files, Listings, OthersChangeSource, Ops
<1>2. target' \in [Names -> Files] /\ \A n \in Names : target'[n].size = target[n].size /\ ~target'[n].good
  BY <1>1 DEF Files
<1>3. /\ op' \in Ops /\ op'.disturbed /\ op'.state = op.state /\ op'.download = op.download /\ op'.name = op.name
      /\ op'.resume = op.resume /\ op'.remoteSize = op.remoteSize /\ op'.localSize = op.localSize
      /\ op'.offset = op.offset /\ op'.consent = op.consent /\ op'.unchecked = op.unchecked
      /\ op'.doubtful = op.doubtful /\ op'.refused = op.refused /\ op'.since = op.since
  BY <1>1 DEF Ops
<1>4. Good' /\ AtMdtm'
  BY <1>1, <1>2, <1>3 DEF IInv, Good, AtMdtm
<1>5. CASE op.download
  <2>1. RemoteNames = {Source} /\ RemoteNames' = {Source} /\ Noticed(Source) /\ op.state # "mfmt"
    BY <1>3, <1>5 DEF RemoteNames, OthersChangeSource, IInv, Stages
  <2>2. /\ listing' \in Listings /\ unseen' \subseteq RemoteNames
        /\ listing'.cached = listing.cached
        /\ listing.cached => Source \in unseen' \/ (listing'.entries[Source].match = "exact" /\ listing'.entries[Source].unsure)
    BY <2>1, NoticedFacts
  <2>3. Missing' /\ Shown'
    BY <1>3, <1>5, <2>1, <2>2 DEF Missing, Shown, Uploaded, Complete
  <2>4. op.state \in Settled => Allowed(op.name)'
    BY <1>1, <1>2, <1>3, <1>5 DEF IInv, Decided, Allowed
  <2>5. QED
    BY <1>1, <1>2, <1>3, <1>4, <2>2, <2>3, <2>4, DisturbedKeeps
<1>6. CASE ~op.download
  <2>1. listing' = listing /\ unseen' = unseen
    BY <1>6 DEF OthersChangeSource
  <2>2. Missing' /\ Shown'
    BY <1>2, <1>3, <1>6, <2>1 DEF IInv, Missing, Shown, Uploaded, Complete, RemoteNames, RemoteSize
  <2>3. op.state \in Settled => Allowed(op.name)'
    BY <1>1, <1>2, <1>3, <1>6, <2>1 DEF IInv, Decided, Allowed
  <2>4. QED
    BY <1>1, <1>2, <1>3, <1>4, <2>1, <2>2, <2>3, DisturbedKeeps
<1>7. QED
  BY <1>1, <1>5, <1>6

LEMMA OthersKeep == IInv /\ Others => IInv'
  BY OthersTargetKeeps, OthersSourceKeeps DEF Others

-----------------------------------------------------------------------------
(* The theorems. *)

LEMMA InitFacts == Init => IInv
<1> SUFFICES ASSUME Init PROVE IInv
  OBVIOUS
<1>1. PICK download \in BOOLEAN : op = [NewOp(download) EXCEPT !.state = "idle"]
  BY DEF Init
<1>2. /\ op \in Ops /\ op.state = "idle" /\ op.download = download /\ op.result = "none" /\ ~op.resume
      /\ op.remoteSize = Unknown /\ ~op.doubtful
  <2> DEFINE o == NewOp(download)
  <2>1. o \in Ops /\ o.download = download /\ o.result = "none" /\ ~o.resume /\ o.remoteSize = Unknown /\ ~o.doubtful
    BY NewOpFields
  <2>2. op = [o EXCEPT !.state = "idle"]
    BY <1>1
  <2> HIDE DEF o
  <2>3. QED
    BY <2>1, <2>2 DEF Ops, States
<1>3. source \in 0..MaxSize /\ server \in Servers /\ unseen = {} /\ transfers = 0 /\ changes = 0
  BY TransferAssumption DEF Init
<1>14. PICK known \in {"unknown", "yes"} :
          caps = [two |-> "unknown", four |-> "unknown", size |-> known, guessed |-> FALSE]
  BY DEF Init
<1>4. PICK n \in Sizes, m \in {Unknown, source} :
        target = [f \in Names |-> LET size == IF f = FirstName THEN n ELSE m IN File(size, size \in 0..source)]
  BY DEF Init
<1>5. ASSUME NEW f \in Names PROVE target[f] \in Files /\ (target[f].good => target[f].size \in 0..source)
  <2> DEFINE size == IF f = FirstName THEN n ELSE m
             good == size \in 0..source
  <2>1. target[f] = File(size, good)
    BY <1>4
  <2>2. size \in Sizes /\ good \in BOOLEAN
    BY <1>3, SizesFacts
  <2>3. target[f] \in Files /\ target[f].size = size /\ target[f].good = good
    <3> HIDE DEF size, good
    <3>1. QED
      BY <2>1, <2>2 DEF File, Files
  <2>4. QED
    BY <2>3
<1>6. target \in [Names -> Files] /\ Good
  <2>1. DOMAIN target = Names /\ target = [f \in Names |-> target[f]]
    BY <1>4
  <2>2. QED
    BY <1>5, <2>1 DEF Good
<1>7. /\ listing \in Listings
      /\ listing.cached => \A f \in RemoteNames :
                             /\ listing.entries[f].match = "none" => RemoteSize(f) = Unknown
                             /\ listing.entries[f].match = "exact" => listing.entries[f].size = RemoteSize(f)
  BY <1>3, <1>6, NewListingsFacts DEF Init
<1>8. TypeOK
  BY <1>2, <1>3, <1>6, <1>7, <1>14 DEF TypeOK, Files, Listings
<1>9. Missing /\ Shown
  BY <1>2, <1>7 DEF Missing, Shown, Uploaded, Complete, RemoteNames, RemoteSize
<1>10. Decided /\ AtMdtm /\ Sized /\ Local /\ Fresh
  BY <1>2 DEF Decided, AtMdtm, Sized, Local, Fresh, Settled
<1>11. Judged
  BY <1>14 DEF Judged
<1>12. Stages /\ Moving /\ Finished
  BY <1>2 DEF Stages, Moving, Finished
<1>13. QED
  BY <1>6, <1>8, <1>9, <1>10, <1>11, <1>12 DEF IInv

LEMMA StutterKeeps == IInv /\ UNCHANGED vars => IInv'
<1> SUFFICES ASSUME IInv, UNCHANGED vars PROVE IInv'
  OBVIOUS
<1>1. UNCHANGED <<op, target, source, listing, server, caps, unseen, transfers, changes>>
  BY DEF vars
<1>2. TypeOK' /\ Decided' /\ Missing' /\ AtMdtm'
  BY <1>1 DEF IInv, TypeOK, Decided, Allowed, Missing, Uploaded, Complete, AtMdtm, RemoteNames
<1>3. Good' /\ Shown' /\ Sized' /\ Local' /\ Fresh'
  BY <1>1 DEF IInv, Good, Shown, Uploaded, Complete, Sized, Local, Fresh, RemoteNames, RemoteSize, Remote, LocalSize
<1>4. Stages' /\ Judged' /\ Moving' /\ Finished'
  BY <1>1 DEF IInv, Stages, Judged, Moving, Finished, Undisturbed
<1>5. QED
  BY <1>2, <1>3, <1>4 DEF IInv

(* What is known and decided of a transfer stays right, whatever the server and others do. *)
THEOREM Invariant == Spec => []IInv
<1>1. Init => IInv
  BY InitFacts
<1>2. IInv /\ [Next]_vars => IInv'
  BY BeginKeeps, CwdKeeps, ListKeeps, ListFailsKeeps, SizeKeeps, MdtmKeeps, TestKeeps, TransferOkKeeps,
     TransferFailsKeeps, MfmtKeeps, AnswerKeeps, SendKeeps, AbortKeeps, OthersKeep, StutterKeeps
  DEF Next, Replies
<1>3. QED
  BY <1>1, <1>2, PTL DEF Spec

(* The operation, the files and the listing keep their types. *)
THEOREM TypeCorrect == Spec => []TypeOK
<1>1. IInv => TypeOK
  BY DEF IInv
<1>2. QED
  BY <1>1, Invariant, PTL

(* A transfer that ends well, resumed or not (filetransfer.cpp and TestResumeCapability),
   leaves the complete file, with the exceptions ResumedFileIsRight names. *)
THEOREM ResumedFilesAreRight == Spec => []ResumedFileIsRight
<1>1. IInv => ResumedFileIsRight
  <2> SUFFICES ASSUME IInv, op.state = "idle", op.result = "ok", Undisturbed
               PROVE  target[op.name] = File(source, TRUE)
    BY DEF ResumedFileIsRight, Undisturbed
  <2>1. target[op.name].size = source /\ target[op.name].good
    BY DEF IInv, Finished
  <2>2. target[op.name] \in [size : Sizes, good : BOOLEAN]
    BY DEF IInv, TypeOK, Ops
  <2>3. QED
    BY <2>1, <2>2 DEF File
<1>2. QED
  BY <1>1, Invariant, PTL

(* The target of a transfer changes only where it was settled that it may. *)
LEMMA ChangesAreSettled ==
    ASSUME IInv, [Next]_vars, changes' = changes, NEW n \in Names, target'[n] # target[n]
    PROVE  n = op.name /\ op.state \in Settled
<1>1. target \in [Names -> Files] /\ changes \in Nat
  BY DEF IInv, TypeOK, Files
<1>2. ~Others
  BY <1>1 DEF Others
<1>3. ~(Begin \/ CwdResult \/ ListOk \/ ListFails \/ SizeReply \/ MdtmReply \/ TestResult \/ MfmtReply \/ Answer \/ Abort)
  BY DEF Begin, CwdResult, ListOk, ListFails, SizeReply, MdtmReply, TestResult, MfmtReply, Answer, Abort, env
<1>4. CASE Send
  <2>1. op.state \in Settled
    BY <1>4 DEF Send, Settled
  <2>2. \E f : target' = target \/ target' = [target EXCEPT ![op.name] = f]
    BY <1>4 DEF Send, SendDownload, SendUpload
  <2>3. QED
    BY <1>1, <2>1, <2>2
<1>5. CASE TransferOk
  <2>1. op.state \in Settled
    BY <1>5 DEF TransferOk, Settled
  <2>2. \E f : target' = [target EXCEPT ![op.name] = f]
    BY <1>5 DEF TransferOk
  <2>3. QED
    BY <1>1, <2>1, <2>2
<1>6. CASE TransferFails
  <2>1. op.state \in Settled
    BY <1>6 DEF TransferFails, Settled
  <2>2. \E f : target' = [target EXCEPT ![op.name] = f]
    BY <1>6 DEF TransferFails
  <2>3. QED
    BY <1>1, <2>1, <2>2
<1>7. QED
  BY <1>2, <1>3, <1>4, <1>5, <1>6 DEF Next, Replies, vars

(* No existing file is changed before CheckOverwriteFile has had the user asked, with the
   exceptions NoSilentOverwrite names. *)
THEOREM NothingOverwrittenSilently == Spec => NoSilentOverwrite
<1>1. IInv /\ [Next]_vars =>
         [\A n \in Names :
             target[n].size # Unknown /\ target'[n] # target[n] /\ changes' = changes
             => \/ n \in op.consent \/ n \in op.since
                \/ ~op.download /\ \/ n \in unseen \/ op.unchecked
                                   \/ /\ op.refused = {"size", "mdtm"} \/ (op.refused = {"size"} /\ caps.size = "yes")
                                      /\ ~(listing.cached /\ listing.entries[n].match = "exact")]_vars
  <2> SUFFICES ASSUME IInv, [Next]_vars, NEW n \in Names, target[n].size # Unknown, target'[n] # target[n],
                      changes' = changes
               PROVE  \/ n \in op.consent \/ n \in op.since
                      \/ ~op.download /\ \/ n \in unseen \/ op.unchecked
                                         \/ /\ op.refused = {"size", "mdtm"} \/ (op.refused = {"size"} /\ caps.size = "yes")
                                            /\ ~(listing.cached /\ listing.entries[n].match = "exact")
    OBVIOUS
  <2>1. n = op.name /\ op.state \in Settled
    BY ChangesAreSettled
  <2>2. Allowed(n)
    BY <2>1 DEF IInv, Decided
  <2>3. QED
    BY <2>2 DEF Allowed
<1>2. QED
  BY <1>1, Invariant, PTL DEF Spec, NoSilentOverwrite
=============================================================================
