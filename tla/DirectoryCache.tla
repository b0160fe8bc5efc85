--------------------------- MODULE DirectoryCache ---------------------------
(***************************************************************************)
(* CDirectoryCache (engine/directorycache.cpp): the listings all engines   *)
(* share, each operation on them as a function from a cache to the next    *)
(* one; the mutex_ makes every call one step.                              *)
(*                                                                         *)
(* A path is the sequence of its segments, a listing the sequence of its   *)
(* entries.  Of the unsure_* flags only whether one of them is set, of an  *)
(* entry only what tells two versions of it apart.  modificationTime is    *)
(* read by GetChangeTime only, which nobody calls.                         *)
(***************************************************************************)
EXTENDS Integers, Sequences, SequencesExt, FiniteSets, FiniteSetsExt, Functions

CONSTANTS
    Servers,
    Names,           \* segments and file names
    Fold,            \* [Names -> Names]: what stricmp compares
    PathOrder,       \* the paths, in the order of std::set<CCacheEntry>
    CaseSensitive,   \* the servers whose GetCaseSensitivity() is yes
    Watchers,        \* those who may compare the age of a listing with a time they took
    LruLimit,        \* 50000 listings
    FileLimit,       \* 1000000 files ...
    LruLimitFiles,   \* ... in more than 1000 listings
    FileLimitMany,   \* 5000000 files ...
    LruLimitMany     \* ... in more than 100

ASSUME CacheAssumption ==
    /\ Fold \in [Names -> Names]
    /\ \A n \in Names : Fold[Fold[n]] = Fold[n]
    /\ PathOrder \in Seq(Seq(Names)) /\ IsInjective(PathOrder)
    /\ CaseSensitive \subseteq Servers
    /\ {LruLimit, FileLimit, LruLimitFiles, FileLimitMany, LruLimitMany} \subseteq Nat

Paths == Range(PathOrder)
Keys == [server : Servers, path : Paths]
Key(server, path) == [server |-> server, path |-> path]

(* CDirentry.  size stands for everything that may change in a file; a
   directory has none. *)
Unknown == -1
Dirent(name, dir, size, unsure) == [name |-> name, dir |-> dir, size |-> size, unsure |-> unsure]
Dirents == [name : Names, dir : BOOLEAN, size : Int, unsure : BOOLEAN]

(* A listing: after is the set of those who took the time of their comparison
   before m_firstListTime; outdated is set once it is older than ttl_. *)
Listing(files, excused) ==
    [files |-> files, unsure |-> FALSE, outdated |-> FALSE, after |-> Watchers,
     excused |-> excused]   \* history, see FileOperations
Listings == [files : Seq(Dirents), unsure : BOOLEAN, outdated : BOOLEAN, after : SUBSET Watchers,
             excused : BOOLEAN]

EmptyCache == [entries |-> <<>>, lru |-> <<>>, count |-> 0]

(* A function that has another value, or a value, for an argument. *)
With(f, x, y) == [z \in DOMAIN f \cup {x} |-> IF z = x THEN y ELSE f[z]]

(* The members of a sequence that are in a set, in their order. *)
Keep(s, S) == FoldLeft(LAMBDA kept, x : IF x \in S THEN Append(kept, x) ELSE kept, <<>>, s)

(* How many files some of the listings have. *)
FilesIn(entries, keys) == MapThenSumSet(LAMBDA k : Len(entries[k].files), keys)

-----------------------------------------------------------------------------
(* Paths and names. *)

SameName(a, b) == Fold[a] = Fold[b]

CmpNoCase(p, q) == Len(p) = Len(q) /\ \A i \in DOMAIN p : SameName(p[i], q[i])

IsParentOf(p, q, cmpNoCase, allowEqual) ==
    /\ q # <<>>
    /\ Len(p) < Len(q) \/ (allowEqual /\ Len(p) = Len(q))
    /\ \A i \in DOMAIN p : IF cmpNoCase THEN SameName(p[i], q[i]) ELSE p[i] = q[i]

(* FindFile_CmpCase, and the loops that search for the exact name; 0 if there
   is none. *)
FindFile(files, name) == SelectInSeq(files, LAMBDA x : x.name = name)
FindFile_CmpNoCase(files, name) == SelectInSeq(files, LAMBDA x : SameName(x.name, name))

(* Of LookupFile: the exact name is preferred. *)
LookupFile(files, name) ==
    IF FindFile(files, name) # 0 THEN FindFile(files, name) ELSE FindFile_CmpNoCase(files, name)

-----------------------------------------------------------------------------
(* The list of listings in the order of their use. *)

(* UpdateLru for some listings of a server, in the order of their paths. *)
UpdateLru(c, hit) ==
    LET order == Keep(PathOrder, {k.path : k \in hit})
        touched == [i \in DOMAIN order |-> CHOOSE k \in hit : k.path = order[i]]
    IN  [c EXCEPT !.lru = Keep(@, Range(@) \ hit) \o touched]

(* Mutant: the files of the listings are still counted. *)
DropUncounted(c, gone) ==
    [entries |-> Restrict(c.entries, DOMAIN c.entries \ gone),
     lru |-> Keep(c.lru, Range(c.lru) \ gone),
     count |-> c.count]

(* Listings are erased, with their place in the list. *)
Drop(c, gone) ==
    [entries |-> Restrict(c.entries, DOMAIN c.entries \ gone),
     lru |-> Keep(c.lru, Range(c.lru) \ gone),
     count |-> c.count - FilesIn(c.entries, gone)]

TooMany(c) ==
    \/ Len(c.lru) > LruLimit
    \/ c.count > FileLimit /\ Len(c.lru) > LruLimitFiles
    \/ c.count > FileLimitMany /\ Len(c.lru) > LruLimitMany

(* The listings not used for longest are erased, as few as possible. *)
Prune(c) ==
    LET without(n) == Drop(c, Range(SubSeq(c.lru, 1, n)))
    IN  without(Min({n \in 0..Len(c.lru) : ~TooMany(without(n))}))

-----------------------------------------------------------------------------
(* Lookups.  They move the listing to the end of the list. *)

IsCached(c, k) == k \in DOMAIN c.entries

Lookup(c, k) == IF IsCached(c, k) THEN UpdateLru(c, {k}) ELSE c

(* Whether Lookup finds a listing, without unsure entries if they are not allowed. *)
Found(c, k, allowUnsureEntries) ==
    IsCached(c, k) /\ (allowUnsureEntries \/ ~c.entries[k].unsure)

-----------------------------------------------------------------------------
(* Changes. *)

Unsure(x) == [x EXCEPT !.unsure = TRUE]

Store(c, k, listing) ==
    IF IsCached(c, k)
    THEN LET old == Lookup(c, k)
         IN  [old EXCEPT !.entries[k] = listing,
                         !.count = @ + Len(listing.files) - Len(c.entries[k].files)]
    ELSE Prune(UpdateLru([c EXCEPT !.entries = With(@, k, listing),
                                   !.count = @ + Len(listing.files)], {k}))

InvalidateServer(c, server) == Drop(c, {k \in DOMAIN c.entries : k.server = server})

(* Mutant: the listing itself is not marked. *)
InvalidateFileEntryOnly(c, server, path, name) ==
    LET hit == {k \in DOMAIN c.entries : k.server = server /\ CmpNoCase(path, k.path)}
        marked(e) == [e EXCEPT !.files = [i \in DOMAIN @ |->
                        IF SameName(@[i].name, name) THEN Unsure(@[i]) ELSE @[i]]]
    IN  [UpdateLru(c, hit) EXCEPT !.entries =
            [k \in DOMAIN @ |-> IF k \in hit THEN marked(@[k]) ELSE @[k]]]

InvalidateFile(c, server, path, name) ==
    LET cmpCase == server \in CaseSensitive
        same(n) == IF cmpCase THEN n = name ELSE SameName(n, name)
        hit == {k \in DOMAIN c.entries :
                   k.server = server /\ IF cmpCase THEN k.path = path ELSE CmpNoCase(path, k.path)}
        dir == \E k \in hit : \E x \in Range(c.entries[k].files) : same(x.name) /\ x.dir
        marked(e) == [Unsure(e) EXCEPT !.files = [i \in DOMAIN @ |->
                        IF same(@[i].name) THEN Unsure(@[i]) ELSE @[i]]]
        below(k) == dir /\ k.server = server /\ IsParentOf(path, k.path, ~cmpCase, TRUE)
    IN  [UpdateLru(c, hit) EXCEPT !.entries =
            [k \in DOMAIN @ |-> IF k \in hit THEN marked(@[k])
                                ELSE IF below(k) THEN Unsure(@[k]) ELSE @[k]]]

(* The listings with the path, whatever its case. *)
ListingsOf(c, server, path) == {k \in DOMAIN c.entries : k.server = server /\ CmpNoCase(path, k.path)}

(* Listings get the files given for them, and are unsure. *)
ChangeListings(c, files) ==
    LET hit == DOMAIN files
        entries == [k \in DOMAIN c.entries |->
                       IF k \in hit THEN [Unsure(c.entries[k]) EXCEPT !.files = files[k]] ELSE c.entries[k]]
    IN  [UpdateLru(c, hit) EXCEPT !.entries = entries,
                                  !.count = @ + FilesIn(entries, hit) - FilesIn(c.entries, hit)]

(* type is "unknown", "file" or "dir". *)
UpdateFile(c, server, path, name, mayCreate, type, size) ==
    LET update(files) ==
            LET i == FindFile(files, name)
                marked == [j \in DOMAIN files |->
                              IF SameName(files[j].name, name) /\ (i = 0 \/ j <= i)
                              THEN Unsure(files[j]) ELSE files[j]]
            IN  IF i = 0 /\ mayCreate /\ type # "unknown"
                THEN Append(marked, Dirent(name, type = "dir", size, TRUE))
                ELSE marked
    IN  ChangeListings(c, [k \in ListingsOf(c, server, path) |-> update(c.entries[k].files)])

RemoveFile(c, server, path, name) ==
    LET remove(files) ==
            LET i == FindFile(files, name)
            IN  IF i # 0 THEN RemoveAt(files, i)
                ELSE [j \in DOMAIN files |->
                         IF SameName(files[j].name, name) THEN Unsure(files[j]) ELSE files[j]]
    IN  ChangeListings(c, [k \in ListingsOf(c, server, path) |-> remove(c.entries[k].files)])

RemoveDir(c, server, path, name) ==
    LET absolutePath == Append(path, name)
        gone == {k \in DOMAIN c.entries :
                    /\ k.server = server
                    /\ k.path = absolutePath \/ IsParentOf(absolutePath, k.path, TRUE, FALSE)}
    IN  RemoveFile(Drop(c, gone), server, path, name)

(* A file that gets another name in its directory keeps its entry. *)
RenameEntry(c, k, i, name) ==
    [c EXCEPT !.entries[k] = Unsure(@), !.entries[k].files[i] = Unsure([@ EXCEPT !.name = name])]

(* The listing shows a directory. *)
ShowsDir(c, k, name) ==
    LET i == FindFile(c.entries[k].files, name)
    IN  i # 0 /\ c.entries[k].files[i].dir

RenameInDir(c, k, from, to) ==
    LET removed == RemoveFile(c, k.server, k.path, to)
        i == FindFile(removed.entries[k].files, from)
        without(name, d) == RemoveDir(d, k.server, k.path, name)
    IN  IF i = 0 THEN removed
        ELSE IF ShowsDir(removed, k, from)
        THEN UpdateFile(without(to, without(from, removed)), k.server, k.path, to, TRUE, "dir", Unknown)
        ELSE RenameEntry(removed, k, i, to)

RenameBetween(c, k, from, toPath, to) ==
    LET i == FindFile(c.entries[k].files, from)
    IN  IF i = 0 THEN c
        ELSE IF ShowsDir(c, k, from)
        THEN UpdateFile(RemoveDir(c, k.server, k.path, from), k.server, toPath, to, TRUE, "dir", Unknown)
        ELSE UpdateFile(RemoveFile(c, k.server, k.path, from), k.server, toPath, to, TRUE, "file", Unknown)

Rename(c, server, pathFrom, from, pathTo, to) ==
    LET k == Key(server, pathFrom)
    IN  IF ~IsCached(c, k) THEN InvalidateServer(c, server)
        ELSE IF pathFrom = pathTo THEN RenameInDir(Lookup(c, k), k, from, to)
        ELSE RenameBetween(Lookup(c, k), k, from, pathTo, to)

(* SetTtl bounds it; a listing becomes older than it at some time. *)
Expire(c, k) == [c EXCEPT !.entries[k].outdated = TRUE]

-----------------------------------------------------------------------------
(* The list of uses and the number of files describe the listings that are
   cached: the list has each of them once.  Prune walks and erases through the
   one and stops by the other; ~CDirectoryCache asserts the number. *)
CacheIsConsistent(c) ==
    /\ Range(c.lru) = DOMAIN c.entries /\ Len(c.lru) = Cardinality(DOMAIN c.entries)
    /\ c.count = FilesIn(c.entries, DOMAIN c.entries)
=============================================================================
