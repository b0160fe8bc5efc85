--------------------------- MODULE MCFileTransfer ---------------------------
(* FileTransfer with a second name for the target.  Sizes: 1 is below 2 GB, 2 is
   2 GB, 3 is 4 GB and 4 is more. *)
EXTENDS FileTransfer

MCNames == {"f", "g"}

Server(size, mdtm, rest, bug) == [size |-> size, mdtm |-> mdtm, rest |-> rest, bug |-> bug]

MCServers ==
    {Server(TRUE, TRUE, "announced", MaxSize + 1), Server(FALSE, FALSE, "no", MaxSize + 1),
     Server(TRUE, FALSE, "yes", GB2), Server(FALSE, TRUE, "announced", GB4)}
=============================================================================
