-------------------------- MODULE MCOpLockClients --------------------------
(* Three control sockets on one server, so that two can wait for the third. *)
EXTENDS OpLockClients, TLC

CONSTANTS s1, s2, s3, a, dir, other

MCSockets == {s1, s2, s3}
MCServers == {a}
MCServerOf == (s1 :> a) @@ (s2 :> a) @@ (s3 :> a)
MCReasons == {list, mkdir}
MCPaths == {dir, other}
MCParentOf == {}
=============================================================================
