-------------------------- MODULE MCFileOperations --------------------------
(* FileOperations with two engines on one server: a directory with a file and a
   directory in it.  The file system does not tell "f" from "F". *)
EXTENDS FileOperations, TLC

CONSTANTS e1, e2

MCServers == {"s"}
MCEngines == {e1, e2}
Symmetry == Permutations(MCEngines)
MCServerOf == [e \in MCEngines |-> "s"]
MCNames == {"f", "F", "g", "d"}
MCFold == [n \in MCNames |-> IF n = "F" THEN "f" ELSE n]
MCPathOrder == <<<<>>, <<"d">>, <<"g">>>>

MCFiles ==
    [k \in {Key("s", <<>>), Key("s", <<"d">>)} |->
        IF k.path = <<>> THEN {Dirent("f", FALSE, 1, FALSE), Dirent("d", TRUE, Unknown, FALSE)} ELSE {}]

List(path, refresh) == [kind |-> "list", path |-> path, names |-> <<>>, refresh |-> refresh, clear |-> FALSE]
OnFile(kind, path, names, size) == [kind |-> kind, path |-> path, names |-> names, size |-> size]
RenameTo(path, from, toPath, to) ==
    [kind |-> "rename", path |-> path, names |-> <<from>>, toPath |-> toPath, toName |-> to]

MCCommands ==
    {List(<<>>, TRUE), List(<<>>, FALSE), List(<<"d">>, FALSE), [List(<<"d">>, TRUE) EXCEPT !.clear = TRUE],
     OnFile("delete", <<>>, <<"f">>, 0), OnFile("delete", <<>>, <<"g", "F">>, 0),
     OnFile("rmd", <<>>, <<"d">>, 0),
     OnFile("mkd", <<>>, <<"g">>, 0), OnFile("mkd", <<>>, <<"d", "g">>, 0), OnFile("mkd", <<>>, <<"F", "g">>, 0),
     OnFile("upload", <<>>, <<"F">>, 2), OnFile("upload", <<"d">>, <<"g">>, 2),
     OnFile("chmod", <<>>, <<"f">>, 2), OnFile("raw", <<>>, <<"f">>, 0),
     RenameTo(<<>>, "f", <<"d">>, "g"), RenameTo(<<>>, "d", <<>>, "g"), RenameTo(<<>>, "f", <<>>, "F")}
=============================================================================
