--------------------------- MODULE MCFileServices ---------------------------
(* Instances of the file services for TLC.                                 *)
EXTENDS FileServices

MCNameList == <<"f1", "f2", "f3">>
MCUploadTo == [a \in Areas |-> IF a = "a2" THEN "a1" ELSE a]
MCDownloadFrom == [n \in Nodes |-> {"a1", "a2"}]
MCUploadInto == [n \in Nodes |-> {"a1"}]

Cmd(cmd, a, names, any) == [cmd |-> cmd, area |-> a, names |-> names, global |-> cmd = "view", any |-> any]
MCCommands == {Cmd("specific", "a1", {"f1"}, FALSE), Cmd("edit", "a1", {}, TRUE), Cmd("view", "a2", {}, FALSE),
               Cmd("upload", "a2", {}, FALSE)}
MCTyped == {{"f2"}, {"f3"}, Names}

MCEnters == [u \in Users |-> IF u = "nobody" THEN {} ELSE {"g"}]
MCLists == [u \in Users |-> IF u = "nobody" THEN {} ELSE {"a1"}]
MCStores == [u \in Users |-> IF u = "u" THEN {"a1"} ELSE {}]
Path_(root, words) == [root |-> root, words |-> words]
MCPaths == {Path_(TRUE, <<"g", "a1">>), Path_(FALSE, <<"g">>), Path_(FALSE, <<"a1">>), Path_(FALSE, <<"f1">>),
            Path_(TRUE, <<"g", "a1", "*">>), Path_(FALSE, <<"a2">>)}
MCUpkeep == {[op |-> o, names |-> Names] : o \in {"clean", "sort", "reverse", "adopt", "touch", "compress", "import"}}
  \cup {[op |-> o, names |-> {"f1"}] : o \in {"kill", "lock", "importmissing"}}
  \cup {[op |-> o, names |-> {"f3"}] : o \in {"killmissing", "rebuild", "add", "unlock"}}

H(n) == Header(n, "old", {})
Files(on) == [n \in Names |-> IF n \in on THEN "old" ELSE "none"]
Base(near, far, client, upkeep, sessions) ==
  [hdr |-> [a \in Areas |-> IF a = "a1" THEN <<H("f1"), H("f2")>> ELSE <<H("f2")>>],
   disk |-> [a \in Areas |-> IF a = "a1" THEN Files({"f1", "f2"}) ELSE Files({"f2", "f3"})],
   left |-> [n \in Nodes |-> IF n \in Local THEN near ELSE far],
   ftp |-> sessions, talk |-> [c \in Conns |-> client], chores |-> upkeep]

Fresh == [c \in Conns |-> Away]
Gone == [c \in Conns |-> [Away EXCEPT !.at = "gone"]]
\* A client that logged in, went to an area and asked for a data connection.
Inside == [Fresh EXCEPT !["c1"] =
             [Start EXCEPT !.user = "u", !.got = TRUE, !.authed = TRUE, !.proven = "u",
                           !.group = "g", !.area = "a1", !.pasv = TRUE]]
\* Commands of the local node, of the remote one, of each FTP client, calls of
\* the keeper: each mix lets some of them meet.
MCStarts == {Base(0, 0, 6, 0, Fresh), Base(0, 1, 1, 0, Inside), Base(0, 0, 2, 1, Inside),
             Base(0, 3, 0, 0, Gone), Base(0, 2, 0, 1, Gone), Base(3, 0, 0, 0, Gone), Base(1, 1, 0, 0, Gone)}
=============================================================================
