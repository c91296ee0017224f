------------------------------ MODULE FtpServer -----------------------------
(***************************************************************************)
(* The FTPS server (internal/ftp): Listen with its limit of connections,   *)
(* one session per connection, the groups and areas as directories, and    *)
(* the commands that list, send, store and delete files.                   *)
(*                                                                         *)
(* A path is a sequence of words, each the name of a group, of an area or  *)
(* of a file, or "*"; replies are left out, and so are the commands that   *)
(* only reply.                                                             *)
(***************************************************************************)
EXTENDS FileBase

CONSTANTS Conns,      \* the connections, among the processes
          Limit,      \* Limit
          Groups, Accounts,
          AnonUser,   \* the account named "anonymous", "nobody" if there is none
          Enters,     \* groups each account has access to
          Lists,      \* areas each account may list
          Retrieves,  \* areas each account may download from
          Stores,     \* areas each account may upload to
          Paths,      \* arguments of commands: [root, words]
          Stored      \* file names the clients store

Users == Accounts \cup {"nobody"}
None == "-"           \* no group or area, -1

ASSUME FtpAssumption ==
  /\ Conns \subseteq Processes /\ Limit \in Nat \ {0}
  /\ AnonUser \in Users /\ "nobody" \notin Accounts
  /\ Enters \in [Users -> SUBSET Groups]
  /\ Lists \in [Users -> SUBSET Areas] /\ Retrieves \in [Users -> SUBSET Areas]
  /\ Stores \in [Users -> SUBSET Areas]
  /\ \A p \in Paths : p.root \in BOOLEAN /\ Len(p.words) <= 3
  /\ Stored \subseteq Names

VARIABLES ftp,     \* the session of each connection
          alive,   \* alive
          talk     \* commands each client may still give, the bound of the model

ftpVars == <<ftp, alive, talk>>

Start == [at |-> "command", user |-> "nobody", got |-> FALSE, authed |-> FALSE, anon |-> FALSE,
          proven |-> "none", group |-> None, area |-> None, rest |-> FALSE,
          pasv |-> FALSE, port |-> FALSE, op |-> "none",
          file |-> [area |-> CHOOSE a \in Areas : TRUE, name |-> "none", rec |-> 0]]
Sessions ==
  [at : {"away", "gone", "command", "opening", "copying", "storing", "deleting"},
   user : Users, got : BOOLEAN, authed : BOOLEAN, anon : BOOLEAN,
   proven : Users \cup {"none", "anonymous"},
   group : Groups \cup {None}, area : Areas \cup {None}, rest : BOOLEAN,
   pasv : BOOLEAN, port : BOOLEAN, op : {"none", "list", "retr", "stor", "dele"},
   file : [area : Areas, name : Names \cup {"none"}, rec : Nat]]
Away == [Start EXCEPT !.at = "away"]

---------------------------------------------------------------------------
(* Directories: breakUpDirStr, partsFromDir and findFile. *)

Word(p, i) == IF i <= Len(p.words) THEN p.words[i] ELSE ""
Plain(w) == IF w = "*" THEN "" ELSE w

BreakUpDirStr(p, g0, a0) ==
  LET g == IF p.root THEN None ELSE g0
      a == IF p.root THEN None ELSE a0
      w1 == Plain(Word(p, 1))  w2 == Plain(Word(p, 2))  w3 == Plain(Word(p, 3))
      parts(gn, an, fn) == [group |-> gn, area |-> an, file |-> fn, g |-> g, a |-> a,
                            wild |-> \E i \in DOMAIN p.words : p.words[i] = "*"]
  IN CASE w3 # "" -> parts(w1, w2, w3)
       [] w3 = "" /\ w2 # "" -> IF g # None THEN parts("", w1, w2) ELSE parts(w1, w2, "")
       [] w3 = "" /\ w2 = "" -> parts(IF g = None THEN w1 ELSE "",
                                      IF g # None /\ a = None THEN w1 ELSE "",
                                      IF g # None /\ a # None THEN w1 ELSE "")

\* An unknown group leaves the group, an unknown area leaves none.
PartsFromDir(s, p) ==
  LET b == BreakUpDirStr(p, s.group, s.area) IN
  [g |-> IF b.group \in Enters[s.user] THEN b.group ELSE b.g,
   a |-> IF b.area = "" THEN b.a ELSE IF b.area \in Lists[s.user] THEN b.area ELSE None,
   wild |-> IF b.wild THEN "*" ELSE b.file,
   invalid |-> \/ b.group # "" /\ b.group \notin Enters[s.user]
               \/ b.area # "" /\ b.area \notin Lists[s.user]]

\* The first header that matches, or none.
FindFile(s, p) ==
  LET d == PartsFromDir(s, p)
      hits == IF d.invalid \/ d.a = None \/ d.wild = "" THEN {}
              ELSE {i \in DOMAIN hdr[d.a] : /\ Live(hdr[d.a][i]) /\ ~Comment(hdr[d.a][i])
                                            /\ d.wild \in {"*", hdr[d.a][i].name}}
  IN {[area |-> d.a, name |-> hdr[d.a][i].name, rec |-> i - 1] :
        i \in {k \in hits : \A l \in hits : k <= l}}

---------------------------------------------------------------------------
(* Connections. *)

At2(c, at) == ftp[c].at = at /\ job[c].at = "idle"
Goto2(c, s) == ftp' = [ftp EXCEPT ![c] = s]
Waits(c) == [ftp[c] EXCEPT !.at = "command", !.op = "none", !.file = Start.file]
NoJob == UNCHANGED <<hdr, disk, job, clash, accepted>>

\* Listen.
Accept(c) ==
  /\ ftp[c].at = "away" /\ alive < Limit
  /\ Goto2(c, Start) /\ alive' = alive + 1
  /\ NoJob /\ UNCHANGED talk

Refuse(c) ==
  /\ ftp[c].at = "away" /\ alive >= Limit
  /\ Goto2(c, [Away EXCEPT !.at = "gone"])
  /\ NoJob /\ UNCHANGED <<alive, talk>>

\* handle returns: QUIT, the client closed, or ten minutes without a command.
Leave(c) ==
  /\ At2(c, "command")
  /\ Goto2(c, [Away EXCEPT !.at = "gone"]) /\ alive' = alive - 1
  /\ NoJob /\ UNCHANGED talk

\* A command; needAuth for those that need it.
Hears(c) == At2(c, "command") /\ talk[c] > 0 /\ talk' = [talk EXCEPT ![c] = @ - 1]
Asks(c) == Hears(c) /\ ftp[c].authed
Answers(c, s) == Goto2(c, s) /\ NoJob /\ UNCHANGED alive

\* Mutant of CmdUser: a login outlives the next USER.
CmdUserKeeps(c, u) ==
  /\ Hears(c)
  /\ Answers(c, IF u \in Accounts \ {AnonUser} THEN [ftp[c] EXCEPT !.user = u, !.got = TRUE] ELSE ftp[c])

\* USER forgets who was logged in; directory, REST and data port stay.
CmdUser(c, u) ==
  LET s == [ftp[c] EXCEPT !.authed = FALSE, !.anon = FALSE, !.got = FALSE, !.user = "nobody",
                          !.proven = "none"]
  IN
  /\ Hears(c)
  /\ Answers(c, CASE u \in Accounts \ {AnonUser} -> [s EXCEPT !.user = u, !.got = TRUE]
                  [] u = "anonymous" -> [s EXCEPT !.user = AnonUser, !.anon = TRUE, !.got = TRUE]
                  [] OTHER -> s)

CmdPass(c, right) ==
  LET s == ftp[c] IN
  /\ Hears(c)
  /\ Answers(c, IF s.anon \/ (s.got /\ right)
                  THEN [s EXCEPT !.authed = TRUE,
                                 !.proven = IF s.anon THEN "anonymous" ELSE s.user]
                  ELSE s)

\* CWD; a file name as the last word changes nothing and is not an error.
CmdCwd(c, p) ==
  LET d == PartsFromDir(ftp[c], p) IN
  /\ Asks(c)
  /\ Answers(c, IF d.invalid THEN ftp[c] ELSE [ftp[c] EXCEPT !.group = d.g, !.area = d.a])

CmdCdup(c) ==
  /\ Asks(c)
  /\ Answers(c, IF ftp[c].area # None THEN [ftp[c] EXCEPT !.area = None]
                ELSE [ftp[c] EXCEPT !.group = None])

\* PASV and EPSV: three ports are tried, and none may be free.
CmdPasv(c, free) ==
  /\ Asks(c)
  /\ Answers(c, IF free THEN [ftp[c] EXCEPT !.pasv = TRUE, !.port = FALSE]
                ELSE [ftp[c] EXCEPT !.pasv = FALSE])

CmdPort(c, good) ==
  /\ Asks(c)
  /\ Answers(c, [ftp[c] EXCEPT !.pasv = FALSE, !.port = @ \/ good])

CmdRest(c, on) == Hears(c) /\ Answers(c, [ftp[c] EXCEPT !.rest = on])

---------------------------------------------------------------------------
(* Transfers. *)

Opens(c, op, f) == [ftp[c] EXCEPT !.at = "opening", !.op = op, !.file = f]

CmdList(c) == Asks(c) /\ Answers(c, Opens(c, "list", Start.file))

\* RETR up to openData: the file is found, allowed and opened.
CmdRetr(c, p) ==
  LET ok == {f \in FindFile(ftp[c], p) :
               /\ f.area \in Retrieves[ftp[c].user]
               /\ Record(f.area, f.rec).flags \cap {"notavail", "missing"} = {}
               /\ OnDisk(f.area, f.name)}
  IN
  /\ Asks(c)
  /\ \/ ok = {} /\ Answers(c, ftp[c])
     \/ \E f \in ok : Answers(c, Opens(c, "retr", f))

\* STOR up to openData: without REST the file is emptied at once.
CmdStor(c, n) ==
  LET s == ftp[c]
      a == UploadTo[s.area]
      ok == s.area # None /\ s.group \in Enters[s.user] /\ s.area \in Stores[s.user]
  IN
  /\ Asks(c)
  /\ \/ ~ok /\ Answers(c, s)
     \/ /\ ok
        /\ disk' = [disk EXCEPT ![a][n] = IF s.rest /\ @ # "none" THEN @ ELSE "cut"]
        /\ Goto2(c, Opens(c, "stor", [area |-> a, name |-> n, rec |-> 0]))
        /\ UNCHANGED <<hdr, job, clash, accepted, alive>>

\* Mutant of OpenData: no time limit for the data connection.
OpenDataWaits(c) ==
  /\ At2(c, "opening") /\ (ftp[c].pasv \/ ftp[c].port)
  /\ Goto2(c, [ftp[c] EXCEPT !.at = "copying", !.pasv = FALSE])
  /\ NoJob /\ UNCHANGED <<alive, talk>>

\* openData: the listener is closed once it was tried, the port stays.
OpenData(c) ==
  LET s == [ftp[c] EXCEPT !.pasv = FALSE] IN
  /\ At2(c, "opening")
  /\ \/ (ftp[c].pasv \/ ftp[c].port) /\ Goto2(c, [s EXCEPT !.at = "copying"])
     \/ Goto2(c, [Waits(c) EXCEPT !.pasv = FALSE, !.rest = @ /\ ftp[c].op = "list"])
  /\ NoJob /\ UNCHANGED <<alive, talk>>

\* With REST the file is opened O_WRONLY|O_RDWR, and nothing can be written.
Received(s, content) ==
  IF s.rest THEN disk ELSE [disk EXCEPT ![s.file.area][s.file.name] = content]

\* The copy, for which no deadline is set.
CopyEnds(c) ==
  LET s == ftp[c] IN
  /\ At2(c, "copying")
  /\ \/ /\ s.op # "stor"
        /\ Goto2(c, [Waits(c) EXCEPT !.rest = @ /\ s.op = "list"])
        /\ UNCHANGED <<disk, job>>
     \/ /\ s.op = "stor"   \* 426 Transfer aborted
        /\ disk' = Received(s, "cut")
        /\ Goto2(c, [Waits(c) EXCEPT !.rest = FALSE])
        /\ UNCHANGED job
     \/ /\ s.op = "stor"
        /\ disk' = Received(s, "new")
        /\ Goto2(c, [s EXCEPT !.at = "storing", !.rest = FALSE])
        /\ job' = [job EXCEPT ![c] = Call("after", s.file.area, s.file.name, 0)]
  /\ UNCHANGED <<hdr, clash, accepted, alive, talk>>

\* 226, whatever AfterUpload returned.
StorEnds(c) ==
  /\ ftp[c].at = "storing" /\ job[c].at = "done"
  /\ Goto2(c, Waits(c))
  /\ job' = [job EXCEPT ![c] = Idle]
  /\ UNCHANGED <<hdr, disk, clash, accepted, alive, talk>>

\* DELE up to its second ReadFDB, and after WriteHdr.
CmdDele(c, p) ==
  LET ok == {f \in FindFile(ftp[c], p) : f.area \in Stores[ftp[c].user]} IN
  /\ Asks(c)
  /\ \/ ok = {} /\ Answers(c, ftp[c])
     \/ \E f \in ok :
          /\ Goto2(c, [Opens(c, "dele", f) EXCEPT !.at = "deleting"])
          /\ job' = [job EXCEPT ![c] = Call("mark", f.area, f.name, f.rec)]
          /\ UNCHANGED <<hdr, disk, clash, accepted, alive>>

DeleEnds(c) ==
  LET f == ftp[c].file IN
  /\ ftp[c].at = "deleting" /\ job[c].at = "done"
  /\ disk' = [disk EXCEPT ![f.area][f.name] = "none"]
  /\ Goto2(c, Waits(c))
  /\ job' = [job EXCEPT ![c] = Idle]
  /\ UNCHANGED <<hdr, clash, accepted, alive, talk>>

Serve(c) == OpenData(c) \/ StorEnds(c) \/ DeleEnds(c)
Command(c) ==
  \/ \E u \in Users \cup {"anonymous"} : CmdUser(c, u)
  \/ \E right \in BOOLEAN : CmdPass(c, right) \/ CmdPasv(c, right) \/ CmdPort(c, right) \/ CmdRest(c, right)
  \/ CmdCdup(c) \/ CmdList(c)
  \/ \E p \in Paths : CmdCwd(c, p) \/ CmdRetr(c, p) \/ CmdDele(c, p)
  \/ \E n \in Stored : CmdStor(c, n)
FtpStep(c) == Accept(c) \/ Refuse(c) \/ Leave(c) \/ Command(c) \/ CopyEnds(c) \/ Serve(c)
=============================================================================
