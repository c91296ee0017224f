---------------------------- MODULE FileServices ----------------------------
(***************************************************************************)
(* The file base with all who use it: callers' sessions, FTP sessions and  *)
(* maintenance.                                                            *)
(***************************************************************************)
EXTENDS FileMaint, FileSession, FtpServer

CONSTANT Starts   \* initial states: what the areas hold, the sessions of the
                  \* clients and how much each process may do

VARIABLE misnumbered  \* areas whose records moved while a process held their
                      \* numbers, or of which a file without a record was
                      \* tagged: a history variable

vars == <<hdr, disk, job, clash, accepted, tags, bbs, left, ftp, alive, talk, chores, misnumbered>>

ASSUME FileServicesAssumption ==
  /\ Processes = Nodes \cup Conns \cup {Keeper}
  /\ Nodes \cap Conns = {} /\ Keeper \notin Nodes \cup Conns

\* The areas hold headers and files, and the sessions are between two commands;
\* who is logged in gave his password or is anonymous.
ASSUME StartsAssumption ==
  \A s \in Starts :
    /\ s.hdr \in [Areas -> Seq(Headers)]
    /\ s.disk \in [Areas -> [Names -> Contents]]
    /\ s.ftp \in [Conns -> Sessions]
    /\ \A c \in Conns :
         LET f == s.ftp[c] IN
         /\ f.at \in {"away", "gone", "command"} /\ f.op = "none"
         /\ f.authed => f.proven = IF f.anon THEN "anonymous" ELSE f.user

Init ==
  /\ \E s \in Starts :
       /\ FileBaseInit(s)
       /\ left = s.left /\ ftp = s.ftp /\ talk = s.talk /\ chores = s.chores
       /\ alive = Cardinality({c \in Conns : s.ftp[c].at = "command"})
  /\ tags = [n \in Nodes |-> <<>>]
  /\ bbs = [n \in Nodes |-> AtMenu]
  /\ misnumbered = {}

\* The record numbers of area a that processes hold.
Held(a) ==
  \/ \E n \in Nodes : \/ \E i \in DOMAIN tags[n] : tags[n][i].area = a
                      \/ \E i \in DOMAIN bbs[n].found : bbs[n].found[i].area = a
  \/ \E c \in Conns : ftp[c].file.area = a /\ ftp[c].op # "none"
  \/ \E p \in Processes : job[p].area = a /\ job[p].at \in {"bump", "mark", "renew", "put"}

Moved(a) ==
  /\ Held(a) /\ hdr'[a] # hdr[a]
  /\ \E i \in DOMAIN hdr[a] : i \notin DOMAIN hdr'[a] \/ hdr'[a][i].name # hdr[a][i].name

\* The tag has the number and the name of a record.
Numbers(t) ==
  t.area \in Areas /\ t.rec \in DOMAIN hdr[t.area] /\ hdr[t.area][t.rec].name = t.name

\* The areas of new tags that have not.
Strays ==
  UNION {{tags'[n][i].area : i \in {k \in DOMAIN tags'[n] :
            /\ \A l \in DOMAIN tags[n] : tags[n][l] # tags'[n][k]
            /\ ~Numbers(tags'[n][k])}} : n \in Nodes}

NodeStep(n) == SessionStep(n) /\ UNCHANGED <<ftpVars, chores>>
ConnStep(c) == FtpStep(c) /\ UNCHANGED <<sessionVars, chores>>
Calls(p) == CallStep(p) /\ UNCHANGED <<sessionVars, ftpVars, chores>>
Upkeeps == KeeperStep /\ UNCHANGED <<sessionVars, ftpVars>>

Numbering == misnumbered' = misnumbered \cup {a \in Areas : Moved(a)} \cup Strays

Next ==
  /\ \/ \E n \in Nodes : NodeStep(n)
     \/ \E c \in Conns : ConnStep(c)
     \/ \E p \in Processes : Calls(p)
     \/ Upkeeps
  /\ Numbering

\* The handlers go on, a client that gives no command for ten minutes is
\* closed and one that opens no data connection is given up after thirty
\* seconds.  Nothing ends a copy whose client stopped.
Fairness ==
  /\ \A c \in Conns :
       WF_vars((Leave(c) \/ Serve(c)) /\ UNCHANGED <<sessionVars, chores>> /\ Numbering)
  /\ \A p \in Processes : WF_vars(Calls(p) /\ Numbering)

Spec == Init /\ [][Next]_vars /\ Fairness

---------------------------------------------------------------------------

\* An upload that AddToFDB or AfterUpload wrote to the headers, and that nobody
\* asked to remove since, has a live header in its area: through the
\* appends, the counts, the marks of deletion and the maintenance of all the
\* others, unless two of them wrote over each other or records moved under a
\* number.  A header file that WriteFDB has emptied and not yet written has none.
UploadsKept ==
  \A x \in accepted :
    \/ x[1] \in clash \cup misnumbered
    \/ job[Keeper].area = x[1] /\ job[Keeper].at = "write"
    \/ Catalogued(x[1], x[2])

\* What goes by record numbers reaches the file it is about: the file sent for
\* a tag is the one that was tagged, and a header written in place is written
\* for that file and over its record.  Only where records moved while their
\* numbers were held, or two wrote over each other, it need not.
NumbersTrue ==
  /\ \A n \in Nodes : \A i \in DOMAIN bbs[n].found :
       LET f == bbs[n].found[i] IN f.area \in misnumbered \cup clash \/ f.name = f.tag
  /\ \A p \in Processes :
       LET j == job[p] IN
       j.at \notin {"renew", "put"} \/ j.area \in misnumbered \cup clash
         \/ (j.hdr.name = j.name /\ HasRecord(j.area, j.rec) /\ Record(j.area, j.rec).name = j.name)

\* A data connection carries only what the account that logged in on this
\* connection may do, after every order of USER, PASS, CWD and CDUP.
TransfersAllowed ==
  \A c \in Conns :
    LET s == ftp[c] IN
    s.op # "none" =>
      /\ s.authed /\ s.proven = IF s.anon THEN "anonymous" ELSE s.user
      /\ s.op = "retr" => s.file.area \in Retrieves[s.user]
      /\ s.op = "stor" => \E a \in Stores[s.user] : s.file.area = UploadTo[a]

\* The server's connections come back: only a copy can hold one for ever.
SlotsComeBack ==
  \A c \in Conns : (ftp[c].at = "command") ~> (ftp[c].at \in {"gone", "copying"})
=============================================================================
