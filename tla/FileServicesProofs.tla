-------------------------- MODULE FileServicesProofs --------------------------
(***************************************************************************)
(* For any areas, files, callers, FTP clients and maintenance calls: a data *)
(* connection carries only what its login allows; what goes by record      *)
(* numbers reaches the file it is about; and an upload that was written to *)
(* the headers stays there until somebody asks to remove it.  The last two *)
(* hold of the areas in which no two calls wrote over each other and no    *)
(* record moved under its number ("Bad" are the others).                   *)
(***************************************************************************)
EXTENDS FileServices, FiniteSetTheorems, SequenceTheorems, WellFoundedInduction, TLAPS

Bad == clash \cup misnumbered

CallPcs == {"idle", "catalog", "stat", "append", "after", "renew", "bump", "mark", "put",
            "empty", "write", "done"}
MenuPcs == {"menu", "edit", "start", "sending", "mvdir", "next", "counting", "local", "ustart",
            "receiving", "check", "describe", "adding"}
UploadPcs == {"local", "ustart", "receiving", "check", "describe", "adding"}

\* The records of the calls and of the menus have their fields; what those of a
\* call hold is said below, for the areas that are not bad.
CallShape(j) ==
  j \in [at : CallPcs, area : {j.area}, name : {j.name}, flags : {j.flags}, rec : {j.rec}, hdr : {j.hdr},
         ents : {j.ents}, ok : {j.ok}]
MenuShape(s) ==
  s \in [at : MenuPcs, cmd : {s.cmd}, found : {s.found}, sent : {s.sent}, off : {s.off},
         names : {s.names}, before : {s.before}, dead : {s.dead}]

Shape ==
  /\ hdr = [a \in Areas |-> hdr[a]] /\ tags = [n \in Nodes |-> tags[n]]
  /\ disk \in [Areas -> [Names -> Contents]]
  /\ job = [p \in Processes |-> job[p]] /\ \A p \in Processes : CallShape(job[p])
  /\ bbs = [n \in Nodes |-> bbs[n]] /\ \A n \in Nodes : MenuShape(bbs[n])

\* Record number rec of an area with headers h is that of the name.
RecordOf(h, rec, name) == rec \in Nat /\ rec + 1 \in DOMAIN h /\ h[rec + 1].name = name

\* A tag, and a file to send or to count, has the number and the name of its record.
TagOk(t, bad, H) == t.area \in bad \/ (t.area \in Areas /\ t.rec \in DOMAIN H[t.area] /\ H[t.area][t.rec].name = t.name)
FoundOk(f, bad, H) == f.area \in bad \/ (f.area \in Areas /\ f.name = f.tag /\ RecordOf(H[f.area], f.rec, f.tag))
MenuOk(s, bad, H) ==
  /\ \A i \in DOMAIN s.found : FoundOk(s.found[i], bad, H)
  /\ s.at \in UploadPcs => s.cmd.area \in Areas

\* What a call holds that has read the headers h of its area and will write them.
CallOk(p, j, h, acc) ==
  /\ j.at \in {"catalog", "after"} => j.flags \subseteq Flags \ {"deleted"}
  /\ j.at \in {"stat", "append", "renew", "put"} => j.hdr \in Headers /\ j.hdr.name = j.name
  /\ j.at \in {"stat", "append", "renew"} => Live(j.hdr)
  /\ j.at = "append" => j.rec = Len(h)
  /\ j.at \in {"bump", "mark", "renew", "put"} => RecordOf(h, j.rec, j.name)
  /\ j.at \in {"empty", "write"} =>
       /\ p = Keeper /\ j.ents \in Seq(Headers)
       /\ \A x \in acc : x[1] = j.area => \E i \in DOMAIN j.ents : Live(j.ents[i]) /\ j.ents[i].name = x[2]
JobOk(p, j, bad, H, acc) ==
  j.at \in {"idle", "done"} \/ j.area \in bad \/ (j.area \in Areas /\ CallOk(p, j, H[j.area], acc))

\* An upload has its live header, or Keeper is between emptying and writing.
Has(h, n) == \E i \in DOMAIN h : Live(h[i]) /\ h[i].name = n
KeptOk(x, bad, H, k) ==
  /\ x = <<x[1], x[2]>>
  /\ x[1] \in bad \/ (x[1] \in Areas /\ ((k.area = x[1] /\ k.at = "write") \/ Has(H[x[1]], x[2])))

HeadersInv == \A a \in Areas \ Bad : hdr[a] \in Seq(Headers)
TagsInv == \A n \in Nodes : \A i \in DOMAIN tags[n] : TagOk(tags[n][i], Bad, hdr)
MenusInv == \A n \in Nodes : MenuOk(bbs[n], Bad, hdr)
JobsInv == \A p \in Processes : JobOk(p, job[p], Bad, hdr, accepted)
KeepInv == \A x \in accepted : KeptOk(x, Bad, hdr, job[Keeper])

\* What an FTP session may be transferring.
Login(s) == s.proven = IF s.anon THEN "anonymous" ELSE s.user
MayTransfer(s) ==
  /\ s.at \in {"command", "away", "gone"} => s.op = "none"
  /\ s.authed => Login(s)
  /\ s.op # "none" => s.authed
  /\ s.op = "retr" => s.file.area \in Retrieves[s.user]
  /\ s.op = "stor" => \E a \in Stores[s.user] : s.file.area = UploadTo[a]
  /\ s.op \in {"stor", "dele"} => s.file.area \in Areas
  /\ s.at = "storing" => s.op = "stor"
  /\ s.at = "deleting" => s.op = "dele"

FtpPcs == {"away", "gone", "command", "opening", "copying", "storing", "deleting"}
Sound(s) ==
  /\ s \in [at : FtpPcs, user : Users, got : {s.got}, authed : BOOLEAN, anon : {s.anon},
            proven : {s.proven}, group : {s.group}, area : Areas \cup {None}, rest : {s.rest},
            pasv : {s.pasv}, port : {s.port}, op : {"none", "list", "retr", "stor", "dele"},
            file : {s.file}]
  /\ MayTransfer(s)

FtpInv == ftp = [c \in Conns |-> ftp[c]] /\ \A c \in Conns : Sound(ftp[c])

Inv == Shape /\ HeadersInv /\ TagsInv /\ MenusInv /\ JobsInv /\ KeepInv /\ FtpInv

---------------------------------------------------------------------------
(* Transfers. *)

\* A step of a connection keeps the sessions sound when it leaves its own so.
LEMMA SoundStep ==
  ASSUME FtpInv, NEW c \in Conns, NEW s, Sound(s), Goto2(c, s)
  PROVE  FtpInv'
<1>1. ftp' = [x \in Conns |-> ftp'[x]] /\ ftp'[c] = s /\ \A x \in Conns \ {c} : ftp'[x] = ftp[x]
  BY DEF FtpInv, Goto2
<1>2. \A x \in Conns : Sound(ftp'[x])
  BY <1>1 DEF FtpInv
<1>3. ASSUME NEW x \in Conns PROVE Sound(ftp[x])'
  BY <1>2 DEF Sound, MayTransfer, Login
<1> QED BY <1>1, <1>3 DEF FtpInv

\* A connection waits between two commands, and nobody has logged in on a new one.
LEMMA SoundStart == Sound(Start) /\ Sound(Away)
<1>1. Sound(Start)
  BY SMT DEF Start, Sound, MayTransfer, Users, FtpPcs
<1> DEFINE s == Start
<1>2. Sound(s) /\ s.op = "none" /\ ~s.authed
  BY <1>1, SMT DEF Start
<1> HIDE DEF s
<1>3. Sound([s EXCEPT !.at = "away"])
  BY <1>2, SMT DEF Sound, MayTransfer, FtpPcs
<1> QED BY <1>1, <1>3 DEF Away, s

\* What says nothing of the login and the transfer may change.
LEMMA SoundOthers ==
  ASSUME NEW s, Sound(s), NEW v
  PROVE  /\ Sound([s EXCEPT !.group = v]) /\ Sound([s EXCEPT !.rest = v])
         /\ Sound([s EXCEPT !.pasv = v]) /\ Sound([s EXCEPT !.port = v])
         /\ v \in Areas \cup {None} => Sound([s EXCEPT !.area = v])
<1>1. Sound([s EXCEPT !.group = v])
  BY SMT DEF Sound, MayTransfer, Login
<1>2. Sound([s EXCEPT !.rest = v])
  BY SMT DEF Sound, MayTransfer, Login
<1>3. Sound([s EXCEPT !.pasv = v])
  BY SMT DEF Sound, MayTransfer, Login
<1>4. Sound([s EXCEPT !.port = v])
  BY SMT DEF Sound, MayTransfer, Login
<1>5. v \in Areas \cup {None} => Sound([s EXCEPT !.area = v])
  BY SMT DEF Sound, MayTransfer, Login
<1> QED BY <1>1, <1>2, <1>3, <1>4, <1>5

\* A transfer begins, with its file, or ends.
LEMMA SoundTransfer ==
  ASSUME NEW s, Sound(s), NEW f, NEW at \in FtpPcs, NEW op \in {"none", "list", "retr", "stor", "dele"},
         op # "none" => s.authed,
         at \in {"command", "away", "gone"} => op = "none",
         at = "storing" => op = "stor",
         at = "deleting" => op = "dele",
         op = "retr" => f.area \in Retrieves[s.user],
         op = "stor" => \E a \in Stores[s.user] : f.area = UploadTo[a],
         op \in {"stor", "dele"} => f.area \in Areas
  PROVE  Sound([s EXCEPT !.at = at, !.op = op, !.file = f])
<1> DEFINE r == [s EXCEPT !.at = at, !.op = op, !.file = f]
<1>1. r.at = at /\ r.op = op /\ r.file = f
  BY DEF Sound
<1>2. /\ r.user = s.user /\ r.got = s.got /\ r.authed = s.authed /\ r.anon = s.anon /\ r.proven = s.proven
      /\ r.group = s.group /\ r.area = s.area /\ r.rest = s.rest /\ r.pasv = s.pasv /\ r.port = s.port
  BY DEF Sound
<1>3. r \in [at : FtpPcs, user : Users, got : {s.got}, authed : BOOLEAN, anon : {s.anon},
            proven : {s.proven}, group : {s.group}, area : Areas \cup {None}, rest : {s.rest},
            pasv : {s.pasv}, port : {s.port}, op : {"none", "list", "retr", "stor", "dele"},
            file : {f}]
  BY DEF Sound, MayTransfer
<1>4. MayTransfer(s)
  BY DEF Sound
<1> HIDE DEF r
<1>5. MayTransfer(r)
  BY <1>1, <1>2, <1>4 DEF MayTransfer, Login
<1>6. Sound(r)
  BY <1>1, <1>2, <1>3, <1>5 DEF Sound
<1> QED BY <1>6 DEF r

\* A transfer goes on.
LEMMA SoundPhase ==
  ASSUME NEW s, Sound(s), NEW at \in FtpPcs \ {"command", "away", "gone"},
         at = "storing" => s.op = "stor",
         at = "deleting" => s.op = "dele"
  PROVE  Sound([s EXCEPT !.at = at])
  BY SMT DEF Sound, MayTransfer, Login, FtpPcs

\* The login changes only while the connection waits for a command.
LEMMA SoundLogin ==
  ASSUME NEW s, Sound(s), s.at = "command", NEW u \in Users
  PROVE  LET out == [s EXCEPT !.authed = FALSE, !.anon = FALSE, !.got = FALSE, !.user = "nobody", !.proven = "none"]
         IN /\ Sound(out)
            /\ Sound([out EXCEPT !.user = u, !.got = TRUE])
            /\ Sound([out EXCEPT !.user = u, !.anon = TRUE, !.got = TRUE])
<1> DEFINE out == [s EXCEPT !.authed = FALSE, !.anon = FALSE, !.got = FALSE, !.user = "nobody", !.proven = "none"]
<1>1. Sound(out) /\ out.at = "command" /\ out.op = "none" /\ ~out.authed
  BY DEF Sound, MayTransfer, Login, Users
<1> HIDE DEF out
<1>3. Sound([out EXCEPT !.user = u, !.got = TRUE])
  BY <1>1 DEF Sound, MayTransfer, Login
<1>4. Sound([out EXCEPT !.user = u, !.anon = TRUE, !.got = TRUE])
  BY <1>1 DEF Sound, MayTransfer, Login
<1> QED BY <1>1, <1>3, <1>4 DEF out

\* PASS with the right password proves who USER named.
LEMMA SoundPassed ==
  ASSUME NEW s, Sound(s), s.at = "command"
  PROVE  Sound([s EXCEPT !.authed = TRUE, !.proven = IF s.anon THEN "anonymous" ELSE s.user])
  BY DEF Sound, MayTransfer, Login, Users

\* USER logs out; PASS logs in the user it names.
LEMMA SoundUser ==
  ASSUME FtpInv, NEW c \in Conns, NEW u \in Users \cup {"anonymous"}, CmdUser(c, u)
  PROVE  FtpInv'
<1> DEFINE o == ftp[c]
           out == [o EXCEPT !.authed = FALSE, !.anon = FALSE, !.got = FALSE, !.user = "nobody", !.proven = "none"]
           s1 == [out EXCEPT !.user = u, !.got = TRUE]
           s2 == [out EXCEPT !.user = AnonUser, !.anon = TRUE, !.got = TRUE]
<1>1. Sound(o) /\ o.at = "command"
  BY DEF FtpInv, CmdUser, Hears, At2
<1>2. Sound(out) /\ (u \in Accounts => Sound(s1)) /\ Sound(s2)
  BY <1>1, SoundLogin, FtpAssumption DEF Users
<1>3. CASE u \in Accounts \ {AnonUser}
  BY <1>2, <1>3, SoundStep DEF CmdUser, Answers
<1>4. CASE u \notin Accounts \ {AnonUser} /\ u = "anonymous"
  BY <1>2, <1>4, SoundStep DEF CmdUser, Answers
<1>5. CASE u \notin Accounts \ {AnonUser} /\ u # "anonymous"
  BY <1>2, <1>5, SoundStep DEF CmdUser, Answers
<1> QED BY <1>3, <1>4, <1>5

\* PASS.
LEMMA SoundPass ==
  ASSUME FtpInv, NEW c \in Conns, NEW right \in BOOLEAN, CmdPass(c, right)
  PROVE  FtpInv'
<1> DEFINE o == ftp[c]
           s == [o EXCEPT !.authed = TRUE, !.proven = IF o.anon THEN "anonymous" ELSE o.user]
<1>1. Sound(o) /\ o.at = "command"
  BY DEF FtpInv, CmdPass, Hears, At2
<1>2. Sound(s)
  BY <1>1, SoundPassed
<1>3. Goto2(c, s) \/ Goto2(c, o)
  BY DEF CmdPass, Answers
<1> QED BY <1>1, <1>2, <1>3, SoundStep

\* The directory of a session is an area the account may list, or none.
LEMMA SoundCwd ==
  ASSUME FtpInv, NEW c \in Conns, NEW p \in Paths, CmdCwd(c, p)
  PROVE  FtpInv'
<1> DEFINE o == ftp[c]
           d == PartsFromDir(o, p)
           s == [o EXCEPT !.group = d.g, !.area = d.a]
<1>1. Sound(o)
  BY DEF FtpInv
<1>2. d.a \in Areas \cup {None}
  <2> DEFINE b == BreakUpDirStr(p, o.group, o.area)
  <2>1. b.a = IF p.root THEN None ELSE o.area
    BY DEF BreakUpDirStr
  <2>2. o.area \in Areas \cup {None} /\ o.user \in Users
    BY <1>1 DEF Sound
  <2>3. d.a = IF b.area = "" THEN b.a ELSE IF b.area \in Lists[o.user] THEN b.area ELSE None
    BY DEF PartsFromDir
  <2>4. Lists[o.user] \subseteq Areas
    BY <2>2, FtpAssumption
  <2> HIDE DEF b, d, o
  <2> QED BY <2>1, <2>2, <2>3, <2>4
<1>3. Sound(s)
  <2> HIDE DEF d, o
  <2>1. Sound([o EXCEPT !.group = d.g])
    BY <1>1, SoundOthers
  <2> QED BY <1>2, <2>1, SoundOthers
<1>4. Goto2(c, s) \/ Goto2(c, o)
  BY DEF CmdCwd, Answers
<1> QED BY <1>1, <1>3, <1>4, SoundStep

\* PASV, PORT, REST and CDUP say nothing of the login or the transfer.
LEMMA SoundSettings ==
  ASSUME FtpInv, NEW c \in Conns, NEW on \in BOOLEAN,
         CmdPasv(c, on) \/ CmdPort(c, on) \/ CmdRest(c, on) \/ CmdCdup(c)
  PROVE  FtpInv'
<1> DEFINE o == ftp[c]
           po == o.port \/ on
<1>1. Sound(o)
  BY DEF FtpInv
<1>2. Sound([o EXCEPT !.pasv = TRUE]) /\ Sound([o EXCEPT !.pasv = FALSE])
  BY <1>1, SoundOthers
<1>3. Sound([o EXCEPT !.pasv = TRUE, !.port = FALSE])
  BY <1>2, SoundOthers
<1>4. Sound([o EXCEPT !.pasv = FALSE, !.port = po])
  <2> HIDE DEF po
  <2> QED BY <1>2, SoundOthers
<1>5. Sound([o EXCEPT !.rest = on]) /\ Sound([o EXCEPT !.area = None]) /\ Sound([o EXCEPT !.group = None])
  BY <1>1, SoundOthers
<1>6. CASE CmdPasv(c, on)
  BY <1>2, <1>3, <1>6, SoundStep DEF CmdPasv, Answers
<1>7. CASE CmdPort(c, on)
  BY <1>4, <1>7, SoundStep DEF CmdPort, Answers
<1>8. CASE CmdRest(c, on)
  BY <1>5, <1>8, SoundStep DEF CmdRest, Answers
<1>9. CASE CmdCdup(c)
  BY <1>5, <1>9, SoundStep DEF CmdCdup, Answers
<1> QED BY <1>6, <1>7, <1>8, <1>9

\* What FindFile finds is in an area, with the number and the name of its record.
LEMMA FoundFile ==
  ASSUME NEW s, NEW p, NEW f \in FindFile(s, p)
  PROVE  \E i \in DOMAIN hdr[f.area] : f = [area |-> f.area, name |-> hdr[f.area][i].name, rec |-> i - 1]
<1> DEFINE d == PartsFromDir(s, p)
           a == d.a
<1>1. PICK i \in DOMAIN hdr[a] : f = [area |-> a, name |-> hdr[a][i].name, rec |-> i - 1]
  BY Zenon DEF FindFile
<1> HIDE DEF a
<1>2. f.area = a
  BY <1>1
<1> QED BY <1>1, <1>2

\* LIST and RETR; the account may download from the area.
LEMMA SoundRetr ==
  ASSUME FtpInv, NEW c \in Conns, CmdList(c) \/ \E p \in Paths : CmdRetr(c, p)
  PROVE  FtpInv'
<1> DEFINE o == ftp[c]
<1>1. Sound(o) /\ o.authed
  BY DEF FtpInv, CmdList, CmdRetr, Asks
<1>2. CASE CmdList(c)
  <2> DEFINE f == Start.file
  <2>1. Sound([o EXCEPT !.at = "opening", !.op = "list", !.file = f])
    <3> HIDE DEF f
    <3> QED BY <1>1, SoundTransfer DEF FtpPcs
  <2> QED BY <1>2, <2>1, SoundStep DEF CmdList, Answers, Opens
<1>3. CASE \E p \in Paths : CmdRetr(c, p)
  <2>1. PICK p \in Paths : CmdRetr(c, p)
    BY <1>3
  <2>2. Goto2(c, o) \/ \E f \in FindFile(o, p) : f.area \in Retrieves[o.user] /\ Goto2(c, Opens(c, "retr", f))
    BY <2>1 DEF CmdRetr, Answers
  <2>3. ASSUME NEW f, f.area \in Retrieves[o.user]
        PROVE  Sound(Opens(c, "retr", f))
    BY <1>1, <2>3, SoundTransfer DEF FtpPcs, Opens
  <2> QED BY <1>1, <2>2, <2>3, SoundStep
<1> QED BY <1>2, <1>3

\* STOR and DELE, in areas the account may store into.
LEMMA SoundStorDele ==
  ASSUME FtpInv, NEW c \in Conns, (\E n \in Stored : CmdStor(c, n)) \/ (\E p \in Paths : CmdDele(c, p))
  PROVE  FtpInv'
<1> DEFINE o == ftp[c]
<1>1. Sound(o) /\ o.authed /\ o.user \in Users
  BY DEF FtpInv, CmdStor, CmdDele, Asks, Sound
<1>2. Stores[o.user] \subseteq Areas /\ \A a \in Areas : UploadTo[a] \in Areas
  BY <1>1, FtpAssumption, FileBaseAssumption
<1>3. CASE \E n \in Stored : CmdStor(c, n)
  <2>1. PICK n \in Stored : CmdStor(c, n)
    BY <1>3
  <2> DEFINE f == [area |-> UploadTo[o.area], name |-> n, rec |-> 0]
  <2>2. Goto2(c, o) \/ (o.area \in Stores[o.user] /\ Goto2(c, Opens(c, "stor", f)))
    BY <2>1 DEF CmdStor, Answers
  <2>3. ASSUME o.area \in Stores[o.user] PROVE Sound(Opens(c, "stor", f))
    <3>1. f.area = UploadTo[o.area]
      OBVIOUS
    <3> HIDE DEF f
    <3> QED BY <1>1, <1>2, <2>3, <3>1, SoundTransfer DEF FtpPcs, Opens
  <2> QED BY <1>1, <2>2, <2>3, SoundStep
<1>4. CASE \E p \in Paths : CmdDele(c, p)
  <2>1. PICK p \in Paths : CmdDele(c, p)
    BY <1>4
  <2> DEFINE deleting(f) == [Opens(c, "dele", f) EXCEPT !.at = "deleting"]
  <2>2. Goto2(c, o) \/ \E f \in FindFile(o, p) : f.area \in Stores[o.user] /\ Goto2(c, deleting(f))
    BY <2>1 DEF CmdDele, Answers
  <2>3. ASSUME NEW f, f.area \in Stores[o.user] PROVE Sound(deleting(f))
    <3> DEFINE r == [o EXCEPT !.at = "opening", !.op = "dele", !.file = f]
    <3>1. Sound(r)
      BY <1>1, <1>2, <2>3, SoundTransfer DEF FtpPcs
    <3>2. r.op = "dele"
      BY <1>1 DEF Sound
    <3> HIDE DEF r
    <3>3. Sound([r EXCEPT !.at = "deleting"])
      BY <3>1, <3>2, SoundPhase DEF FtpPcs
    <3> QED BY <3>3 DEF r, Opens
  <2> QED BY <1>1, <2>2, <2>3, SoundStep
<1> QED BY <1>3, <1>4

\* The data connection, the copy and the ends of the transfers.
LEMMA SoundCopy ==
  ASSUME FtpInv, NEW c \in Conns, OpenData(c) \/ CopyEnds(c) \/ StorEnds(c) \/ DeleEnds(c)
  PROVE  FtpInv'
<1> DEFINE o == ftp[c]
           f == Start.file
           w == [o EXCEPT !.at = "command", !.op = "none", !.file = f]
<1>1. Sound(o)
  BY DEF FtpInv
<1>2. Sound(w)
  <2> HIDE DEF f
  <2> QED BY <1>1, SoundTransfer DEF FtpPcs
<1>3. Waits(c) = w
  BY DEF Waits
<1>4. ASSUME NEW v, NEW v2
      PROVE  Sound([w EXCEPT !.rest = v]) /\ Sound([w EXCEPT !.pasv = v, !.rest = v2])
  <2> HIDE DEF w
  <2>1. Sound([w EXCEPT !.rest = v]) /\ Sound([w EXCEPT !.pasv = v])
    BY <1>2, SoundOthers
  <2> QED BY <2>1, SoundOthers
<1>5. CASE OpenData(c)
  <2> DEFINE s == [o EXCEPT !.pasv = FALSE]
             v == [w EXCEPT !.pasv = FALSE].rest /\ o.op = "list"
  <2>1. Sound(s) /\ s.at = "opening"
    BY <1>1, <1>5, SoundOthers DEF OpenData, At2, Sound
  <2>2. Sound([s EXCEPT !.at = "copying"])
    <3> HIDE DEF s
    <3> QED BY <2>1, SoundPhase DEF FtpPcs
  <2>3. Sound([w EXCEPT !.pasv = FALSE, !.rest = @ /\ o.op = "list"])
    <3>1. Sound([w EXCEPT !.pasv = FALSE, !.rest = v])
      <4> HIDE DEF v, w
      <4> QED BY <1>4
    <3> QED BY <3>1
  <2> QED BY <1>3, <1>5, <2>2, <2>3, SoundStep DEF OpenData
<1>6. CASE CopyEnds(c)
  <2> DEFINE v == w.rest /\ o.op = "list"
  <2>1. Sound([w EXCEPT !.rest = @ /\ o.op = "list"]) /\ Sound([w EXCEPT !.rest = FALSE])
    <3>1. Sound([w EXCEPT !.rest = v]) /\ Sound([w EXCEPT !.rest = FALSE])
      <4> HIDE DEF v, w
      <4> QED BY <1>4
    <3> QED BY <3>1
  <2>2. o.op = "stor" => Sound([o EXCEPT !.at = "storing", !.rest = FALSE])
    <3>1. o.op = "stor" => Sound([o EXCEPT !.at = "storing"])
      BY <1>1, SoundPhase DEF FtpPcs
    <3> QED BY <3>1, SoundOthers
  <2> QED BY <1>3, <1>6, <2>1, <2>2, SoundStep DEF CopyEnds
<1>7. CASE StorEnds(c) \/ DeleEnds(c)
  BY <1>2, <1>3, <1>7, SoundStep DEF StorEnds, DeleEnds
<1> QED BY <1>5, <1>6, <1>7

\* Every step of a connection leaves its session sound.
LEMMA SoundConn ==
  ASSUME FtpInv, NEW c \in Conns, FtpStep(c)
  PROVE  FtpInv'
<1>1. CASE Accept(c) \/ Refuse(c) \/ Leave(c)
  <2>1. Sound(Start) /\ Sound([Away EXCEPT !.at = "gone"])
    <3> DEFINE s == Away
    <3>1. Sound(s) /\ s.op = "none" /\ ~s.authed
      BY SoundStart DEF Away, Start
    <3> HIDE DEF s
    <3>2. Sound([s EXCEPT !.at = "gone"])
      BY <3>1 DEF Sound, MayTransfer, FtpPcs
    <3> QED BY <3>2, SoundStart DEF s
  <2> QED BY <1>1, <2>1, SoundStep DEF Accept, Refuse, Leave
<1>2. CASE Command(c)
  <2>1. CASE \E u \in Users \cup {"anonymous"} : CmdUser(c, u)
    BY <2>1, SoundUser
  <2>2. CASE \E right \in BOOLEAN : CmdPass(c, right)
    BY <2>2, SoundPass
  <2>3. CASE \E right \in BOOLEAN : CmdPasv(c, right) \/ CmdPort(c, right) \/ CmdRest(c, right)
    BY <2>3, SoundSettings
  <2>4. CASE CmdCdup(c)
    BY <2>4, SoundSettings
  <2>5. CASE CmdList(c) \/ \E p \in Paths : CmdRetr(c, p)
    BY <2>5, SoundRetr
  <2>6. CASE \E p \in Paths : CmdCwd(c, p)
    BY <2>6, SoundCwd
  <2>7. CASE (\E n \in Stored : CmdStor(c, n)) \/ (\E p \in Paths : CmdDele(c, p))
    BY <2>7, SoundStorDele
  <2> QED BY <1>2, <2>1, <2>2, <2>3, <2>4, <2>5, <2>6, <2>7 DEF Command
<1>3. CASE CopyEnds(c) \/ Serve(c)
  BY <1>3, SoundCopy DEF Serve
<1> QED BY <1>1, <1>2, <1>3 DEF FtpStep

\* The sessions are sound at the start and after every step.
LEMMA FtpStays == (Init => FtpInv) /\ (FtpInv /\ [Next]_vars => FtpInv')
<1>1. ASSUME Init PROVE FtpInv
  <2>1. PICK s \in Starts : ftp = s.ftp
    BY <1>1 DEF Init
  <2>2. ftp \in [Conns -> Sessions]
    BY <2>1, StartsAssumption
  <2>3. ASSUME NEW c \in Conns PROVE Sound(ftp[c])
    <3> DEFINE f == ftp[c]
    <3>1. f \in Sessions
      BY <2>2
    <3>2. /\ f.at \in {"away", "gone", "command"} /\ f.op = "none"
          /\ f.authed => f.proven = IF f.anon THEN "anonymous" ELSE f.user
      BY <2>1, StartsAssumption
    <3> HIDE DEF f
    <3>3. f \in [at : FtpPcs, user : Users, got : {f.got}, authed : BOOLEAN, anon : {f.anon},
            proven : {f.proven}, group : {f.group}, area : Areas \cup {None}, rest : {f.rest},
            pasv : {f.pasv}, port : {f.port}, op : {"none", "list", "retr", "stor", "dele"},
            file : {f.file}]
      BY <3>1 DEF Sessions, FtpPcs
    <3>4. MayTransfer(f)
      BY <3>2 DEF MayTransfer, Login
    <3> QED BY <3>3, <3>4 DEF Sound, f
  <2> QED BY <2>2, <2>3 DEF FtpInv
<1>2. ASSUME FtpInv, Next PROVE FtpInv'
  <2>1. CASE \E c \in Conns : ConnStep(c)
    BY <1>2, <2>1, SoundConn DEF ConnStep
  <2>2. CASE UNCHANGED ftp
    BY <1>2, <2>2 DEF FtpInv, Sound, MayTransfer, Login
  <2> QED BY <1>2, <2>1, <2>2 DEF Next, NodeStep, Calls, Upkeeps, ftpVars
<1>3. ASSUME FtpInv, UNCHANGED vars PROVE FtpInv'
  BY <1>3 DEF vars, FtpInv, Sound, MayTransfer, Login
<1> QED BY <1>1, <1>2, <1>3

\* For any accounts and their rights, and whatever the clients send: a data
\* connection carries only what the account that logged in on it may do.
THEOREM TransfersAllowedThm == Spec => []TransfersAllowed
<1>1. FtpInv => TransfersAllowed
  BY DEF FtpInv, Sound, MayTransfer, Login, TransfersAllowed
<1> QED BY <1>1, FtpStays, PTL DEF Spec

---------------------------------------------------------------------------
(* Calls. *)

\* A call that begins.
LEMMA CallFacts ==
  ASSUME NEW at \in CallPcs, NEW a, NEW n, NEW i
  PROVE  LET c == Call(at, a, n, i)
         IN /\ CallShape(c)
            /\ c.at = at /\ c.area = a /\ c.name = n /\ c.rec = i /\ c.flags = {} /\ c.ents = <<>>
<1> DEFINE c == Call(at, a, n, i)
<1>1. c.at = at /\ c.area = a /\ c.name = n /\ c.rec = i /\ c.flags = {} /\ c.ents = <<>>
  BY DEF Call, Idle
<1>2. c \in [at : CallPcs, area : {a}, name : {n}, flags : {{}}, rec : {i}, hdr : {c.hdr}, ents : {<<>>}, ok : {c.ok}]
  BY DEF Call, Idle
<1>3. CallShape(c)
  <2> HIDE DEF c
  <2> QED BY <1>1, <1>2 DEF CallShape
<1> QED BY <1>1, <1>3

\* A process without a call.
LEMMA IdleFacts == CallShape(Idle) /\ Idle.at = "idle"
<1>1. Idle.at = "idle"
  BY DEF Idle
<1>2. Idle \in [at : CallPcs, area : {Idle.area}, name : {Idle.name}, flags : {Idle.flags}, rec : {Idle.rec},
                hdr : {Idle.hdr}, ents : {Idle.ents}, ok : {Idle.ok}]
  BY DEF Idle, CallPcs
<1> QED BY <1>1, <1>2 DEF CallShape

\* A step of one process changes its call alone.
JobMoves(p) == job' = [q \in Processes |-> job'[q]] /\ \A q \in Processes \ {p} : job'[q] = job[q]

\* The call of one process is set as a whole.
LEMMA JobSet ==
  ASSUME Shape, NEW p \in Processes, NEW j, CallShape(j), job' = [job EXCEPT ![p] = j]
  PROVE  JobMoves(p) /\ job'[p] = j
  BY DEF Shape, JobMoves

\* The fields a call sets on its way.
LEMMA SetAt ==
  ASSUME Shape, NEW p \in Processes, NEW at \in CallPcs,
         job' = [job EXCEPT ![p].at = at]
  PROVE  /\ JobMoves(p) /\ CallShape(job'[p]) /\ job'[p].at = at /\ job'[p].area = job[p].area
         /\ job'[p].name = job[p].name /\ job'[p].rec = job[p].rec
         /\ job'[p].hdr = job[p].hdr /\ job'[p].ents = job[p].ents
         /\ job'[p].flags = job[p].flags
<1> DEFINE j == job[p]
           r == [j EXCEPT !.at = at]
<1>1. CallShape(j) /\ job = [q \in Processes |-> job[q]]
  BY DEF Shape
<1>2. JobMoves(p) /\ job'[p] = r
  BY <1>1 DEF JobMoves
<1>3. CallShape(r) /\ r.at = at /\ r.area = j.area /\ r.name = j.name
  BY <1>1 DEF CallShape
<1>4. r.rec = j.rec /\ r.hdr = j.hdr /\ r.ents = j.ents /\ r.flags = j.flags
  BY <1>1 DEF CallShape
<1> HIDE DEF r
<1> QED BY <1>2, <1>3, <1>4

\* A call that goes on and has its result.
LEMMA SetDone ==
  ASSUME Shape, NEW p \in Processes, NEW at \in CallPcs, NEW ok,
         job' = [job EXCEPT ![p].at = at, ![p].ok = ok]
  PROVE  /\ JobMoves(p) /\ CallShape(job'[p]) /\ job'[p].at = at /\ job'[p].area = job[p].area
         /\ job'[p].name = job[p].name /\ job'[p].rec = job[p].rec
         /\ job'[p].hdr = job[p].hdr /\ job'[p].ents = job[p].ents
<1> DEFINE j == job[p]
           r == [j EXCEPT !.at = at, !.ok = ok]
<1>1. CallShape(j) /\ job = [q \in Processes |-> job[q]]
  BY DEF Shape
<1>2. JobMoves(p) /\ job'[p] = r
  BY <1>1 DEF JobMoves
<1>3. CallShape(r) /\ r.at = at /\ r.area = j.area /\ r.name = j.name
  BY <1>1 DEF CallShape
<1>4. r.rec = j.rec /\ r.hdr = j.hdr /\ r.ents = j.ents
  BY <1>1 DEF CallShape
<1> HIDE DEF r
<1> QED BY <1>2, <1>3, <1>4

\* A call that goes on and holds the header it will write.
LEMMA SetHdr ==
  ASSUME Shape, NEW p \in Processes, NEW at \in CallPcs, NEW h,
         job' = [job EXCEPT ![p].at = at, ![p].hdr = h]
  PROVE  /\ JobMoves(p) /\ CallShape(job'[p]) /\ job'[p].at = at /\ job'[p].area = job[p].area
         /\ job'[p].name = job[p].name /\ job'[p].rec = job[p].rec
         /\ job'[p].hdr = h /\ job'[p].ents = job[p].ents
<1> DEFINE j == job[p]
           r == [j EXCEPT !.at = at, !.hdr = h]
<1>1. CallShape(j) /\ job = [q \in Processes |-> job[q]]
  BY DEF Shape
<1>2. JobMoves(p) /\ job'[p] = r
  BY <1>1 DEF JobMoves
<1>3. CallShape(r) /\ r.at = at /\ r.area = j.area /\ r.name = j.name
  BY <1>1 DEF CallShape
<1>4. r.rec = j.rec /\ r.hdr = h /\ r.ents = j.ents
  BY <1>1 DEF CallShape
<1> HIDE DEF r
<1> QED BY <1>2, <1>3, <1>4

\* A call that goes on and holds the place it will write to.
LEMMA SetRec ==
  ASSUME Shape, NEW p \in Processes, NEW at \in CallPcs, NEW rec,
         job' = [job EXCEPT ![p].at = at, ![p].rec = rec]
  PROVE  /\ JobMoves(p) /\ CallShape(job'[p]) /\ job'[p].at = at /\ job'[p].area = job[p].area
         /\ job'[p].name = job[p].name /\ job'[p].rec = rec
         /\ job'[p].hdr = job[p].hdr /\ job'[p].ents = job[p].ents
<1> DEFINE j == job[p]
           r == [j EXCEPT !.at = at, !.rec = rec]
<1>1. CallShape(j) /\ job = [q \in Processes |-> job[q]]
  BY DEF Shape
<1>2. JobMoves(p) /\ job'[p] = r
  BY <1>1 DEF JobMoves
<1>3. CallShape(r) /\ r.at = at /\ r.area = j.area /\ r.name = j.name
  BY <1>1 DEF CallShape
<1>4. r.rec = rec /\ r.hdr = j.hdr /\ r.ents = j.ents
  BY <1>1 DEF CallShape
<1> HIDE DEF r
<1> QED BY <1>2, <1>3, <1>4

---------------------------------------------------------------------------
(* What does not change while names stay at their numbers. *)

NamesKept(h, h2) == DOMAIN h \subseteq DOMAIN h2 /\ \A i \in DOMAIN h : h2[i].name = h[i].name

\* A tag keeps its record where names keep their numbers.
LEMMA TagKept ==
  ASSUME NEW t, NEW bad, NEW bad2, NEW H, NEW H2, TagOk(t, bad, H), bad \subseteq bad2,
         t.area \in Areas \ bad2 => NamesKept(H[t.area], H2[t.area])
  PROVE  TagOk(t, bad2, H2)
  BY DEF TagOk, NamesKept

\* So does a file that is to be sent or counted.
LEMMA FoundKept ==
  ASSUME NEW f, NEW bad, NEW bad2, NEW H, NEW H2, FoundOk(f, bad, H), bad \subseteq bad2,
         f.area \in Areas \ bad2 => NamesKept(H[f.area], H2[f.area])
  PROVE  FoundOk(f, bad2, H2)
  BY DEF FoundOk, NamesKept, RecordOf

\* And a record number of a call.
LEMMA RecordKept ==
  ASSUME NEW rec, NEW n, NEW h, NEW h2, RecordOf(h, rec, n), NamesKept(h, h2)
  PROVE  RecordOf(h2, rec, n)
  BY DEF RecordOf, NamesKept

\* An area becomes bad when names move away from numbers that somebody holds.
LEMMA BadGrows ==
  ASSUME Numbering, clash \subseteq clash'
  PROVE  /\ Bad \subseteq Bad'
         /\ \A a \in Areas \ Bad' : Held(a) => NamesKept(hdr[a], hdr'[a])
         /\ \A n \in Nodes : \A k \in DOMAIN tags'[n] :
              \/ tags'[n][k].area \in Bad' \/ Numbers(tags'[n][k])
              \/ \E l \in DOMAIN tags[n] : tags[n][l] = tags'[n][k]
<1>1. Bad \subseteq Bad'
  BY DEF Numbering, Bad
<1>2. ASSUME NEW a \in Areas \ Bad', Held(a) PROVE NamesKept(hdr[a], hdr'[a])
  <2>1. ~Moved(a)
    BY <1>2 DEF Numbering, Bad
  <2>2. hdr'[a] # hdr[a] => \A i \in DOMAIN hdr[a] : i \in DOMAIN hdr'[a] /\ hdr'[a][i].name = hdr[a][i].name
    BY <1>2, <2>1 DEF Moved
  <2> QED BY <2>2 DEF NamesKept
<1>3. ASSUME NEW n \in Nodes, NEW k \in DOMAIN tags'[n], ~Numbers(tags'[n][k]),
             \A l \in DOMAIN tags[n] : tags[n][l] # tags'[n][k]
      PROVE  tags'[n][k].area \in Bad'
  <2> DEFINE mine(x) == {tags'[x][i].area : i \in {y \in DOMAIN tags'[x] :
            /\ \A l \in DOMAIN tags[x] : tags[x][l] # tags'[x][y]
            /\ ~Numbers(tags'[x][y])}}
  <2>1. tags'[n][k].area \in mine(n)
    BY <1>3
  <2>2. mine(n) \subseteq Strays
    BY DEF Strays
  <2> QED BY <2>1, <2>2 DEF Numbering, Bad
<1> QED BY <1>1, <1>2, <1>3

\* What a call holds stays true while the names it counts on keep their
\* numbers, the place it appends to is the end, and uploads only go.
LEMMA CallKept ==
  ASSUME NEW q, NEW j, NEW bad, NEW bad2, NEW H, NEW H2, NEW acc, NEW acc2,
         JobOk(q, j, bad, H, acc), bad \subseteq bad2,
         j.area \in Areas \ bad2 /\ j.at \in {"bump", "mark", "renew", "put"} => NamesKept(H[j.area], H2[j.area]),
         j.area \in Areas \ bad2 /\ j.at = "append" => Len(H2[j.area]) = Len(H[j.area]),
         j.area \in Areas \ bad2 /\ j.at \in {"empty", "write"} => \A x \in acc2 : x[1] = j.area => x \in acc
  PROVE  JobOk(q, j, bad2, H2, acc2)
<1> SUFFICES ASSUME j.at \notin {"idle", "done"}, j.area \notin bad2
             PROVE  j.area \in Areas /\ CallOk(q, j, H2[j.area], acc2)
  BY DEF JobOk
<1> DEFINE h == H[j.area]
           h2 == H2[j.area]
<1>1. j.area \in Areas /\ CallOk(q, j, h, acc)
  BY DEF JobOk
<1>2. j.at \in {"bump", "mark", "renew", "put"} => RecordOf(h2, j.rec, j.name)
  <2> SUFFICES ASSUME j.at \in {"bump", "mark", "renew", "put"} PROVE RecordOf(h2, j.rec, j.name)
    OBVIOUS
  <2>1. RecordOf(h, j.rec, j.name) /\ NamesKept(h, h2)
    BY <1>1 DEF CallOk
  <2> HIDE DEF h, h2
  <2> QED BY <2>1, RecordKept
<1>3. j.at = "append" => j.rec = Len(h2)
  BY <1>1 DEF CallOk
<1>4. j.at \in {"empty", "write"} =>
       /\ q = Keeper /\ j.ents \in Seq(Headers)
       /\ \A x \in acc2 : x[1] = j.area => \E i \in DOMAIN j.ents : Live(j.ents[i]) /\ j.ents[i].name = x[2]
  BY <1>1 DEF CallOk
<1> HIDE DEF h, h2
<1>5. CallOk(q, j, h2, acc2)
  BY <1>1, <1>2, <1>3, <1>4 DEF CallOk
<1> QED BY <1>1, <1>5 DEF h2

\* An upload stays where the headers of its area do not change.
LEMMA UploadKept ==
  ASSUME NEW x, NEW bad, NEW bad2, NEW H, NEW H2, NEW k, NEW k2, KeptOk(x, bad, H, k), bad \subseteq bad2,
         x[1] \in Areas \ bad2 => H2[x[1]] = H[x[1]],
         k2 = k \/ k.at # "write"
  PROVE  KeptOk(x, bad2, H2, k2)
  BY DEF KeptOk

\* The invariants after a step, from the values after it.
LEMMA JobsAfter ==
  ASSUME \A q \in Processes : JobOk(q, job'[q], Bad', hdr', accepted')
  PROVE  JobsInv'
  BY DEF JobsInv, JobOk, CallOk, RecordOf, Live

LEMMA KeepAfter ==
  ASSUME \A x \in accepted' : KeptOk(x, Bad', hdr', job'[Keeper])
  PROVE  KeepInv'
  BY DEF KeepInv, KeptOk, Has, Live

LEMMA HeadersAfter ==
  ASSUME \A a \in Areas \ Bad' : hdr'[a] \in Seq(Headers)
  PROVE  HeadersInv'
  BY DEF HeadersInv

LEMMA ShapeAfter ==
  ASSUME hdr' = [a \in Areas |-> hdr'[a]], tags' = [n \in Nodes |-> tags'[n]],
         disk' \in [Areas -> [Names -> Contents]],
         job' = [p \in Processes |-> job'[p]], \A p \in Processes : CallShape(job'[p]),
         bbs' = [n \in Nodes |-> bbs'[n]], \A n \in Nodes : MenuShape(bbs'[n])
  PROVE  Shape'
  BY DEF Shape, CallShape, MenuShape

---------------------------------------------------------------------------
(* Steps that write no headers. *)

Quiet == UNCHANGED <<hdr, clash, accepted>>

\* The call of one process may change, to one that holds what it should.
LEMMA QuietStep ==
  ASSUME Inv, Numbering, Quiet, NEW p \in Processes, JobMoves(p),
         \/ job'[p] = job[p]
         \/ /\ CallShape(job'[p]) /\ JobOk(p, job'[p], Bad, hdr, accepted)
            /\ p = Keeper => job[p].at # "write"
  PROVE  JobsInv' /\ KeepInv' /\ HeadersInv' /\ \A q \in Processes : CallShape(job'[q])
<1>1. Bad \subseteq Bad'
  BY BadGrows DEF Quiet
<1>2. ASSUME NEW q \in Processes PROVE JobOk(q, job'[q], Bad', hdr', accepted')
  <2>1. JobOk(q, job'[q], Bad, hdr, accepted)
    BY DEF Inv, JobsInv, JobMoves
  <2> DEFINE j == job'[q]
             b == Bad
             b2 == Bad'
  <2>2. NamesKept(hdr[j.area], hdr[j.area])
    BY DEF NamesKept
  <2> HIDE DEF j, b, b2
  <2>3. JobOk(q, j, b2, hdr, accepted)
    BY <1>1, <2>1, <2>2, CallKept DEF j, b, b2
  <2> QED BY <2>3 DEF Quiet, j, b2
<1>3. ASSUME NEW x \in accepted' PROVE KeptOk(x, Bad', hdr', job'[Keeper])
  <2>1. KeptOk(x, Bad, hdr, job[Keeper])
    BY <1>3 DEF Inv, KeepInv, Quiet
  <2>2. job'[Keeper] = job[Keeper] \/ job[Keeper].at # "write"
    BY FileMaintAssumption DEF JobMoves
  <2> DEFINE b == Bad
             b2 == Bad'
             k == job[Keeper]
             k2 == job'[Keeper]
  <2> HIDE DEF b, b2, k, k2
  <2>3. KeptOk(x, b2, hdr, k2)
    BY <1>1, <2>1, <2>2, UploadKept DEF b, b2, k, k2
  <2> QED BY <2>3 DEF Quiet, b2, k2
<1>4. HeadersInv'
  BY <1>1, HeadersAfter DEF Inv, HeadersInv, Quiet
<1>5. \A q \in Processes : CallShape(job'[q])
  BY DEF Inv, Shape, JobMoves
<1> QED BY <1>2, <1>3, <1>4, <1>5, JobsAfter, KeepAfter

\* A call that is done, or is about an area that is bad, may hold anything.
LEMMA CallEnds ==
  ASSUME NEW p \in Processes, NEW r, r.at \in {"idle", "done"} \/ r.area \in Bad
  PROVE  JobOk(p, r, Bad, hdr, accepted)
  BY DEF JobOk

\* A call that fails holds nothing.
LEMMA CallFails ==
  ASSUME Inv, NEW p \in Processes, NEW ok, Finish(p, ok)
  PROVE  JobMoves(p) /\ CallShape(job'[p]) /\ JobOk(p, job'[p], Bad, hdr, accepted)
<1>1. JobMoves(p) /\ CallShape(job'[p]) /\ job'[p].at = "done"
  BY SetDone DEF Inv, CallPcs, Finish
<1> QED BY <1>1, CallEnds

\* AddToFDB makes a live header of the file it found.
LEMMA CatalogReads ==
  ASSUME Inv, NEW p \in Processes, Catalog(p)
  PROVE  /\ Quiet /\ JobMoves(p) /\ CallShape(job'[p]) /\ JobOk(p, job'[p], Bad, hdr, accepted)
         /\ job[p].at = "catalog"
<1> DEFINE j == job[p]
           h == Header(j.name, disk[j.area][j.name], j.flags)
<1>1. JobOk(p, j, Bad, hdr, accepted) /\ j.at = "catalog" /\ Quiet
  BY DEF Inv, JobsInv, Catalog, Kept, Quiet
<1>2. CASE OnDisk(j.area, j.name) /\ job' = [job EXCEPT ![p].at = "stat", ![p].hdr = h]
  <2> DEFINE r == job'[p]
  <2>1. JobMoves(p) /\ CallShape(r) /\ r.at = "stat" /\ r.area = j.area /\ r.name = j.name /\ r.hdr = h
    <3> HIDE DEF h
    <3> QED BY <1>2, SetHdr DEF CallPcs, Inv
  <2>3. j.area \notin Bad => h \in Headers /\ h.name = j.name /\ Live(h) /\ j.area \in Areas
    <3> SUFFICES ASSUME j.area \notin Bad PROVE h \in Headers /\ h.name = j.name /\ Live(h) /\ j.area \in Areas
      OBVIOUS
    <3>1. j.area \in Areas /\ j.flags \subseteq Flags \ {"deleted"}
      BY <1>1 DEF JobOk, CallOk
    <3>2. j.name \in Names /\ disk[j.area][j.name] \in Contents
      BY <1>2, <3>1 DEF OnDisk, Inv, Shape
    <3> QED BY <3>1, <3>2 DEF Header, Headers, Live
  <2>4. JobOk(p, r, Bad, hdr, accepted)
    <3> HIDE DEF h, r
    <3> QED BY <2>1, <2>3 DEF JobOk, CallOk
  <2> QED BY <1>1, <2>1, <2>4
<1> QED BY <1>1, <1>2, CallFails DEF Catalog

\* appendFile takes the end of the headers for its place.
LEMMA StatReads ==
  ASSUME Inv, NEW p \in Processes, Stat(p)
  PROVE  /\ Quiet /\ JobMoves(p) /\ CallShape(job'[p]) /\ JobOk(p, job'[p], Bad, hdr, accepted)
         /\ job[p].at = "stat"
<1> DEFINE j == job[p]
           n == Len(hdr[j.area])
           r == job'[p]
<1>1. JobOk(p, j, Bad, hdr, accepted) /\ j.at = "stat" /\ Quiet
  BY DEF Inv, JobsInv, Stat, Kept, Quiet
<1>2. JobMoves(p) /\ CallShape(r) /\ r.at = "append" /\ r.area = j.area /\ r.name = j.name /\ r.rec = n /\ r.hdr = j.hdr
  BY SetRec DEF CallPcs, Inv, Stat
<1>3. JobOk(p, r, Bad, hdr, accepted)
  <2> HIDE DEF r
  <2> QED BY <1>1, <1>2 DEF JobOk, CallOk
<1> QED BY <1>1, <1>2, <1>3

\* BumpTimesDL and DELE change one field of the record they read.
LEMMA BumpReads ==
  ASSUME Inv, NEW p \in Processes, Bump(p) \/ Mark(p)
  PROVE  /\ Quiet /\ JobMoves(p) /\ CallShape(job'[p]) /\ JobOk(p, job'[p], Bad, hdr, accepted)
         /\ job[p].at \in {"bump", "mark"}
<1> DEFINE j == job[p]
           h == Record(j.area, j.rec)
           g1 == [h EXCEPT !.dl = @ + 1]
           g2 == [h EXCEPT !.flags = @ \cup {"deleted"}]
<1>1. JobOk(p, j, Bad, hdr, accepted) /\ j.at \in {"bump", "mark"} /\ Quiet
  BY DEF Inv, JobsInv, Bump, Mark, Quiet, Kept
<1>2. ASSUME j.area \notin Bad
      PROVE  j.area \in Areas /\ RecordOf(hdr[j.area], j.rec, j.name) /\ h \in Headers /\ h.name = j.name
  <2>1. j.area \in Areas /\ RecordOf(hdr[j.area], j.rec, j.name)
    BY <1>1, <1>2 DEF JobOk, CallOk
  <2>2. hdr[j.area] \in Seq(Headers)
    BY <1>2, <2>1 DEF Inv, HeadersInv
  <2> QED BY <2>1, <2>2, ElementOfSeq DEF RecordOf, Record
<1>3. ASSUME NEW g \in {g1, g2}, job' = [job EXCEPT ![p].at = "put", ![p].hdr = g]
      PROVE  JobMoves(p) /\ CallShape(job'[p]) /\ JobOk(p, job'[p], Bad, hdr, accepted)
  <2> DEFINE r == job'[p]
  <2>1. /\ JobMoves(p) /\ CallShape(r) /\ r.at = "put" /\ r.area = j.area /\ r.name = j.name
        /\ r.rec = j.rec /\ r.hdr = g
    <3> HIDE DEF g1, g2
    <3> QED BY <1>3, SetHdr DEF CallPcs, Inv
  <2>2. j.area \notin Bad => g \in Headers /\ g.name = j.name
    <3> SUFFICES ASSUME h \in Headers, h.name = j.name PROVE g \in Headers /\ g.name = j.name
      BY <1>2
    <3>1. ASSUME NEW x \in Headers
          PROVE  LET y == [x EXCEPT !.dl = @ + 1]
                     z == [x EXCEPT !.flags = @ \cup {"deleted"}]
                 IN y \in Headers /\ y.name = x.name /\ z \in Headers /\ z.name = x.name
      BY DEF Headers, Flags
    <3> HIDE DEF h
    <3> QED BY <3>1
  <2>3. JobOk(p, r, Bad, hdr, accepted)
    <3> HIDE DEF r, h, g1, g2
    <3> QED BY <1>2, <2>1, <2>2 DEF JobOk, CallOk
  <2> QED BY <2>1, <2>3
<1>4. \/ Finish(p, FALSE)
      \/ job' = [job EXCEPT ![p].at = "put", ![p].hdr = g1]
      \/ job' = [job EXCEPT ![p].at = "put", ![p].hdr = g2]
  BY DEF Bump, Mark
<1> QED BY <1>1, <1>3, <1>4, CallFails

\* A nonempty set of numbers has a least one.
LEMMA Least ==
  ASSUME NEW S \in SUBSET Nat, S # {}
  PROVE  \E n \in S : \A m \in S : n <= m
<1> DEFINE less == OpToRel(<, Nat)
<1>1. PICK n \in S : \A m \in S : ~(<<m, n>> \in less)
  BY NatLessThanWellFounded, WFMin
<1>2. ASSUME NEW m \in S PROVE ~(m < n)
  <2>1. m \in Nat /\ n \in Nat /\ <<m, n>> \in Nat \X Nat /\ <<m, n>>[1] = m /\ <<m, n>>[2] = n
    OBVIOUS
  <2> QED BY <1>1, <1>2, <2>1, Zenon DEF OpToRel
<1> HIDE DEF less
<1> QED BY <1>2

\* AfterUpload finds the first live record of the file.
LEMMA AfterReads ==
  ASSUME Inv, NEW p \in Processes, AfterUpload(p)
  PROVE  /\ Quiet /\ JobMoves(p) /\ CallShape(job'[p]) /\ JobOk(p, job'[p], Bad, hdr, accepted)
         /\ job[p].at = "after"
<1> DEFINE j == job[p]
           same == {k \in DOMAIN hdr[j.area] : Live(hdr[j.area][k]) /\ hdr[j.area][k].name = j.name}
           i == CHOOSE k \in same : \A l \in same : k <= l
           h == [hdr[j.area][i] EXCEPT !.size = disk[j.area][j.name]]
           rec == i - 1
           r == job'[p]
<1>1. JobOk(p, j, Bad, hdr, accepted) /\ j.at = "after" /\ Quiet
  BY DEF Inv, JobsInv, AfterUpload, Kept, Quiet
<1>2. CASE Proceed(p, "catalog")
  <2>1. JobMoves(p) /\ CallShape(r) /\ r.at = "catalog" /\ r.area = j.area /\ r.flags = j.flags
    BY <1>2, SetAt DEF CallPcs, Inv, Proceed
  <2>2. JobOk(p, r, Bad, hdr, accepted)
    <3> HIDE DEF r
    <3> QED BY <1>1, <1>2, <2>1 DEF JobOk, CallOk
  <2> QED BY <1>1, <2>1, <2>2
<1>3. CASE OnDisk(j.area, j.name) /\ same # {} /\ job' = [job EXCEPT ![p].at = "renew", ![p].rec = rec, ![p].hdr = h]
  <2>1. /\ JobMoves(p) /\ CallShape(r) /\ r.at = "renew" /\ r.area = j.area /\ r.name = j.name
        /\ r.rec = rec /\ r.hdr = h
    <3> DEFINE g == [j EXCEPT !.at = "renew", !.rec = rec, !.hdr = h]
    <3> HIDE DEF h, rec
    <3>1. CallShape(j) /\ job = [q \in Processes |-> job[q]]
      BY DEF Inv, Shape
    <3>2. JobMoves(p) /\ job'[p] = g
      BY <1>3, <3>1 DEF JobMoves
    <3>3. CallShape(g) /\ g.at = "renew" /\ g.area = j.area /\ g.name = j.name
      BY <3>1 DEF CallShape, CallPcs
    <3>4. g.rec = rec /\ g.hdr = h
      BY <3>1 DEF CallShape
    <3> HIDE DEF g
    <3> QED BY <3>2, <3>3, <3>4
  <2>2. ASSUME j.area \notin Bad
        PROVE  j.area \in Areas /\ RecordOf(hdr[j.area], rec, j.name) /\ h \in Headers /\ h.name = j.name /\ Live(h)
    <3>1. j.area \in Areas /\ hdr[j.area] \in Seq(Headers)
      BY <1>1, <2>2 DEF JobOk, Inv, HeadersInv
    <3> DEFINE s == hdr[j.area]
    <3>2. same \in SUBSET (1 .. Len(s)) /\ Len(s) \in Nat
      BY <3>1
    <3>3. \E n \in same : \A m \in same : n <= m
      <4> HIDE DEF same, i, h, rec
      <4>1. same \in SUBSET Nat /\ same # {}
        BY <1>3, <3>2
      <4> QED BY <4>1, Least
    <3>4. i \in same
      <4> HIDE DEF same
      <4> QED BY <3>3
    <3>5. i \in 1 .. Len(s) /\ Live(s[i]) /\ s[i].name = j.name /\ s[i] \in Headers
      <4> HIDE DEF i
      <4> QED BY <3>1, <3>2, <3>4, ElementOfSeq
    <3>6. RecordOf(s, rec, j.name)
      <4> HIDE DEF i
      <4> QED BY <3>1, <3>2, <3>5 DEF RecordOf
    <3>7. disk[j.area][j.name] \in Contents
      BY <1>3, <3>1 DEF OnDisk, Inv, Shape
    <3>8. ASSUME NEW x \in Headers, NEW c \in Contents, Live(x)
          PROVE  LET y == [x EXCEPT !.size = c] IN y \in Headers /\ y.name = x.name /\ Live(y)
      BY <3>8 DEF Headers, Live
    <3>9. h \in Headers /\ h.name = j.name /\ Live(h)
      <4> HIDE DEF i
      <4> QED BY <3>5, <3>7, <3>8
    <3> QED BY <3>1, <3>6, <3>9
  <2>3. JobOk(p, r, Bad, hdr, accepted)
    <3> HIDE DEF r, h, rec
    <3> QED BY <2>1, <2>2 DEF JobOk, CallOk
  <2> QED BY <1>1, <2>1, <2>3
<1> QED BY <1>1, <1>2, <1>3, CallFails DEF AfterUpload

\* The steps of the calls up to their write.
LEMMA QuietCalls ==
  ASSUME Inv, Numbering, NEW p \in Processes,
         Catalog(p) \/ Stat(p) \/ AfterUpload(p) \/ Bump(p) \/ Mark(p)
  PROVE  Quiet /\ JobMoves(p) /\ JobsInv' /\ KeepInv' /\ HeadersInv' /\ \A q \in Processes : CallShape(job'[q])
<1>1. /\ Quiet /\ JobMoves(p) /\ CallShape(job'[p]) /\ JobOk(p, job'[p], Bad, hdr, accepted)
      /\ job[p].at # "write"
  BY CatalogReads, StatReads, AfterReads, BumpReads
<1> QED BY <1>1, QuietStep

\* The steps of a caller's session, and the calls they begin and end.
LEMMA SessionQuiet ==
  ASSUME NEW n \in Nodes, SessionStep(n)
  PROVE  Quiet
<1>1. CASE Download(n) \/ Edit(n) \/ EditEnds(n) \/ StartDownload(n) \/ Sending(n) \/ LocalDownload(n)
  BY <1>1 DEF Download, Edit, EditEnds, StartDownload, Sending, LocalDownload, NoCall, Quiet
<1>2. CASE CountNext(n) \/ Counted(n) \/ DownloadEnds(n) \/ Upload(n) \/ LocalUpload(n) \/ StartUpload(n)
  BY <1>2 DEF CountNext, Counted, DownloadEnds, Upload, LocalUpload, StartUpload, NoCall, Quiet
<1>3. CASE Receive(n) \/ CheckUpload(n) \/ Describe(n) \/ Uploaded(n) \/ UploadEnds(n) \/ Lose(n)
  BY <1>3 DEF Receive, CheckUpload, Describe, Uploaded, UploadEnds, Lose, NoCall, Quiet
<1> QED BY <1>1, <1>2, <1>3 DEF SessionStep

\* No call changes.
LEMMA JobStays ==
  ASSUME Shape, NEW p \in Processes, UNCHANGED job
  PROVE  JobMoves(p) /\ job'[p] = job[p]
  BY DEF JobMoves, Shape

\* A session begins the counts of its tags and catalogues into its area.
LEMMA SessionCall ==
  ASSUME Inv, NEW n \in Nodes, SessionStep(n)
  PROVE  /\ JobMoves(n)
         /\ job'[n] = job[n] \/ (CallShape(job'[n]) /\ JobOk(n, job'[n], Bad, hdr, accepted))
<1>0. n \in Processes /\ Shape
  BY FileSessionAssumption DEF Inv
<1>1. CASE UNCHANGED job
  BY <1>0, <1>1, JobStays
<1>2. CASE job' = [job EXCEPT ![n] = Idle]
  BY <1>0, <1>2, IdleFacts, JobSet, CallEnds
<1>3. CASE CountNext(n)
  <2>1. CASE UNCHANGED job
    BY <1>1, <2>1
  <2>2. CASE \E i \in DOMAIN bbs[n].found :
               LET f == bbs[n].found[i] IN job' = [job EXCEPT ![n] = Call("bump", f.area, f.tag, f.rec)]
    <3>1. PICK i \in DOMAIN bbs[n].found :
                 LET f == bbs[n].found[i] IN job' = [job EXCEPT ![n] = Call("bump", f.area, f.tag, f.rec)]
      BY <2>2
    <3> DEFINE f == bbs[n].found[i]
               c == Call("bump", f.area, f.tag, f.rec)
    <3>2. FoundOk(f, Bad, hdr)
      BY DEF Inv, MenusInv, MenuOk
    <3>3. CallShape(c) /\ c.at = "bump" /\ c.area = f.area /\ c.name = f.tag /\ c.rec = f.rec
      <4> HIDE DEF f
      <4> QED BY CallFacts DEF CallPcs
    <3>4. JobOk(n, c, Bad, hdr, accepted)
      <4> HIDE DEF f, c
      <4> QED BY <3>2, <3>3 DEF FoundOk, JobOk, CallOk
    <3> HIDE DEF c
    <3>5. job' = [job EXCEPT ![n] = c]
      BY <3>1 DEF c
    <3> QED BY <1>0, <3>3, <3>4, <3>5, JobSet
  <2> QED BY <1>3, <2>1, <2>2 DEF CountNext
<1>4. CASE Describe(n)
  <2>1. CASE \E fl \in {{}, {"unlisted", "notavail"}} :
               job' = [job EXCEPT ![n] = [Call("catalog", bbs[n].cmd.area, Head(bbs[n].names), 0) EXCEPT !.flags = fl]]
    <3>1. PICK fl \in {{}, {"unlisted", "notavail"}} :
               job' = [job EXCEPT ![n] = [Call("catalog", bbs[n].cmd.area, Head(bbs[n].names), 0) EXCEPT !.flags = fl]]
      BY <2>1
    <3> DEFINE a == bbs[n].cmd.area
               name == Head(bbs[n].names)
               c == Call("catalog", a, name, 0)
               r == [c EXCEPT !.flags = fl]
    <3>2. CallShape(c) /\ c.at = "catalog" /\ c.area = a
      <4> HIDE DEF a, name
      <4> QED BY CallFacts DEF CallPcs
    <3>3. a \in Areas
      BY <1>4 DEF Describe, At, Inv, MenusInv, MenuOk, UploadPcs
    <3>4. CallShape(r) /\ r.at = "catalog" /\ r.area = a /\ r.flags = fl
      <4> HIDE DEF c
      <4> QED BY <3>2 DEF CallShape
    <3>5. JobOk(n, r, Bad, hdr, accepted)
      <4> HIDE DEF a, r
      <4> QED BY <3>3, <3>4 DEF JobOk, CallOk, Flags
    <3> HIDE DEF r
    <3>6. job' = [job EXCEPT ![n] = r]
      BY <3>1 DEF r
    <3> QED BY <1>0, <3>4, <3>5, <3>6, JobSet
  <2> QED BY <1>1, <1>4, <2>1 DEF Describe
<1>5. UNCHANGED job \/ job' = [job EXCEPT ![n] = Idle] \/ CountNext(n) \/ Describe(n)
  <2>1. CASE Download(n) \/ Edit(n) \/ EditEnds(n) \/ StartDownload(n) \/ Sending(n) \/ LocalDownload(n)
    BY <2>1 DEF Download, Edit, EditEnds, StartDownload, Sending, LocalDownload, NoCall
  <2>2. CASE Counted(n) \/ DownloadEnds(n) \/ Upload(n) \/ LocalUpload(n) \/ StartUpload(n)
    BY <2>2 DEF Counted, DownloadEnds, Upload, LocalUpload, StartUpload, NoCall
  <2>3. CASE Receive(n) \/ CheckUpload(n) \/ Uploaded(n) \/ UploadEnds(n) \/ Lose(n)
    BY <2>3 DEF Receive, CheckUpload, Uploaded, UploadEnds, Lose, NoCall
  <2> QED BY <2>1, <2>2, <2>3 DEF SessionStep
<1> QED BY <1>1, <1>2, <1>3, <1>4, <1>5

\* The steps of an FTP session, and the calls they begin and end.
LEMMA FtpKinds ==
  ASSUME NEW c \in Conns, FtpStep(c)
  PROVE  /\ Quiet
         /\ \/ UNCHANGED job \/ job' = [job EXCEPT ![c] = Idle]
            \/ CopyEnds(c) \/ \E p \in Paths : CmdDele(c, p)
<1>1. CASE Accept(c) \/ Refuse(c) \/ Leave(c) \/ OpenData(c) \/ StorEnds(c) \/ DeleEnds(c) \/ CopyEnds(c)
  BY <1>1 DEF Accept, Refuse, Leave, OpenData, StorEnds, DeleEnds, CopyEnds, NoJob, Quiet
<1>2. CASE Command(c)
  <2>1. CASE \E u \in Users \cup {"anonymous"} : CmdUser(c, u)
    BY <2>1 DEF CmdUser, Answers, NoJob, Quiet
  <2>2. CASE \E right \in BOOLEAN : CmdPass(c, right) \/ CmdPasv(c, right) \/ CmdPort(c, right) \/ CmdRest(c, right)
    BY <2>2 DEF CmdPass, CmdPasv, CmdPort, CmdRest, Answers, NoJob, Quiet
  <2>3. CASE CmdCdup(c) \/ CmdList(c)
    BY <2>3 DEF CmdCdup, CmdList, Answers, NoJob, Quiet
  <2>4. CASE \E p \in Paths : CmdCwd(c, p)
    BY <2>4 DEF CmdCwd, Answers, NoJob, Quiet
  <2>5. CASE \E p \in Paths : CmdRetr(c, p)
    BY <2>5 DEF CmdRetr, Answers, NoJob, Quiet
  <2>6. CASE \E p \in Paths : CmdDele(c, p)
    <3>1. PICK p \in Paths : CmdDele(c, p)
      BY <2>6
    <3>2. Quiet
      BY <3>1 DEF CmdDele, Answers, NoJob, Quiet
    <3> QED BY <2>6, <3>2
  <2>7. CASE \E n \in Stored : CmdStor(c, n)
    BY <2>7 DEF CmdStor, Answers, NoJob, Quiet
  <2> QED BY <1>2, <2>1, <2>2, <2>3, <2>4, <2>5, <2>6, <2>7 DEF Command
<1> QED BY <1>1, <1>2 DEF FtpStep, Serve

\* An FTP session begins a call for what it received or found.
LEMMA FtpCall ==
  ASSUME Inv, NEW c \in Conns, FtpStep(c)
  PROVE  /\ JobMoves(c)
         /\ job'[c] = job[c] \/ (CallShape(job'[c]) /\ JobOk(c, job'[c], Bad, hdr, accepted))
<1>0. c \in Processes /\ Shape
  BY FtpAssumption DEF Inv
<1>1. CASE UNCHANGED job
  BY <1>0, <1>1, JobStays
<1>2. CASE job' = [job EXCEPT ![c] = Idle]
  BY <1>0, <1>2, IdleFacts, JobSet, CallEnds
<1>3. CASE CopyEnds(c)
  <2> DEFINE s == ftp[c]
             a == s.file.area
             name == s.file.name
             j == Call("after", a, name, 0)
  <2>1. CASE UNCHANGED job
    BY <1>1, <2>1
  <2>2. CASE s.op = "stor" /\ job' = [job EXCEPT ![c] = j]
    <3>1. a \in Areas
      BY <2>2 DEF Inv, FtpInv, Sound, MayTransfer
    <3>2. CallShape(j) /\ j.at = "after" /\ j.area = a /\ j.flags = {}
      <4> HIDE DEF a, name
      <4> QED BY CallFacts DEF CallPcs
    <3>3. JobOk(c, j, Bad, hdr, accepted)
      <4> HIDE DEF a, j
      <4> QED BY <3>1, <3>2 DEF JobOk, CallOk
    <3> HIDE DEF j
    <3> QED BY <1>0, <2>2, <3>2, <3>3, JobSet
  <2> QED BY <1>3, <2>1, <2>2 DEF CopyEnds
<1>4. CASE \E p \in Paths : CmdDele(c, p)
  <2>1. PICK p \in Paths : CmdDele(c, p)
    BY <1>4
  <2> DEFINE j(f) == Call("mark", f.area, f.name, f.rec)
  <2>2. UNCHANGED job \/ \E f \in FindFile(ftp[c], p) : f.area \in Stores[ftp[c].user] /\ job' = [job EXCEPT ![c] = j(f)]
    BY <2>1 DEF CmdDele, Answers, NoJob
  <2>3. ASSUME NEW f \in FindFile(ftp[c], p), f.area \in Stores[ftp[c].user], job' = [job EXCEPT ![c] = j(f)]
        PROVE  JobMoves(c) /\ CallShape(job'[c]) /\ JobOk(c, job'[c], Bad, hdr, accepted)
    <3> DEFINE r == j(f)
    <3>1. f.area \in Areas
      BY <2>3, FtpAssumption DEF Inv, FtpInv, Sound
    <3>2. PICK i \in DOMAIN hdr[f.area] : f = [area |-> f.area, name |-> hdr[f.area][i].name, rec |-> i - 1]
      BY FoundFile
    <3>3. f.name = hdr[f.area][i].name /\ f.rec = i - 1
      BY <3>2
    <3>4. f.area \notin Bad => RecordOf(hdr[f.area], f.rec, f.name)
      <4> SUFFICES ASSUME f.area \notin Bad PROVE RecordOf(hdr[f.area], f.rec, f.name)
        OBVIOUS
      <4>1. hdr[f.area] \in Seq(Headers)
        BY <3>1 DEF Inv, HeadersInv
      <4>2. i \in Nat /\ i > 0 /\ i - 1 \in Nat /\ (i - 1) + 1 = i
        BY <4>1
      <4> QED BY <3>3, <4>2 DEF RecordOf
    <3>5. CallShape(r) /\ r.at = "mark" /\ r.area = f.area /\ r.name = f.name /\ r.rec = f.rec
      BY CallFacts DEF CallPcs
    <3>6. JobOk(c, r, Bad, hdr, accepted)
      <4> HIDE DEF r
      <4> QED BY <3>1, <3>4, <3>5 DEF JobOk, CallOk
    <3> HIDE DEF r
    <3>7. job' = [job EXCEPT ![c] = r]
      BY <2>3 DEF r
    <3> QED BY <1>0, <3>5, <3>6, <3>7, JobSet
  <2> QED BY <1>1, <2>2, <2>3
<1> QED BY <1>1, <1>2, <1>3, <1>4, FtpKinds

---------------------------------------------------------------------------
(* Tags, and the files that are sent or counted. *)

\* The tags and the menus after a step, from the values after it.
LEMMA TagsAfter ==
  ASSUME \A n \in Nodes : \A i \in DOMAIN tags'[n] : TagOk(tags'[n][i], Bad', hdr')
  PROVE  TagsInv'
  BY DEF TagsInv, TagOk

\* A tag is old and its record keeps its name, or it is new and was checked.
LEMMA TagsStep ==
  ASSUME Inv, Numbering, clash \subseteq clash', UNCHANGED tags \/ UNCHANGED hdr
  PROVE  TagsInv' /\ \A n \in Nodes : \A i \in DOMAIN tags'[n] : TagOk(tags'[n][i], Bad', hdr')
<1>1. ASSUME NEW n \in Nodes, NEW i \in DOMAIN tags'[n] PROVE TagOk(tags'[n][i], Bad', hdr')
  <2> DEFINE t == tags'[n][i]
             b == Bad
             b2 == Bad'
  <2>1. CASE \E l \in DOMAIN tags[n] : tags[n][l] = t
    <3>1. PICK l \in DOMAIN tags[n] : tags[n][l] = t
      BY <2>1
    <3>2. TagOk(t, b, hdr)
      BY <3>1 DEF Inv, TagsInv
    <3>3. t.area \in Areas \ b2 => NamesKept(hdr[t.area], hdr'[t.area])
      <4> SUFFICES ASSUME t.area \in Areas \ b2 PROVE NamesKept(hdr[t.area], hdr'[t.area])
        OBVIOUS
      <4>1. Held(t.area)
        BY <3>1 DEF Held
      <4> QED BY <4>1, BadGrows
    <3>4. b \subseteq b2
      BY BadGrows
    <3> HIDE DEF t, b, b2
    <3>5. TagOk(t, b2, hdr')
      BY <3>2, <3>3, <3>4, TagKept
    <3> QED BY <3>5 DEF t, b2
  <2>2. CASE ~\E l \in DOMAIN tags[n] : tags[n][l] = t
    <3>1. t.area \in b2 \/ Numbers(t)
      BY <2>2, BadGrows
    <3>2. UNCHANGED hdr
      BY <2>2
    <3> HIDE DEF t, b2
    <3>3. TagOk(t, b2, hdr')
      BY <3>1, <3>2 DEF TagOk, Numbers
    <3> QED BY <3>3 DEF t, b2
  <2> QED BY <2>1, <2>2
<1> QED BY <1>1, TagsAfter

\* The file of a tag that has the number and the name of its record is under
\* that name and number.
LEMMA FoundOfTags ==
  ASSUME NEW list, NEW bad, \A i \in DOMAIN list : TagOk(list[i], bad, hdr),
         \A a \in Areas \ bad : hdr[a] \in Seq(Headers)
  PROVE  \A i \in DOMAIN FoundFromTags(list) : FoundOk(FoundFromTags(list)[i], bad, hdr)
<1> DEFINE found == FoundFromTags(list)
<1> SUFFICES ASSUME NEW i \in DOMAIN found PROVE FoundOk(found[i], bad, hdr)
  BY Zenon
<1> DEFINE t == list[i]
           f == found[i]
           name == TagFile(t)
<1>1. i \in DOMAIN list /\ f = [area |-> t.area, name |-> name, rec |-> t.rec - 1, tag |-> t.name]
  BY Zenon DEF FoundFromTags
<1>2. f.area = t.area /\ f.name = name /\ f.rec = t.rec - 1 /\ f.tag = t.name
  <2> HIDE DEF f, name, t
  <2> QED BY <1>1
<1>3. CASE t.area \in bad
  <2> HIDE DEF f, name, t
  <2>1. FoundOk(f, bad, hdr)
    BY <1>2, <1>3 DEF FoundOk
  <2> QED BY <2>1 DEF f
<1>4. CASE t.area \notin bad
  <2> DEFINE h == hdr[t.area]
  <2>1. t.area \in Areas /\ t.rec \in DOMAIN h /\ h[t.rec].name = t.name /\ h \in Seq(Headers)
    BY <1>1, <1>4 DEF TagOk
  <2>2. t.rec - 1 \in Nat /\ (t.rec - 1) + 1 = t.rec /\ t.rec - 1 < Len(h)
    <3> HIDE DEF h, t
    <3> QED BY <2>1
  <2>3. DisplayName(t) = t.name
    <3>1. Record(t.area, t.rec - 1).name = t.name
      BY <2>1, <2>2 DEF Record
    <3> HIDE DEF t
    <3> QED BY <3>1 DEF DisplayName
  <2>4. name = t.name
    BY <2>3 DEF TagFile
  <2>5. RecordOf(h, t.rec - 1, t.name)
    BY <2>1, <2>2 DEF RecordOf
  <2>6. FoundOk(f, bad, hdr)
    <3> HIDE DEF f, name, t
    <3> QED BY <1>2, <2>1, <2>4, <2>5 DEF FoundOk
  <2> QED BY <2>6
<1> QED BY <1>3, <1>4

\* The menus after a step.
LEMMA MenusAfter ==
  ASSUME \A n \in Nodes : MenuOk(bbs'[n], Bad', hdr')
  PROVE  MenusInv'
  BY DEF MenusInv, MenuOk, FoundOk, RecordOf

\* What is still to be sent or counted keeps its name at its number.
LEMMA MenusStep ==
  ASSUME Inv, Numbering, clash \subseteq clash',
         \A n \in Nodes : bbs'[n] = bbs[n] \/ MenuOk(bbs'[n], Bad', hdr')
  PROVE  MenusInv'
<1> SUFFICES ASSUME NEW n \in Nodes, bbs'[n] = bbs[n] PROVE MenuOk(bbs'[n], Bad', hdr')
  BY MenusAfter
<1> DEFINE s == bbs[n]
           b == Bad
           b2 == Bad'
<1>1. MenuOk(s, b, hdr)
  BY DEF Inv, MenusInv
<1>2. ASSUME NEW i \in DOMAIN s.found PROVE FoundOk(s.found[i], b2, hdr')
  <2> DEFINE f == s.found[i]
  <2>1. FoundOk(f, b, hdr)
    BY <1>1, <1>2 DEF MenuOk
  <2>2. f.area \in Areas \ b2 => NamesKept(hdr[f.area], hdr'[f.area])
    <3> SUFFICES ASSUME f.area \in Areas \ b2 PROVE NamesKept(hdr[f.area], hdr'[f.area])
      OBVIOUS
    <3>1. Held(f.area)
      BY <1>2 DEF Held
    <3> QED BY <3>1, BadGrows
  <2>3. b \subseteq b2
    BY BadGrows
  <2> HIDE DEF f, b, b2
  <2>4. FoundOk(f, b2, hdr')
    BY <2>1, <2>2, <2>3, FoundKept
  <2> QED BY <2>4 DEF f
<1> HIDE DEF s, b, b2
<1>3. MenuOk(s, b2, hdr')
  BY <1>1, <1>2 DEF MenuOk
<1> QED BY <1>3 DEF s, b2

\* A session's record that has its fields and is about what it should.
Fit(s, bad, H) == MenuShape(s) /\ MenuOk(s, bad, H)

\* The fields that no invariant is about.
LEMMA FitSets ==
  ASSUME NEW s, NEW bad, NEW H, Fit(s, bad, H), NEW v
  PROVE  /\ Fit([s EXCEPT !.sent = v], bad, H) /\ Fit([s EXCEPT !.off = v], bad, H)
         /\ Fit([s EXCEPT !.names = v], bad, H) /\ Fit([s EXCEPT !.before = v], bad, H)
         /\ Fit([s EXCEPT !.dead = v], bad, H)
<1>1. Fit([s EXCEPT !.sent = v], bad, H)
  BY DEF Fit, MenuShape, MenuOk
<1>2. Fit([s EXCEPT !.off = v], bad, H)
  BY DEF Fit, MenuShape, MenuOk
<1>3. Fit([s EXCEPT !.names = v], bad, H)
  BY DEF Fit, MenuShape, MenuOk
<1>4. Fit([s EXCEPT !.before = v], bad, H)
  BY DEF Fit, MenuShape, MenuOk
<1>5. Fit([s EXCEPT !.dead = v], bad, H)
  BY DEF Fit, MenuShape, MenuOk
<1> QED BY <1>1, <1>2, <1>3, <1>4, <1>5

\* The place in the menus.
LEMMA FitAt ==
  ASSUME NEW s, NEW bad, NEW H, Fit(s, bad, H), NEW at \in MenuPcs, at \in UploadPcs => s.cmd.area \in Areas
  PROVE  Fit([s EXCEPT !.at = at], bad, H)
  BY DEF Fit, MenuShape, MenuOk

\* The files to send and count.
LEMMA FitFound ==
  ASSUME NEW s, NEW bad, NEW H, Fit(s, bad, H), NEW found, \A i \in DOMAIN found : FoundOk(found[i], bad, H)
  PROVE  Fit([s EXCEPT !.found = found], bad, H)
  BY DEF Fit, MenuShape, MenuOk

\* The command.
LEMMA FitCmd ==
  ASSUME NEW s, NEW bad, NEW H, Fit(s, bad, H), NEW c, c.area \in Areas
  PROVE  Fit([s EXCEPT !.cmd = c], bad, H) /\ [s EXCEPT !.cmd = c].cmd = c
  BY DEF Fit, MenuShape, MenuOk

\* At the menu nothing is to be sent.
LEMMA FitMenu ==
  ASSUME NEW bad, NEW H
  PROVE  Fit(AtMenu, bad, H)
<1> DEFINE s == AtMenu
<1>1. MenuShape(s)
  BY DEF AtMenu, MenuShape, MenuPcs
<1>2. s.found = <<>> /\ s.at = "menu"
  BY DEF AtMenu
<1> HIDE DEF s
<1>3. Fit(s, bad, H)
  BY <1>1, <1>2 DEF Fit, MenuOk, UploadPcs
<1> QED BY <1>3 DEF s

\* Back at the menu.
LEMMA FitBack ==
  ASSUME NEW bad, NEW H, NEW n
  PROVE  Fit(Back(n), bad, H)
<1> DEFINE s == AtMenu
           d == bbs[n].dead
<1>1. Fit(s, bad, H)
  BY FitMenu
<1> HIDE DEF s, d
<1>2. Fit([s EXCEPT !.dead = d], bad, H)
  BY <1>1, FitSets
<1> QED BY <1>2 DEF s, d, Back

\* One session changes its record.
LEMMA FitMoves ==
  ASSUME Shape, NEW n \in Nodes, NEW s, NEW bad, NEW H, Fit(s, bad, H), Goto(n, s)
  PROVE  bbs' = [m \in Nodes |-> bbs'[m]] /\ bbs'[n] = s /\ \A m \in Nodes \ {n} : bbs'[m] = bbs[m]
  BY DEF Shape, Goto

\* transferDownloads takes the files of the tags.
LEMMA FitTransfers ==
  ASSUME NEW n, NEW list, NEW bad, \A i \in DOMAIN list : TagOk(list[i], bad, hdr),
         \A a \in Areas \ bad : hdr[a] \in Seq(Headers), NEW r \in Transfers(n, list)
  PROVE  Fit(r, bad, hdr)
<1> DEFINE f == FoundFromTags(list)
           back == Back(n)
           s == [back EXCEPT !.found = f]
           s1 == [s EXCEPT !.at = "mvdir"]
           s2 == [s EXCEPT !.at = "start"]
<1>1. Fit(back, bad, hdr)
  BY FitBack
<1>2. \A i \in DOMAIN f : FoundOk(f[i], bad, hdr)
  BY FoundOfTags
<1>3. Fit(s, bad, hdr)
  <2> HIDE DEF f, back
  <2> QED BY <1>1, <1>2, FitFound
<1>4. Fit(s1, bad, hdr) /\ Fit(s2, bad, hdr)
  <2> HIDE DEF s
  <2> QED BY <1>3, FitAt DEF MenuPcs, UploadPcs
<1>5. r = back \/ r = s1 \/ r = s2
  BY Zenon DEF Transfers
<1> QED BY <1>1, <1>4, <1>5

\* A step of a session leaves its record as it is or fit.
FitStep(n, bad) == UNCHANGED bbs \/ \E s : Goto(n, s) /\ Fit(s, bad, hdr)

\* Every session fits now, for all that are bad now or after the step.
LEMMA FitNow ==
  ASSUME Inv, NEW n \in Nodes, NEW bad, Bad \subseteq bad
  PROVE  Fit(bbs[n], bad, hdr) /\ \A a \in Areas \ bad : hdr[a] \in Seq(Headers)
<1> DEFINE s == bbs[n]
           b == Bad
<1>1. MenuShape(s) /\ MenuOk(s, b, hdr) /\ b \subseteq bad
  BY DEF Inv, Shape, MenusInv
<1>2. \A a \in Areas \ bad : hdr[a] \in Seq(Headers)
  BY DEF Inv, HeadersInv
<1> HIDE DEF s, b
<1>3. Fit(s, bad, hdr)
  BY <1>1 DEF Fit, MenuOk, FoundOk
<1> QED BY <1>2, <1>3 DEF s

\* Commands that take the files of the tags.
LEMMA FitDownload ==
  ASSUME Inv, NEW n \in Nodes, NEW bad, Bad \subseteq bad, Download(n) \/ EditEnds(n),
         \A i \in DOMAIN tags'[n] : TagOk(tags'[n][i], bad, hdr)
  PROVE  FitStep(n, bad)
<1>0. \A a \in Areas \ bad : hdr[a] \in Seq(Headers)
  BY FitNow
<1> DEFINE back == Back(n)
<1>1. Fit(back, bad, hdr)
  BY FitBack
<1>2. ASSUME NEW s \in Transfers(n, tags'[n]), Goto(n, s) PROVE FitStep(n, bad)
  <2> DEFINE list == tags'[n]
  <2> HIDE DEF list
  <2>1. Fit(s, bad, hdr)
    BY <1>0, <1>2, FitTransfers DEF list
  <2> QED BY <1>2, <2>1 DEF FitStep
<1>3. CASE Download(n)
  <2>1. PICK c \in Commands :
          IF c.cmd = "specific"
            THEN \E list \in {AddNamesToTag(n, c.names, c.area, c.global, c.any)} :
                   /\ tags' = [tags EXCEPT ![n] = list]
                   /\ \E s \in Transfers(n, list) : Goto(n, s)
            ELSE Goto(n, [Back(n) EXCEPT !.at = "edit", !.cmd = c]) /\ UNCHANGED tags
    BY <1>3, Zenon DEF Download
  <2>2. CASE c.cmd = "specific"
    <3>1. PICK list \in {AddNamesToTag(n, c.names, c.area, c.global, c.any)} :
                   /\ tags' = [tags EXCEPT ![n] = list]
                   /\ \E s \in Transfers(n, list) : Goto(n, s)
      BY <2>1, <2>2
    <3>2. tags'[n] = list
      BY <3>1 DEF Inv, Shape
    <3> QED BY <1>2, <3>1, <3>2
  <2>3. CASE c.cmd # "specific"
    <3> DEFINE s == [back EXCEPT !.at = "edit", !.cmd = c]
    <3>1. c.area \in Areas
      BY FileSessionAssumption
    <3>2. Fit(s, bad, hdr)
      <4> HIDE DEF back
      <4>1. Fit([back EXCEPT !.at = "edit"], bad, hdr)
        BY <1>1, FitAt DEF MenuPcs, UploadPcs
      <4> QED BY <3>1, <4>1, FitCmd
    <3>3. Goto(n, s)
      BY <2>1, <2>3
    <3> HIDE DEF s
    <3> QED BY <3>2, <3>3 DEF FitStep
  <2> QED BY <2>2, <2>3
<1>4. CASE EditEnds(n)
  <2>1. tags'[n] = tags[n]
    BY <1>4 DEF EditEnds
  <2>2. Goto(n, back) \/ \E s \in Transfers(n, tags[n]) : Goto(n, s)
    BY <1>4 DEF EditEnds
  <2> HIDE DEF back
  <2> QED BY <1>1, <1>2, <2>1, <2>2 DEF FitStep
<1> QED BY <1>3, <1>4

\* Sending and counting take files away.
LEMMA FitSending ==
  ASSUME Inv, NEW n \in Nodes, NEW bad, Bad \subseteq bad,
         StartDownload(n) \/ Sending(n) \/ LocalDownload(n) \/ CountNext(n) \/ Counted(n) \/ DownloadEnds(n)
  PROVE  FitStep(n, bad)
<1> DEFINE o == bbs[n]
           back == Back(n)
<1>1. Fit(o, bad, hdr) /\ Fit(back, bad, hdr)
  BY FitNow, FitBack
<1>2. \A i \in DOMAIN o.found : FoundOk(o.found[i], bad, hdr)
  BY <1>1 DEF Fit, MenuOk
<1>3. CASE StartDownload(n)
  <2>1. ASSUME NEW off \in BOOLEAN PROVE Fit([o EXCEPT !.at = "sending", !.off = off], bad, hdr)
    <3> HIDE DEF o
    <3>1. Fit([o EXCEPT !.at = "sending"], bad, hdr)
      BY <1>1, FitAt DEF MenuPcs, UploadPcs
    <3> QED BY <3>1, FitSets
  <2>2. Goto(n, back) \/ \E off \in BOOLEAN : Goto(n, [o EXCEPT !.at = "sending", !.off = off])
    BY <1>3 DEF StartDownload
  <2> HIDE DEF back
  <2> QED BY <1>1, <2>1, <2>2 DEF FitStep
<1>4. CASE Sending(n)
  <2>1. PICK S \in SUBSET DOMAIN o.found : Goto(n, [o EXCEPT !.at = "next", !.found = [i \in S |-> bbs[n].found[i]]])
    BY <1>4, Zenon DEF Sending
  <2> DEFINE found == [i \in S |-> bbs[n].found[i]]
  <2>2. \A i \in DOMAIN found : FoundOk(found[i], bad, hdr)
    BY <1>2
  <2>3. Fit([o EXCEPT !.at = "next", !.found = found], bad, hdr)
    <3> HIDE DEF o, found
    <3>1. Fit([o EXCEPT !.at = "next"], bad, hdr)
      BY <1>1, FitAt DEF MenuPcs, UploadPcs
    <3> QED BY <2>2, <3>1, FitFound
  <2> QED BY <2>1, <2>3, Zenon DEF FitStep
<1>5. CASE LocalDownload(n) \/ Counted(n)
  <2>1. Fit([o EXCEPT !.at = "next"], bad, hdr)
    <3> HIDE DEF o
    <3> QED BY <1>1, FitAt DEF MenuPcs, UploadPcs
  <2>2. Goto(n, back) \/ Goto(n, [o EXCEPT !.at = "next"])
    BY <1>5 DEF LocalDownload, Counted
  <2> HIDE DEF back, o
  <2> QED BY <1>1, <2>1, <2>2, Zenon DEF FitStep
<1>6. CASE CountNext(n)
  <2> DEFINE rest(i) == [k \in DOMAIN o.found \ {i} |-> o.found[k]]
             sent(i) == [o EXCEPT !.at = "counting", !.found = rest(i)].sent \cup {Path(o.found[i])}
  <2>1. PICK i \in DOMAIN o.found :
          \/ Goto(n, [o EXCEPT !.at = "counting", !.found = rest(i), !.sent = @ \cup {Path(o.found[i])}])
          \/ Goto(n, [o EXCEPT !.found = rest(i)])
    BY <1>6, Zenon DEF CountNext
  <2>2. \A k \in DOMAIN rest(i) : FoundOk(rest(i)[k], bad, hdr)
    BY <1>2
  <2> DEFINE r == rest(i)
             v == sent(i)
  <2>3. Fit([o EXCEPT !.found = r], bad, hdr)
    <3> HIDE DEF o, r
    <3> QED BY <1>1, <2>2, FitFound DEF r
  <2>4. Fit([o EXCEPT !.at = "counting", !.found = r, !.sent = v], bad, hdr)
    <3> HIDE DEF o, r, v
    <3>1. Fit([o EXCEPT !.at = "counting"], bad, hdr)
      BY <1>1, FitAt DEF MenuPcs, UploadPcs
    <3>2. Fit([o EXCEPT !.at = "counting", !.found = r], bad, hdr)
      BY <2>2, <3>1, FitFound DEF r
    <3> QED BY <3>2, FitSets
  <2> QED BY <2>1, <2>3, <2>4, Zenon DEF FitStep
<1>7. CASE DownloadEnds(n)
  <2> DEFINE v == back.dead \/ o.off
  <2>1. Fit([back EXCEPT !.dead = v], bad, hdr)
    <3> HIDE DEF back, v
    <3> QED BY <1>1, FitSets
  <2>2. Goto(n, [back EXCEPT !.dead = v])
    BY <1>7, Zenon DEF DownloadEnds
  <2> HIDE DEF v, back
  <2> QED BY <2>1, <2>2 DEF FitStep
<1> QED BY <1>3, <1>4, <1>5, <1>6, <1>7

\* An upload goes to the upload area of an area.
LEMMA FitUpload ==
  ASSUME Inv, NEW n \in Nodes, NEW bad, Bad \subseteq bad, Upload(n)
  PROVE  FitStep(n, bad)
<1> DEFINE back == Back(n)
           at == IF n \in Local THEN "local" ELSE "ustart"
           to(c) == [c EXCEPT !.area = UploadTo[c.area]]
<1>1. Fit(back, bad, hdr)
  BY FitBack
<1>2. PICK c \in Commands : UNCHANGED bbs \/ Goto(n, [back EXCEPT !.cmd = to(c), !.at = at])
  BY Zenon DEF Upload
<1> DEFINE d == to(c)
<1>3. d.area \in Areas
  BY FileSessionAssumption, FileBaseAssumption
<1>4. Fit([back EXCEPT !.cmd = d], bad, hdr) /\ [back EXCEPT !.cmd = d].cmd = d
  <2> HIDE DEF back, d
  <2> QED BY <1>1, <1>3, FitCmd
<1>5. at \in MenuPcs
  BY DEF MenuPcs
<1> DEFINE s == [back EXCEPT !.cmd = d]
<1>6. Fit([s EXCEPT !.at = at], bad, hdr)
  <2>1. s.cmd.area \in Areas
    <3> HIDE DEF back, d
    <3> QED BY <1>3, <1>4
  <2> HIDE DEF s, at
  <2> QED BY <1>4, <1>5, <2>1, FitAt DEF s
<1> QED BY <1>2, <1>6, Zenon DEF FitStep

\* And stays with it up to its end.
LEMMA FitUploading ==
  ASSUME Inv, NEW n \in Nodes, NEW bad, Bad \subseteq bad,
         \/ LocalUpload(n) \/ StartUpload(n) \/ Receive(n) \/ CheckUpload(n) \/ Describe(n) \/ Uploaded(n)
         \/ UploadEnds(n) \/ Lose(n)
  PROVE  FitStep(n, bad)
<1> DEFINE o == bbs[n]
           back == Back(n)
           tail == Tail(o.names)
<1>1. Fit(o, bad, hdr) /\ Fit(back, bad, hdr)
  BY FitNow, FitBack
<1>2. ASSUME NEW at \in UploadPcs, o.at \in UploadPcs
      PROVE  Fit([o EXCEPT !.at = at], bad, hdr)
  <2>1. o.cmd.area \in Areas
    BY <1>1, <1>2 DEF Fit, MenuOk
  <2> HIDE DEF o
  <2> QED BY <1>1, <1>2, <2>1, FitAt DEF MenuPcs, UploadPcs
<1>3. ASSUME NEW at \in UploadPcs, NEW v, o.at \in UploadPcs
      PROVE  Fit([o EXCEPT !.at = at, !.names = v], bad, hdr) /\ Fit([o EXCEPT !.at = at, !.before = v], bad, hdr)
  <2>1. Fit([o EXCEPT !.at = at], bad, hdr)
    BY <1>2, <1>3
  <2> HIDE DEF o
  <2> QED BY <2>1, FitSets
<1>4. ASSUME NEW v
      PROVE  Fit([o EXCEPT !.names = v], bad, hdr) /\ Fit([o EXCEPT !.dead = v], bad, hdr)
  <2> HIDE DEF o
  <2> QED BY <1>1, FitSets
<1>5. \A at \in UploadPcs : [o EXCEPT !.at = at].names = o.names
  BY <1>1 DEF Fit, MenuShape
<1>6. CASE LocalUpload(n)
  <2>1. o.at \in UploadPcs /\ "check" \in UploadPcs
    BY <1>6 DEF LocalUpload, At, UploadPcs
  <2>2. Goto(n, [o EXCEPT !.at = "check"]) \/ \E f \in UNION Typed : Goto(n, [o EXCEPT !.names = Append(@, f)])
    BY <1>6, Zenon DEF LocalUpload
  <2>3. \A f \in UNION Typed : Fit([o EXCEPT !.names = Append(@, f)], bad, hdr)
    BY <1>4, Zenon
  <2>4. Fit([o EXCEPT !.at = "check"], bad, hdr)
    BY <1>2, <2>1
  <2> QED BY <2>2, <2>3, <2>4, Zenon DEF FitStep
<1>7. CASE StartUpload(n)
  <2> DEFINE before == {f \in Names : OnDisk(o.cmd.area, f)}
  <2>1. o.at \in UploadPcs /\ "receiving" \in UploadPcs
    BY <1>7 DEF StartUpload, At, UploadPcs
  <2>2. Goto(n, [o EXCEPT !.at = "receiving", !.before = before]) \/ Goto(n, back)
    BY <1>7, Zenon DEF StartUpload
  <2>3. Fit([o EXCEPT !.at = "receiving", !.before = before], bad, hdr)
    BY <1>3, <2>1, Zenon
  <2> QED BY <1>1, <2>2, <2>3, Zenon DEF FitStep
<1>8. CASE Receive(n)
  <2>1. o.at \in UploadPcs /\ "check" \in UploadPcs
    BY <1>8 DEF Receive, At, UploadPcs
  <2>2. \E names : Goto(n, [o EXCEPT !.at = "check", !.names = names])
    BY <1>8, Zenon DEF Receive
  <2> QED BY <1>3, <2>1, <2>2, Zenon DEF FitStep
<1>9. CASE CheckUpload(n)
  <2>1. o.at \in UploadPcs /\ "describe" \in UploadPcs
    BY <1>9 DEF CheckUpload, At, UploadPcs
  <2>2. Goto(n, [o EXCEPT !.names = tail]) \/ Goto(n, [o EXCEPT !.at = "describe"])
    BY <1>9, Zenon DEF CheckUpload
  <2>3. Fit([o EXCEPT !.names = tail], bad, hdr)
    BY <1>4, Zenon
  <2>4. Fit([o EXCEPT !.at = "describe"], bad, hdr)
    BY <1>2, <2>1
  <2> QED BY <2>2, <2>3, <2>4, Zenon DEF FitStep
<1>10. CASE Describe(n) \/ Uploaded(n)
  <2>1. o.at \in UploadPcs /\ "check" \in UploadPcs /\ "adding" \in UploadPcs
    BY <1>10 DEF Describe, Uploaded, At, UploadPcs
  <2>2. Goto(n, [o EXCEPT !.at = "check", !.names = Tail(@)]) \/ Goto(n, [o EXCEPT !.at = "adding"])
    BY <1>10, Zenon DEF Describe, Uploaded
  <2>3. Fit([o EXCEPT !.at = "check", !.names = Tail(@)], bad, hdr)
    BY <1>3, <2>1, Zenon
  <2>4. Fit([o EXCEPT !.at = "adding"], bad, hdr)
    BY <1>2, <2>1
  <2> QED BY <2>2, <2>3, <2>4, Zenon DEF FitStep
<1>11. CASE UploadEnds(n) \/ Lose(n)
  <2>1. Goto(n, back) \/ Goto(n, [o EXCEPT !.dead = TRUE])
    BY <1>11, Zenon DEF UploadEnds, Lose
  <2>2. Fit([o EXCEPT !.dead = TRUE], bad, hdr)
    BY <1>4, Zenon
  <2> QED BY <1>1, <2>1, <2>2, Zenon DEF FitStep
<1> QED BY <1>6, <1>7, <1>8, <1>9, <1>10, <1>11

\* A step of a session, for its menus.
LEMMA SessionMenus ==
  ASSUME Inv, Numbering, NEW n \in Nodes, SessionStep(n)
  PROVE  TagsInv' /\ MenusInv' /\ bbs' = [m \in Nodes |-> bbs'[m]] /\ \A m \in Nodes : MenuShape(bbs'[m])
<1> DEFINE b2 == Bad'
<1>1. Quiet /\ clash \subseteq clash' /\ UNCHANGED hdr
  BY SessionQuiet DEF Quiet
<1>2. Bad \subseteq b2
  BY <1>1, BadGrows
<1>3. TagsInv' /\ \A m \in Nodes : \A i \in DOMAIN tags'[m] : TagOk(tags'[m][i], b2, hdr')
  BY <1>1, TagsStep
<1>4. \A i \in DOMAIN tags'[n] : TagOk(tags'[n][i], b2, hdr)
  BY <1>1, <1>3
<1>5. FitStep(n, b2)
  <2> HIDE DEF b2
  <2>1. CASE Edit(n)
    BY <2>1 DEF Edit, FitStep
  <2> QED BY <1>2, <1>4, <2>1, FitDownload, FitSending, FitUpload, FitUploading DEF SessionStep
<1>6. CASE UNCHANGED bbs
  <2>1. MenusInv'
    BY <1>1, <1>6, MenusStep
  <2> QED BY <1>3, <1>6, <2>1 DEF Inv, Shape
<1>7. CASE \E s : Goto(n, s) /\ Fit(s, b2, hdr)
  <2>1. PICK s : Goto(n, s) /\ Fit(s, b2, hdr)
    BY <1>7
  <2>2. bbs' = [m \in Nodes |-> bbs'[m]] /\ bbs'[n] = s /\ \A m \in Nodes \ {n} : bbs'[m] = bbs[m]
    <3> HIDE DEF b2
    <3> QED BY <2>1, FitMoves DEF Inv
  <2>3. MenuShape(bbs'[n]) /\ MenuOk(bbs'[n], b2, hdr')
    <3> HIDE DEF b2
    <3> QED BY <1>1, <2>1, <2>2 DEF Fit
  <2>4. MenusInv'
    BY <1>1, <2>2, <2>3, MenusStep
  <2>5. \A m \in Nodes : MenuShape(bbs'[m])
    BY <2>2, <2>3 DEF Inv, Shape
  <2> QED BY <1>3, <2>2, <2>4, <2>5
<1> QED BY <1>5, <1>6, <1>7 DEF FitStep

---------------------------------------------------------------------------
(* Steps that write headers. *)

\* A function on 1..n is a sequence.
LEMMA SeqOfFun ==
  ASSUME NEW S, NEW n \in Nat, NEW w \in [1 .. n -> S]
  PROVE  w \in Seq(S) /\ Len(w) = n /\ DOMAIN w = 1 .. n
<1>1. w \in Seq(S)
  BY SeqDef
<1> QED BY <1>1, LenProperties

\* The places of a sequence after a write at place i, counted from 0.
LEMMA PlaceFacts ==
  ASSUME NEW m \in Nat, NEW i \in Nat, i <= m
  PROVE  LET n == IF i + 1 > m THEN i + 1 ELSE m
         IN /\ n \in Nat /\ i + 1 \in 1 .. n /\ (i < m => n = m)
            /\ \A k \in 1 .. n : k = i + 1 \/ k \in 1 .. m
            /\ \A k \in 1 .. m : k \in 1 .. n /\ k <= m
  OBVIOUS

\* A write in place or at the end leaves the other records as they are.
LEMMA WriteAtFacts ==
  ASSUME NEW s \in Seq(Headers), NEW i \in Nat, i <= Len(s), NEW h \in Headers
  PROVE  LET w == WriteAt(s, i, h)
         IN /\ w \in Seq(Headers) /\ i + 1 \in DOMAIN w /\ w[i + 1] = h
            /\ i < Len(s) => Len(w) = Len(s)
            /\ \A k \in DOMAIN s : k \in DOMAIN w /\ (k # i + 1 => w[k] = s[k])
<1> DEFINE w == WriteAt(s, i, h)
           m == Len(s)
           n == IF i + 1 > m THEN i + 1 ELSE m
           e(k) == IF k = i + 1 THEN h ELSE IF k <= m THEN s[k] ELSE Hole
<1>1. DOMAIN s = 1 .. m /\ m \in Nat
  BY LenProperties
<1>2. /\ n \in Nat /\ i + 1 \in 1 .. n /\ (i < m => n = m)
      /\ \A k \in 1 .. n : k = i + 1 \/ k \in 1 .. m
      /\ \A k \in 1 .. m : k \in 1 .. n /\ k <= m
  <2> HIDE DEF m
  <2> QED BY <1>1, PlaceFacts DEF m
<1>3. w = [k \in 1 .. n |-> e(k)]
  BY Zenon DEF WriteAt
<1> HIDE DEF n, w
<1>4. \A k \in 1 .. m : k # i + 1 => e(k) = s[k]
  BY <1>2
<1>5. e(i + 1) = h
  OBVIOUS
<1> HIDE DEF e
<1>6. ASSUME NEW k \in 1 .. n PROVE e(k) \in Headers
  <2>1. k \in 1 .. m => s[k] \in Headers
    BY ElementOfSeq
  <2> QED BY <1>2, <1>4, <1>5, <2>1
<1>7. w \in [1 .. n -> Headers] /\ \A k \in 1 .. n : w[k] = e(k)
  BY <1>3, <1>6
<1>8. w \in Seq(Headers) /\ Len(w) = n /\ DOMAIN w = 1 .. n
  BY <1>2, <1>7, SeqOfFun
<1>9. w[i + 1] = h
  BY <1>2, <1>5, <1>7
<1>10. \A k \in DOMAIN s : k \in DOMAIN w /\ (k # i + 1 => w[k] = s[k])
  BY <1>1, <1>2, <1>4, <1>7, <1>8
<1> QED BY <1>2, <1>8, <1>9, <1>10 DEF w

\* The headers after a write, and who else had a write pending.
LEMMA Writes ==
  ASSUME Inv, Numbering, NEW p \in Processes, NEW a, NEW rec, NEW new, Write(p, a, rec, new)
  PROVE  /\ clash \subseteq clash' /\ Bad \subseteq Bad'
         /\ hdr' = [b \in Areas |-> hdr'[b]]
         /\ a \in Areas => hdr'[a] = new
         /\ \A b \in Areas \ {a} : hdr'[b] = hdr[b]
         /\ a \notin Bad' => \A q \in Processes \ {p} : ~Pending(q, a, rec)
<1>1. clash \subseteq clash'
  BY DEF Write
<1>2. a \notin clash' => \A q \in Processes \ {p} : ~Pending(q, a, rec)
  BY DEF Write
<1>3. /\ hdr' = [b \in Areas |-> hdr'[b]]
      /\ a \in Areas => hdr'[a] = new
      /\ \A b \in Areas \ {a} : hdr'[b] = hdr[b]
  BY DEF Write, Inv, Shape
<1>4. Bad \subseteq Bad'
  BY <1>1, BadGrows
<1>5. clash' \subseteq Bad'
  BY DEF Bad
<1> QED BY <1>1, <1>2, <1>3, <1>4, <1>5

\* The other calls after a write.
LEMMA WriteStep ==
  ASSUME Inv, Numbering, NEW p \in Processes, NEW a, NEW rec, NEW new, Write(p, a, rec, new), JobMoves(p),
         a \in Areas \ Bad' => new \in Seq(Headers),
         a \in Areas \ Bad' => rec = -1 \/ rec = Len(hdr[a]) \/ Len(new) = Len(hdr[a]),
         \A x \in accepted' : x[1] # a => x \in accepted,
         CallShape(job'[p]), JobOk(p, job'[p], Bad', hdr', accepted')
  PROVE  HeadersInv' /\ JobsInv' /\ \A q \in Processes : CallShape(job'[q])
<1>1. Bad \subseteq Bad' /\ clash \subseteq clash'
  BY Writes
<1>2. ASSUME NEW b \in Areas \ Bad' PROVE hdr'[b] \in Seq(Headers)
  <2>1. CASE b = a
    BY <1>2, <2>1, Writes
  <2>2. CASE b # a
    <3>1. hdr'[b] = hdr[b] /\ b \notin Bad
      BY <1>1, <1>2, <2>2, Writes
    <3> QED BY <3>1 DEF Inv, HeadersInv
  <2> QED BY <2>1, <2>2
<1>3. ASSUME NEW q \in Processes, q # p PROVE JobOk(q, job'[q], Bad', hdr', accepted')
  <2> DEFINE j == job[q]
             b == Bad
             b2 == Bad'
  <2>1. job'[q] = j /\ JobOk(q, j, b, hdr, accepted)
    BY <1>3 DEF JobMoves, Inv, JobsInv
  <2>2. ASSUME j.area \in Areas \ b2, j.at \in {"bump", "mark", "renew", "put"}
        PROVE  NamesKept(hdr[j.area], hdr'[j.area])
    <3>1. Held(j.area)
      BY <2>2 DEF Held
    <3> QED BY <1>1, <2>2, <3>1, BadGrows
  <2>3. ASSUME j.area = a, a \notin b2
        PROVE  j.at \notin {"empty", "write"} /\ (j.at = "append" => rec # -1 /\ rec # j.rec)
    BY <1>3, <2>3, Writes DEF Pending
  <2>4. ASSUME j.area \in Areas \ b2, j.at = "append" PROVE Len(hdr'[j.area]) = Len(hdr[j.area])
    <3>1. j.rec = Len(hdr[j.area])
      BY <1>1, <2>1, <2>4 DEF JobOk, CallOk
    <3>2. CASE j.area = a
      <4>1. hdr'[a] = new
        BY <2>4, <3>2, Writes
      <4> QED BY <2>3, <2>4, <3>1, <3>2, <4>1
    <3>3. CASE j.area # a
      BY <2>4, <3>3, Writes
    <3> QED BY <3>2, <3>3
  <2>5. ASSUME j.area \in Areas \ b2, j.at \in {"empty", "write"}
        PROVE  \A x \in accepted' : x[1] = j.area => x \in accepted
    BY <2>3, <2>5
  <2>6. b \subseteq b2
    BY <1>1
  <2> HIDE DEF j, b, b2
  <2>7. JobOk(q, j, b2, hdr', accepted')
    BY <2>1, <2>2, <2>4, <2>5, <2>6, CallKept
  <2> QED BY <2>1, <2>7 DEF b2
<1>4. \A q \in Processes : JobOk(q, job'[q], Bad', hdr', accepted')
  BY <1>3
<1>5. \A q \in Processes : CallShape(job'[q])
  BY DEF Inv, Shape, JobMoves
<1> QED BY <1>2, <1>4, <1>5, JobsAfter, HeadersAfter

\* Who has a live header keeps one, but for the file that is marked deleted.
LEMMA PutHas ==
  ASSUME NEW h \in Seq(Headers), NEW rec \in Nat, rec <= Len(h), NEW g \in Headers, NEW n,
         rec < Len(h) => h[rec + 1].name = g.name
  PROVE  /\ Has(h, n) /\ (Live(g) \/ n # g.name) => Has(WriteAt(h, rec, g), n)
         /\ Live(g) => Has(WriteAt(h, rec, g), g.name)
<1> DEFINE w == WriteAt(h, rec, g)
<1>1. /\ rec + 1 \in DOMAIN w /\ w[rec + 1] = g
      /\ \A k \in DOMAIN h : k \in DOMAIN w /\ (k # rec + 1 => w[k] = h[k])
  BY WriteAtFacts
<1>2. rec + 1 \in DOMAIN h => h[rec + 1].name = g.name
  OBVIOUS
<1> HIDE DEF w
<1>3. Live(g) => Has(w, g.name)
  BY <1>1 DEF Has
<1>4. ASSUME Has(h, n), Live(g) \/ n # g.name PROVE Has(w, n)
  <2>1. PICK k \in DOMAIN h : Live(h[k]) /\ h[k].name = n
    BY <1>4 DEF Has
  <2>2. CASE k = rec + 1
    BY <1>2, <1>3, <1>4, <2>1, <2>2
  <2>3. CASE k # rec + 1
    BY <1>1, <2>1, <2>3 DEF Has
  <2> QED BY <2>2, <2>3
<1> QED BY <1>3, <1>4 DEF w

\* What the call that writes a header holds.
LEMMA PutFacts ==
  ASSUME Inv, NEW p \in Processes, Put(p), job[p].area \notin Bad
  PROVE  LET j == job[p]
             h == hdr[j.area]
         IN /\ j.area \in Areas /\ h \in Seq(Headers) /\ j.hdr \in Headers /\ j.hdr.name = j.name
            /\ j.rec \in Nat /\ j.rec <= Len(h) /\ (j.at = "append" => j.rec = Len(h))
            /\ j.rec < Len(h) => h[j.rec + 1].name = j.name
            /\ j.at # "put" => Live(j.hdr)
            /\ j.at # "append" => j.rec < Len(h)
<1> DEFINE j == job[p]
           h == hdr[j.area]
<1>1. j.at \in {"append", "renew", "put"} /\ j.area \notin Bad
  BY DEF Put
<1>2. j.area \in Areas /\ CallOk(p, j, h, accepted)
  BY <1>1 DEF Inv, JobsInv, JobOk
<1>3. h \in Seq(Headers)
  BY <1>1, <1>2 DEF Inv, HeadersInv
<1> HIDE DEF j, h
<1>4. j.hdr \in Headers /\ j.hdr.name = j.name /\ (j.at # "put" => Live(j.hdr))
  BY <1>1, <1>2 DEF CallOk
<1>5. CASE j.at = "append"
  <2>1. j.rec = Len(h)
    BY <1>2, <1>5 DEF CallOk
  <2>2. j.rec \in Nat /\ j.rec <= Len(h) /\ ~(j.rec < Len(h))
    BY <1>3, <2>1
  <2> QED BY <1>2, <1>3, <1>4, <1>5, <2>1, <2>2 DEF j, h
<1>6. CASE j.at # "append"
  <2>1. RecordOf(h, j.rec, j.name)
    BY <1>1, <1>2, <1>6 DEF CallOk
  <2>2. j.rec \in Nat /\ j.rec <= Len(h) /\ j.rec < Len(h) /\ h[j.rec + 1].name = j.name
    BY <1>3, <2>1 DEF RecordOf
  <2> QED BY <1>2, <1>3, <1>4, <1>6, <2>2 DEF j, h
<1> QED BY <1>5, <1>6

\* The write of one header.
LEMMA PutStep ==
  ASSUME Inv, Numbering, NEW p \in Processes, Put(p)
  PROVE  /\ JobMoves(p) /\ JobsInv' /\ KeepInv' /\ HeadersInv' /\ \A q \in Processes : CallShape(job'[q])
         /\ clash \subseteq clash' /\ hdr' = [b \in Areas |-> hdr'[b]]
<1> DEFINE j == job[p]
           a == j.area
           b == Bad
           b2 == Bad'
           new == WriteAt(hdr[a], j.rec, j.hdr)
<1>1. Write(p, a, j.rec, new) /\ j.at \in {"append", "renew", "put"}
  BY DEF Put
<1>2. /\ b \subseteq b2 /\ clash \subseteq clash' /\ hdr' = [c \in Areas |-> hdr'[c]]
      /\ a \in Areas => hdr'[a] = new
      /\ \A c \in Areas \ {a} : hdr'[c] = hdr[c]
      /\ a \notin b2 => \A q \in Processes \ {p} : ~Pending(q, a, j.rec)
  <2> HIDE DEF new
  <2> QED BY <1>1, Writes
<1>3. JobMoves(p) /\ CallShape(job'[p]) /\ job'[p].at = "done"
  <2>1. Finish(p, TRUE)
    BY DEF Put
  <2>2. Shape
    BY DEF Inv
  <2> HIDE DEF j, a, b, b2, new
  <2> QED BY ONLY <2>1, <2>2, p \in Processes, SetDone DEF CallPcs, Finish
<1>4. JobOk(p, job'[p], b2, hdr', accepted')
  <2> HIDE DEF b2
  <2> QED BY <1>3 DEF JobOk
<1>5. /\ \A x \in accepted' : x \in accepted \/ (j.at # "put" /\ x = <<a, j.name>>)
      /\ j.at = "put" /\ ~Live(j.hdr) => <<a, j.name>> \notin accepted'
  BY <1>1 DEF Put
<1>6. a \notin b2 =>
         /\ a \in Areas /\ hdr[a] \in Seq(Headers) /\ j.hdr \in Headers /\ j.hdr.name = j.name
         /\ j.rec \in Nat /\ j.rec <= Len(hdr[a]) /\ (j.at = "append" => j.rec = Len(hdr[a]))
         /\ j.rec < Len(hdr[a]) => hdr[a][j.rec + 1].name = j.name
         /\ j.at # "put" => Live(j.hdr)
         /\ j.at # "append" => j.rec < Len(hdr[a])
  BY <1>2, PutFacts
<1>7. a \notin b2 => new \in Seq(Headers) /\ (j.rec = Len(hdr[a]) \/ Len(new) = Len(hdr[a]))
  BY <1>1, <1>6, WriteAtFacts
<1>8. HeadersInv' /\ JobsInv' /\ \A q \in Processes : CallShape(job'[q])
  <2>1. \A x \in accepted' : x[1] # a => x \in accepted
    BY <1>5
  <2>2. /\ a \in Areas \ Bad' => new \in Seq(Headers)
        /\ a \in Areas \ Bad' => j.rec = -1 \/ j.rec = Len(hdr[a]) \/ Len(new) = Len(hdr[a])
    BY <1>7
  <2> DEFINE rec == j.rec
  <2> HIDE DEF new, a, rec, j
  <2> QED BY <1>1, <1>3, <1>4, <2>1, <2>2, WriteStep DEF rec, b2
<1>9. ASSUME NEW x \in accepted' PROVE KeptOk(x, b2, hdr', job'[Keeper])
  <2> DEFINE k == job[Keeper]
             k2 == job'[Keeper]
  <2>1. k2 = k \/ k.at # "write"
    BY <1>1, <1>3, FileMaintAssumption DEF JobMoves
  <2>2. CASE x[1] \in b2 \/ x[1] # a
    <3>1. CASE x \in accepted
      <4>1. KeptOk(x, b, hdr, k)
        BY <3>1 DEF Inv, KeepInv
      <4>2. x[1] \in Areas \ b2 => hdr'[x[1]] = hdr[x[1]]
        BY <1>2, <2>2
      <4> HIDE DEF b, b2, k, k2
      <4>3. KeptOk(x, b2, hdr', k2)
        BY <1>2, <2>1, <4>1, <4>2, UploadKept
      <4> QED BY <4>3 DEF k2
    <3>2. CASE x = <<a, j.name>>
      <4> HIDE DEF b2
      <4> QED BY <2>2, <3>2 DEF KeptOk
    <3> QED BY <1>5, <3>1, <3>2
  <2>3. CASE x[1] = a /\ a \notin b2
    <3> DEFINE h == hdr[a]
               g == j.hdr
               rec == j.rec
               n == x[2]
    <3>1. /\ h \in Seq(Headers) /\ g \in Headers /\ rec \in Nat /\ rec <= Len(h)
          /\ rec < Len(h) => h[rec + 1].name = g.name
      BY <1>6, <2>3
    <3>2. /\ Has(h, n) /\ (Live(g) \/ n # g.name) => Has(new, n)
          /\ Live(g) => Has(new, g.name)
      <4> HIDE DEF h, g, rec, n
      <4>1. /\ Has(h, n) /\ (Live(g) \/ n # g.name) => Has(WriteAt(h, rec, g), n)
            /\ Live(g) => Has(WriteAt(h, rec, g), g.name)
        BY <3>1, PutHas
      <4> QED BY <4>1 DEF h, g, rec
    <3>3. x = <<x[1], x[2]>> /\ Has(new, n)
      <4>1. CASE x \in accepted
        <5>1. KeptOk(x, b, hdr, k)
          BY <4>1 DEF Inv, KeepInv
        <5>2. ~(k.area = a /\ k.at = "write")
          BY <1>1, <1>2, <2>3, FileMaintAssumption DEF Pending
        <5>3. x = <<x[1], x[2]>> /\ Has(h, n)
          <6> HIDE DEF b, b2, k
          <6> QED BY <1>2, <2>3, <5>1, <5>2 DEF KeptOk
        <5>4. Live(g) \/ n # g.name
          <6>1. CASE n = g.name
            <7>1. x = <<a, j.name>>
              BY <1>6, <2>3, <5>3, <6>1
            <7> QED BY <1>5, <1>6, <2>3, <7>1
          <6> QED BY <6>1
        <5> QED BY <3>2, <5>3, <5>4
      <4>2. CASE j.at # "put" /\ x = <<a, j.name>>
        BY <1>6, <2>3, <3>2, <4>2
      <4> QED BY <1>5, <4>1, <4>2
    <3>4. hdr'[x[1]] = new /\ x[1] \in Areas
      BY <1>2, <1>6, <2>3
    <3> HIDE DEF new, b2
    <3> QED BY <3>3, <3>4 DEF KeptOk
  <2> QED BY <2>2, <2>3
<1> QED BY <1>2, <1>3, <1>8, <1>9, KeepAfter

\* WriteFDB empties the headers; it still holds them and what it will write.
LEMMA EmptyStep ==
  ASSUME Inv, Numbering, NEW p \in Processes, Empty(p)
  PROVE  /\ JobMoves(p) /\ JobsInv' /\ KeepInv' /\ HeadersInv' /\ \A q \in Processes : CallShape(job'[q])
         /\ clash \subseteq clash' /\ hdr' = [b \in Areas |-> hdr'[b]]
<1> DEFINE j == job[p]
           a == j.area
           b == Bad
           b2 == Bad'
           r == job'[p]
           k == job[Keeper]
           k2 == job'[Keeper]
<1>1. Write(p, a, -1, <<>>) /\ j.at = "empty" /\ accepted' = accepted
  BY DEF Empty
<1>2. /\ b \subseteq b2 /\ clash \subseteq clash' /\ hdr' = [c \in Areas |-> hdr'[c]]
      /\ \A c \in Areas \ {a} : hdr'[c] = hdr[c]
  BY <1>1, Writes
<1>3. JobMoves(p) /\ CallShape(r) /\ r.at = "write" /\ r.area = a /\ r.ents = j.ents
  BY SetAt DEF Inv, CallPcs, Proceed, Empty
<1>4. a \notin b2 => a \in Areas /\ CallOk(p, j, hdr[a], accepted)
  BY <1>1, <1>2 DEF Inv, JobsInv, JobOk
<1>5. JobOk(p, r, b2, hdr', accepted')
  <2> HIDE DEF b, b2, r
  <2> QED BY <1>1, <1>3, <1>4 DEF JobOk, CallOk
<1>6. HeadersInv' /\ JobsInv' /\ \A q \in Processes : CallShape(job'[q])
  <2>1. <<>> \in Seq(Headers)
    OBVIOUS
  <2> HIDE DEF a, j
  <2> QED BY <1>1, <1>3, <1>5, <2>1, WriteStep DEF b2, r
<1>7. k2 = k \/ (p = Keeper /\ k.at # "write")
  BY <1>1, <1>3, FileMaintAssumption DEF JobMoves
<1>8. ASSUME NEW x \in accepted' PROVE KeptOk(x, b2, hdr', k2)
  <2>1. KeptOk(x, b, hdr, k)
    BY <1>1, <1>8 DEF Inv, KeepInv
  <2>2. CASE x[1] \in b2 \/ x[1] # a
    <3>1. x[1] \in Areas \ b2 => hdr'[x[1]] = hdr[x[1]]
      BY <1>2, <2>2
    <3> HIDE DEF b, b2, k, k2
    <3> QED BY <1>2, <1>7, <2>1, <3>1, UploadKept
  <2>3. CASE x[1] = a /\ a \notin b2
    <3>1. p = Keeper /\ a \in Areas
      BY <1>1, <1>4, <2>3 DEF CallOk
    <3>2. k2.area = a /\ k2.at = "write"
      BY <1>3, <3>1
    <3> HIDE DEF b, b2, k, k2
    <3> QED BY <2>1, <2>3, <3>1, <3>2 DEF KeptOk
  <2> QED BY <2>2, <2>3
<1> QED BY <1>2, <1>3, <1>6, <1>8, KeepAfter

\* It writes what it computed, which has a live header for every upload.
LEMMA FillStep ==
  ASSUME Inv, Numbering, NEW p \in Processes, Fill(p)
  PROVE  /\ JobMoves(p) /\ JobsInv' /\ KeepInv' /\ HeadersInv' /\ \A q \in Processes : CallShape(job'[q])
         /\ clash \subseteq clash' /\ hdr' = [b \in Areas |-> hdr'[b]]
<1> DEFINE j == job[p]
           a == j.area
           b == Bad
           b2 == Bad'
           r == job'[p]
           k == job[Keeper]
           k2 == job'[Keeper]
           new == j.ents
<1>1. Write(p, a, -1, new) /\ j.at = "write" /\ accepted' = accepted
  BY DEF Fill
<1>2. /\ b \subseteq b2 /\ clash \subseteq clash' /\ hdr' = [c \in Areas |-> hdr'[c]]
      /\ a \in Areas => hdr'[a] = new
      /\ \A c \in Areas \ {a} : hdr'[c] = hdr[c]
  BY <1>1, Writes
<1>3. JobMoves(p) /\ CallShape(r) /\ r.at = "done"
  <2>1. Finish(p, TRUE) /\ Shape
    BY DEF Fill, Inv
  <2> HIDE DEF j, a, b, b2, new
  <2> QED BY ONLY <2>1, p \in Processes, SetDone DEF CallPcs, Finish
<1>4. a \notin b2 => a \in Areas /\ CallOk(p, j, hdr[a], accepted)
  BY <1>1, <1>2 DEF Inv, JobsInv, JobOk
<1>5. JobOk(p, r, b2, hdr', accepted')
  BY <1>3 DEF JobOk
<1>6. a \in Areas \ b2 => new \in Seq(Headers)
  BY <1>1, <1>4 DEF CallOk
<1>7. HeadersInv' /\ JobsInv' /\ \A q \in Processes : CallShape(job'[q])
  <2> HIDE DEF a, j, new
  <2> QED BY <1>1, <1>3, <1>5, <1>6, WriteStep DEF b2, r
<1>8. k2 = k \/ (p = Keeper /\ k.area = a)
  BY <1>1, <1>3, FileMaintAssumption DEF JobMoves
<1>9. ASSUME NEW x \in accepted' PROVE KeptOk(x, b2, hdr', k2)
  <2>1. KeptOk(x, b, hdr, k)
    BY <1>1, <1>9 DEF Inv, KeepInv
  <2>2. CASE x[1] \in b2 \/ x[1] # a
    <3>1. x[1] \in Areas \ b2 => hdr'[x[1]] = hdr[x[1]]
      BY <1>2, <2>2
    <3> HIDE DEF a, b, b2, k, k2
    <3> QED BY <1>2, <1>8, <2>1, <2>2, <3>1 DEF KeptOk
  <2>3. CASE x[1] = a /\ a \notin b2
    <3>1. a \in Areas /\ \E i \in DOMAIN new : Live(new[i]) /\ new[i].name = x[2]
      BY <1>1, <1>4, <1>9, <2>3 DEF CallOk
    <3>2. hdr'[x[1]] = new /\ Has(new, x[2])
      BY <1>2, <2>3, <3>1 DEF Has
    <3> HIDE DEF a, b, b2, k, k2, new
    <3> QED BY <2>1, <2>3, <3>1, <3>2 DEF KeptOk
  <2> QED BY <2>2, <2>3
<1> QED BY <1>2, <1>3, <1>7, <1>9, KeepAfter

---------------------------------------------------------------------------
(* Maintenance: what the calls make of the headers. *)

\* A choice of as many places as there are chooses them all.
LEMMA AllChosen ==
  ASSUME NEW S, NEW T, IsFiniteSet(T), IsFiniteSet(S), Cardinality(S) = Cardinality(T), NEW f \in [S -> T],
         \A i, k \in S : f[i] = f[k] => i = k
  PROVE  \A x \in T : \E i \in S : f[i] = x
<1>1. f \in Injection(S, T)
  BY DEF Injection, IsInjective
<1>2. f \in Surjection(S, T)
  BY <1>1, FS_Injection
<1> QED BY <1>2 DEF Surjection

\* Selections of a sequence have every element at a chosen place, and no other.
LEMMA SelectionFacts ==
  ASSUME NEW S, NEW s \in Seq(S), NEW places \in SUBSET DOMAIN s, NEW w \in Selections(s, places)
  PROVE  /\ w \in Seq(S)
         /\ \A k \in places : \E i \in DOMAIN w : w[i] = s[k]
<1> DEFINE n == Cardinality(places)
<1>1. DOMAIN s = 1 .. Len(s) /\ Len(s) \in Nat
  OBVIOUS
<1>2. IsFiniteSet(places) /\ n \in Nat
  <2>1. IsFiniteSet(1 .. Len(s))
    BY <1>1, FS_Interval
  <2>2. IsFiniteSet(places)
    BY <1>1, <2>1, FS_Subset
  <2> QED BY <2>2, FS_CardinalityType
<1>3. IsFiniteSet(1 .. n) /\ Cardinality(1 .. n) = n
  <2> HIDE DEF n
  <2>1. IsFiniteSet(1 .. n) /\ Cardinality(1 .. n) = IF 1 > n THEN 0 ELSE n - 1 + 1
    BY <1>2, FS_Interval
  <2> QED BY <1>2, <2>1
<1>4. PICK at \in [1 .. n -> places] :
         /\ \A i, k \in 1 .. n : i < k => at[i] < at[k]
         /\ w = [i \in 1 .. n |-> s[at[i]]]
  <2>1. PICK f \in {g \in [1 .. n -> places] : \A i, k \in DOMAIN g : i < k => g[i] < g[k]} :
          w = [i \in DOMAIN f |-> s[f[i]]]
    BY Zenon DEF Selections
  <2> HIDE DEF n
  <2> QED BY <2>1
<1> HIDE DEF n
<1>5. \A i, k \in 1 .. n : at[i] = at[k] => i = k
  <2> SUFFICES ASSUME NEW i \in 1 .. n, NEW k \in 1 .. n, at[i] = at[k] PROVE i = k
    OBVIOUS
  <2>1. at[i] \in Nat /\ at[k] \in Nat
    BY <1>1
  <2>2. ~(i < k) /\ ~(k < i)
    BY <1>4, <2>1
  <2>3. i \in Int /\ k \in Int
    BY <1>2
  <2> QED BY <2>2, <2>3
<1>6. \A x \in places : \E i \in 1 .. n : at[i] = x
  <2>1. n = Cardinality(places)
    BY DEF n
  <2>2. Cardinality(1 .. n) = Cardinality(places)
    BY ONLY <1>3, <2>1, Zenon
  <2> QED BY ONLY <1>2, <1>3, <1>5, <2>2, at \in [1 .. n -> places], AllChosen
<1>7. w \in [1 .. n -> S]
  <2>1. \A i \in 1 .. n : s[at[i]] \in S
    BY ElementOfSeq
  <2> QED BY <1>4, <2>1
<1>8. w \in Seq(S) /\ DOMAIN w = 1 .. n
  BY <1>2, <1>7, SeqOfFun
<1>9. ASSUME NEW k \in places PROVE \E i \in DOMAIN w : w[i] = s[k]
  <2>1. PICK i \in 1 .. n : at[i] = k
    BY <1>6
  <2>2. w[i] = s[k]
    BY <1>4, <2>1
  <2> QED BY <1>8, <2>2
<1> QED BY <1>8, <1>9

\* Sorting puts every header somewhere.
LEMMA SortingFacts ==
  ASSUME NEW S, NEW s \in Seq(S), NEW down, NEW w \in Sortings(s, down)
  PROVE  /\ w \in Seq(S)
         /\ \A k \in DOMAIN s : \E i \in DOMAIN w : w[i] = s[k]
<1>1. PICK f \in [DOMAIN s -> DOMAIN s] :
         /\ \A i, k \in DOMAIN s : f[i] = f[k] => i = k
         /\ w = [i \in DOMAIN s |-> s[f[i]]]
  <2> DEFINE orders == {q \in [DOMAIN s -> DOMAIN s] :
                          /\ \A i, k \in DOMAIN s : q[i] = q[k] => i = k
                          /\ down \/ \A i, k \in DOMAIN s : i < k /\ s[q[i]].name = s[q[k]].name => q[i] < q[k]}
  <2>1. PICK f \in orders : w = [i \in DOMAIN s |-> s[f[i]]]
    BY Zenon DEF Sortings
  <2>2. f \in [DOMAIN s -> DOMAIN s] /\ \A i, k \in DOMAIN s : f[i] = f[k] => i = k
    BY Zenon
  <2> QED BY <2>1, <2>2, Zenon
<1>2. DOMAIN s = 1 .. Len(s) /\ Len(s) \in Nat /\ IsFiniteSet(DOMAIN s)
  BY FS_Interval
<1>3. \A x \in DOMAIN s : \E i \in DOMAIN s : f[i] = x
  <2> DEFINE D == DOMAIN s
  <2>1. IsFiniteSet(D) /\ f \in Injection(D, D)
    BY <1>1, <1>2 DEF Injection, IsInjective
  <2> HIDE DEF D
  <2>2. Cardinality(D) = Cardinality(D) <=> f \in Surjection(D, D)
    BY <2>1, FS_Injection, Zenon
  <2>3. \A x \in D : \E i \in D : f[i] = x
    BY <2>2 DEF Surjection
  <2> QED BY <2>3 DEF D
<1>4. w \in [1 .. Len(s) -> S]
  <2>1. \A i \in DOMAIN s : s[f[i]] \in S
    BY ElementOfSeq
  <2> QED BY <1>1, <1>2, <2>1
<1>5. w \in Seq(S) /\ DOMAIN w = DOMAIN s
  BY <1>2, <1>4, SeqOfFun
<1> QED BY <1>1, <1>3, <1>5

\* What is put after the headers leaves them where they are.
LEMMA AddedFacts ==
  ASSUME NEW s \in Seq(Headers), NEW n \in Nat, NEW more \in [1 .. n -> Headers]
  PROVE  /\ s \o more \in Seq(Headers)
         /\ \A k \in DOMAIN s : \E i \in DOMAIN (s \o more) : (s \o more)[i] = s[k]
<1> DEFINE w == s \o more
<1>1. more \in Seq(Headers) /\ Len(more) = n
  BY SeqOfFun
<1>2. /\ w \in Seq(Headers) /\ Len(w) = Len(s) + n
      /\ \A i \in 1 .. Len(s) + n : w[i] = IF i <= Len(s) THEN s[i] ELSE more[i - Len(s)]
  BY <1>1, ConcatProperties
<1> HIDE DEF w
<1>3. DOMAIN s = 1 .. Len(s) /\ Len(s) \in Nat /\ DOMAIN w = 1 .. (Len(s) + n)
  BY <1>2
<1>4. ASSUME NEW k \in DOMAIN s PROVE k \in DOMAIN w /\ w[k] = s[k]
  <2>1. k \in 1 .. Len(s) + n /\ k <= Len(s)
    BY <1>3
  <2> QED BY <1>2, <1>3, <2>1
<1> QED BY <1>2, <1>4 DEF w

\* The names that are listed are names.
LEMMA ListedFacts ==
  ASSUME NEW S, NEW new \in Listed(S)
  PROVE  Len(new) \in Nat /\ new \in [1 .. Len(new) -> Names]
<1> DEFINE places == {i \in DOMAIN NameList : NameList[i] \in S}
<1>1. new \in Selections(NameList, places)
  BY DEF Listed
<1>2. NameList \in Seq(Names) /\ places \in SUBSET DOMAIN NameList
  BY FileBaseAssumption
<1> HIDE DEF places
<1>3. new \in Seq(Names)
  BY <1>1, <1>2, SelectionFacts
<1> QED BY <1>3

\* A file keeps a live header when each of those it has is kept.
LEMMA HasFacts ==
  ASSUME NEW s, NEW w, NEW n, Has(s, n),
         \A k \in DOMAIN s : Live(s[k]) /\ s[k].name = n => \E i \in DOMAIN w : Live(w[i]) /\ w[i].name = n
  PROVE  Has(w, n)
  BY DEF Has

\* The files that Clean removes with their headers.
Gone(a, u, old) ==
  IF u.op \notin {"clean", "killmissing"} THEN {}
  ELSE {hdr[a][i].name : i \in {k \in DOMAIN hdr[a] : ~Stays(a, old, u.op = "killmissing", hdr[a][k])}}

\* SetAttrib and UpdateTimes change one field or two; only "kill" marks deleted.
LEMMA ChangedFacts ==
  ASSUME NEW a \in Areas, disk \in [Areas -> [Names -> Contents]],
         NEW u, u.op \in {"kill", "lock", "unlock", "touch"}, NEW h \in Headers
  PROVE  LET c == Changed(a, u, h)
         IN c \in Headers /\ c.name = h.name /\ (Live(h) /\ ~(u.op = "kill" /\ h.name \in u.names) => Live(c))
<1> DEFINE v == disk[a][h.name]
           k == [h EXCEPT !.flags = @ \cup {"deleted"}]
           l == [h EXCEPT !.flags = @ \cup {"locked"}]
           m == [h EXCEPT !.flags = @ \ {"locked"}]
           o == [h EXCEPT !.size = v, !.flags = @ \ {"missing"}]
           c == Changed(a, u, h)
<1>1. OnDisk(a, h.name) => v \in Contents
  BY DEF OnDisk
<1>2. k \in Headers /\ k.name = h.name
  BY DEF Headers, Flags
<1>3. l \in Headers /\ l.name = h.name /\ (Live(h) => Live(l))
  BY DEF Headers, Flags, Live
<1>4. m \in Headers /\ m.name = h.name /\ (Live(h) => Live(m))
  BY DEF Headers, Flags, Live
<1>5. v \in Contents => o \in Headers /\ o.name = h.name /\ (Live(h) => Live(o))
  <2> HIDE DEF v
  <2> QED BY DEF Headers, Flags, Live
<1>6. c = IF h.name \notin u.names THEN h
          ELSE CASE u.op = "kill" -> k [] u.op = "lock" -> l [] u.op = "unlock" -> m
                 [] u.op = "touch" -> IF ~OnDisk(a, h.name) THEN h ELSE o
  BY Zenon DEF Changed
<1> HIDE DEF c, k, l, m, o, v
<1>7. c \in Headers /\ c.name = h.name /\ (Live(h) /\ ~(u.op = "kill" /\ h.name \in u.names) => Live(c))
  BY <1>1, <1>2, <1>3, <1>4, <1>5, <1>6
<1> QED BY <1>7 DEF c

\* Whatever the call makes of them are headers, and a file that it is not to
\* remove keeps a live one.
LEMMA ResultsKeep ==
  ASSUME NEW a \in Areas, hdr[a] \in Seq(Headers), disk \in [Areas -> [Names -> Contents]],
         NEW u \in Upkeep, u.op # "add", NEW old, NEW ents \in Results(a, u, old)
  PROVE  /\ ents \in Seq(Headers)
         /\ \A n : Has(hdr[a], n) /\ n \notin Gone(a, u, old) /\ ~(u.op = "kill" /\ n \in u.names) => Has(ents, n)
<1> DEFINE s == hdr[a]
<1>1. u.op \in {"clean", "killmissing", "kill", "lock", "unlock", "adopt", "touch",
                "sort", "reverse", "compress", "rebuild", "import", "importmissing"}
  BY FileMaintAssumption
<1>2. CASE u.op \in {"clean", "killmissing"}
  <2> DEFINE places == {i \in DOMAIN s : Stays(a, old, u.op = "killmissing", s[i])}
  <2>1. ents \in Selections(s, places) /\ places \in SUBSET DOMAIN s
    BY <1>2, Zenon DEF Results
  <2>2. ents \in Seq(Headers) /\ \A k \in places : \E i \in DOMAIN ents : ents[i] = s[k]
    <3> HIDE DEF s, places
    <3> QED BY <2>1, SelectionFacts DEF s
  <2>3. ASSUME NEW n, Has(s, n), n \notin Gone(a, u, old) PROVE Has(ents, n)
    <3>1. \A k \in DOMAIN s : s[k].name = n => k \in places
      BY <1>2, <2>3, Zenon DEF Gone
    <3> HIDE DEF s, places
    <3> QED BY <2>2, <2>3, <3>1, HasFacts
  <2> QED BY <2>2, <2>3
<1>3. CASE u.op \in {"kill", "lock", "unlock", "touch"}
  <2> DEFINE c(h) == Changed(a, u, h)
  <2>1. ents = [i \in DOMAIN s |-> c(s[i])]
    BY <1>3 DEF Results
  <2>2. ASSUME NEW h \in Headers
        PROVE  c(h) \in Headers /\ c(h).name = h.name /\ (Live(h) /\ ~(u.op = "kill" /\ h.name \in u.names) => Live(c(h)))
    <3> HIDE DEF c
    <3> QED BY <1>3, ChangedFacts DEF c
  <2> HIDE DEF c
  <2>3. \A i \in DOMAIN s : s[i] \in Headers
    BY ElementOfSeq
  <2>4. ents \in [1 .. Len(s) -> Headers] /\ Len(s) \in Nat /\ DOMAIN s = 1 .. Len(s)
    BY <2>1, <2>2, <2>3
  <2>5. ents \in Seq(Headers) /\ DOMAIN ents = DOMAIN s
    BY <2>4, SeqOfFun
  <2>6. ASSUME NEW n, Has(s, n), ~(u.op = "kill" /\ n \in u.names) PROVE Has(ents, n)
    <3>1. PICK k \in DOMAIN s : Live(s[k]) /\ s[k].name = n
      BY <2>6 DEF Has
    <3>2. ents[k] = c(s[k]) /\ s[k] \in Headers
      BY <2>1, <2>3
    <3>3. Live(ents[k]) /\ ents[k].name = n
      BY <2>2, <2>6, <3>1, <3>2
    <3> QED BY <2>5, <3>3 DEF Has
  <2> QED BY <2>5, <2>6
<1>4. CASE u.op \in {"sort", "reverse"}
  <2>1. ents \in Sortings(s, u.op = "reverse")
    BY <1>4 DEF Results
  <2> DEFINE down == u.op = "reverse"
  <2>2. ents \in Seq(Headers) /\ \A k \in DOMAIN s : \E i \in DOMAIN ents : ents[i] = s[k]
    <3>1. ents \in Sortings(s, down)
      BY <2>1
    <3> HIDE DEF s, down
    <3> QED BY <3>1, SortingFacts DEF s
  <2> HIDE DEF s
  <2> QED BY <2>2, HasFacts DEF s
<1>5. CASE u.op = "compress"
  <2> DEFINE places == {i \in DOMAIN s : Live(s[i])}
  <2>1. ents \in Selections(s, places) /\ places \in SUBSET DOMAIN s
    BY <1>5 DEF Results
  <2>2. ents \in Seq(Headers) /\ \A k \in places : \E i \in DOMAIN ents : ents[i] = s[k]
    <3> HIDE DEF s, places
    <3> QED BY <2>1, SelectionFacts DEF s
  <2> HIDE DEF s
  <2> QED BY <2>2, HasFacts DEF s
<1>6. CASE u.op = "rebuild"
  BY <1>6 DEF Results
<1>7. ASSUME NEW n \in Names, NEW fl \in SUBSET Flags, NEW c \in Contents PROVE Header(n, c, fl) \in Headers
  BY DEF Header, Headers
<1>8. \A n \in Names : FileHeader(a)[n] \in Headers
  BY <1>7 DEF FileHeader
<1>9. ASSUME NEW n \in Nat, NEW more \in [1 .. n -> Headers], ents = s \o more
      PROVE  ents \in Seq(Headers) /\ \A m : Has(s, m) => Has(ents, m)
  <2>1. ents \in Seq(Headers) /\ \A k \in DOMAIN s : \E i \in DOMAIN ents : ents[i] = s[k]
    <3> HIDE DEF s
    <3> QED BY <1>9, AddedFacts DEF s
  <2> HIDE DEF s
  <2> QED BY <2>1, HasFacts
<1>10. CASE u.op = "adopt"
  <2>1. PICK new \in Listed({n \in u.names : OnDisk(a, n) /\ ~Catalogued(a, n)}) :
          ents = s \o [i \in DOMAIN new |-> FileHeader(a)[new[i]]]
    BY <1>10 DEF Results, Adopted
  <2>2. Len(new) \in Nat /\ new \in [1 .. Len(new) -> Names]
    BY ListedFacts
  <2>3. [i \in DOMAIN new |-> FileHeader(a)[new[i]]] \in [1 .. Len(new) -> Headers]
    BY <1>8, <2>2
  <2> QED BY <1>9, <2>1, <2>2, <2>3
<1>11. CASE u.op \in {"import", "importmissing"}
  <2> DEFINE h(n) == IF OnDisk(a, n) THEN FileHeader(a)[n] ELSE Header(n, "none", {"missing"})
  <2>1. PICK new \in Listed({n \in u.names : /\ \A i \in DOMAIN s : s[i].name # n
                                             /\ OnDisk(a, n) \/ ~(u.op = "importmissing")}) :
          ents = s \o [i \in DOMAIN new |-> h(new[i])]
    BY <1>11, Zenon DEF Results, Imported
  <2>2. Len(new) \in Nat /\ new \in [1 .. Len(new) -> Names]
    BY ListedFacts
  <2>3. \A n \in Names : h(n) \in Headers
    BY <1>7, <1>8 DEF Flags, Contents
  <2> HIDE DEF h
  <2>4. [i \in DOMAIN new |-> h(new[i])] \in [1 .. Len(new) -> Headers]
    BY <2>2, <2>3
  <2> QED BY <1>9, <2>1, <2>2, <2>4
<1> QED BY <1>1, <1>2, <1>3, <1>4, <1>5, <1>6, <1>10, <1>11

\* The step of a maintenance call that reads the headers and computes new ones.
LEMMA MaintainStep ==
  ASSUME Inv, Numbering, NEW a \in Areas, NEW u \in Upkeep, Maintain(a, u)
  PROVE  /\ JobMoves(Keeper) /\ JobsInv' /\ KeepInv' /\ HeadersInv' /\ \A q \in Processes : CallShape(job'[q])
         /\ clash \subseteq clash' /\ UNCHANGED hdr /\ disk' \in [Areas -> [Names -> Contents]]
<1> DEFINE b == Bad
           b2 == Bad'
           k == job[Keeper]
           r == job'[Keeper]
<1> DEFINE turns(old, ents) ==
             /\ disk' = IF a \notin Moves
                          THEN [disk EXCEPT ![a] = [n \in Names |-> IF n \in Gone(a, u, old) THEN "none" ELSE @[n]]]
                          ELSE disk
             /\ job' = [job EXCEPT ![Keeper] =
                          IF u.op = "adopt" /\ ents = hdr[a] THEN Idle
                          ELSE [Call("empty", a, "none", 0) EXCEPT !.ents = ents]]
             /\ accepted' = {x \in accepted :
                               ~(x[1] = a /\ (x[2] \in Gone(a, u, old) \/ (u.op = "kill" /\ x[2] \in u.names)))}
<1>0. PICK old : \E w \in Results(a, u, old) : turns(old, w)
  BY Zenon DEF Maintain, Gone
<1>1. PICK ents \in Results(a, u, old) : turns(old, ents)
  BY <1>0, Zenon
<1>2. k.at \in {"idle", "done"} /\ u.op # "add" /\ hdr' = hdr /\ clash' = clash /\ Keeper \in Processes
  BY FileMaintAssumption DEF Maintain
<1>3. b \subseteq b2
  BY <1>2, BadGrows
<1> DEFINE e == [Call("empty", a, "none", 0) EXCEPT !.ents = ents]
           gone == Gone(a, u, old)
<1>4. CallShape(e) /\ e.at = "empty" /\ e.area = a /\ e.ents = ents
  <2> DEFINE c == Call("empty", a, "none", 0)
  <2>1. CallShape(c) /\ c.at = "empty" /\ c.area = a
    BY CallFacts DEF CallPcs
  <2> HIDE DEF c
  <2>2. CallShape([c EXCEPT !.ents = ents]) /\ [c EXCEPT !.ents = ents].at = "empty"
        /\ [c EXCEPT !.ents = ents].area = a /\ [c EXCEPT !.ents = ents].ents = ents
    BY <2>1 DEF CallShape
  <2> QED BY <2>2 DEF c
<1>5. disk' \in [Areas -> [Names -> Contents]]
  <2>1. disk \in [Areas -> [Names -> Contents]]
    BY DEF Inv, Shape
  <2> DEFINE d == [n \in Names |-> IF n \in gone THEN "none" ELSE disk[a][n]]
  <2>2. d \in [Names -> Contents]
    <3> HIDE DEF gone
    <3> QED BY <2>1 DEF Contents
  <2>3. disk' = [disk EXCEPT ![a] = d] \/ disk' = disk
    BY <1>1
  <2> HIDE DEF d
  <2> QED BY <2>1, <2>2, <2>3
<1>6. \A x \in accepted' : x \in accepted /\ (x[1] = a => x[2] \notin gone /\ ~(u.op = "kill" /\ x[2] \in u.names))
  BY <1>1
<1>7. a \notin b2 =>
        /\ ents \in Seq(Headers)
        /\ \A x \in accepted' : x[1] = a => Has(ents, x[2])
  <2> SUFFICES ASSUME a \notin b2
               PROVE  /\ ents \in Seq(Headers)
                      /\ \A x \in accepted' : x[1] = a => Has(ents, x[2])
    OBVIOUS
  <2>1. hdr[a] \in Seq(Headers) /\ disk \in [Areas -> [Names -> Contents]] /\ a \notin b
    BY <1>3 DEF Inv, HeadersInv, Shape
  <2>2. /\ ents \in Seq(Headers)
        /\ \A n : Has(hdr[a], n) /\ n \notin gone /\ ~(u.op = "kill" /\ n \in u.names) => Has(ents, n)
    BY <1>1, <1>2, <2>1, ResultsKeep
  <2>3. ASSUME NEW x \in accepted', x[1] = a PROVE Has(ents, x[2])
    <3>1. KeptOk(x, b, hdr, k)
      BY <1>6, <2>3 DEF Inv, KeepInv
    <3> HIDE DEF b, k, gone
    <3>2. Has(hdr[a], x[2])
      BY <1>2, <2>1, <2>3, <3>1 DEF KeptOk
    <3> QED BY <1>6, <2>2, <2>3, <3>2
  <2> QED BY <2>2, <2>3
<1> HIDE DEF e, gone, k
<1>8. JobMoves(Keeper) /\ CallShape(r) /\ (r = Idle \/ r = e)
  <2>1. Shape /\ CallShape(Idle)
    BY IdleFacts DEF Inv
  <2>2. job' = [job EXCEPT ![Keeper] = Idle] \/ job' = [job EXCEPT ![Keeper] = e]
    BY <1>1 DEF e
  <2> QED BY <1>2, <1>4, <2>1, <2>2, JobSet
<1>9. JobOk(Keeper, r, b2, hdr, accepted')
  <2>1. Idle.at = "idle"
    BY IdleFacts
  <2> HIDE DEF r, b2
  <2>2. JobOk(Keeper, Idle, b2, hdr, accepted')
    BY <2>1 DEF JobOk
  <2>3. JobOk(Keeper, e, b2, hdr, accepted')
    BY <1>4, <1>7 DEF JobOk, CallOk, Has
  <2> QED BY <1>8, <2>2, <2>3
<1>10. ASSUME NEW q \in Processes PROVE JobOk(q, job'[q], b2, hdr', accepted')
  <2>1. CASE q = Keeper
    BY <1>2, <1>9, <2>1
  <2>2. CASE q # Keeper
    <3> DEFINE j == job[q]
    <3>1. job'[q] = j /\ JobOk(q, j, b, hdr, accepted)
      BY <1>8, <2>2 DEF JobMoves, Inv, JobsInv
    <3>2. NamesKept(hdr[j.area], hdr[j.area])
      BY DEF NamesKept
    <3> HIDE DEF j, b, b2
    <3>3. JobOk(q, j, b2, hdr, accepted')
      BY <1>3, <1>6, <3>1, <3>2, CallKept
    <3> QED BY <1>2, <3>1, <3>3
  <2> QED BY <2>1, <2>2
<1>11. ASSUME NEW x \in accepted' PROVE KeptOk(x, b2, hdr', r)
  <2>1. KeptOk(x, b, hdr, k)
    BY <1>6 DEF Inv, KeepInv, k
  <2> HIDE DEF b, b2, r
  <2> QED BY <1>2, <1>3, <2>1, UploadKept
<1>12. \A c \in Areas \ b2 : hdr'[c] \in Seq(Headers)
  BY <1>2, <1>3 DEF Inv, HeadersInv
<1>13. \A q \in Processes : CallShape(job'[q])
  BY <1>8 DEF Inv, Shape, JobMoves
<1> QED BY <1>2, <1>5, <1>8, <1>10, <1>11, <1>12, <1>13, JobsAfter, KeepAfter, HeadersAfter

\* Add, up to AddToFDB.
LEMMA AddFileStep ==
  ASSUME Inv, Numbering, NEW a \in Areas, NEW u \in Upkeep, AddFile(a, u)
  PROVE  /\ JobMoves(Keeper) /\ JobsInv' /\ KeepInv' /\ HeadersInv' /\ \A q \in Processes : CallShape(job'[q])
         /\ clash \subseteq clash' /\ UNCHANGED hdr /\ disk' \in [Areas -> [Names -> Contents]]
<1>1. /\ job[Keeper].at \in {"idle", "done"} /\ Quiet /\ Keeper \in Processes
      /\ u.names \subseteq Names
  BY FileMaintAssumption DEF AddFile, Quiet
<1>2. PICK n \in u.names :
       /\ disk' = [disk EXCEPT ![a][n] = "new"]
       /\ job' = [job EXCEPT ![Keeper] = IF Catalogued(a, n) THEN Idle ELSE Call("catalog", a, n, 0)]
  BY Zenon DEF AddFile
<1> DEFINE c == Call("catalog", a, n, 0)
           r == job'[Keeper]
<1>3. CallShape(c) /\ c.at = "catalog" /\ c.area = a /\ c.flags = {}
  BY CallFacts DEF CallPcs
<1>4. disk' \in [Areas -> [Names -> Contents]]
  <2>1. disk \in [Areas -> [Names -> Contents]] /\ "new" \in Contents /\ n \in Names
    BY <1>1 DEF Inv, Shape, Contents
  <2> QED BY <1>2, <2>1
<1> HIDE DEF c
<1>5. JobMoves(Keeper) /\ CallShape(r) /\ (r = Idle \/ r = c)
  <2>1. Shape /\ CallShape(Idle)
    BY IdleFacts DEF Inv
  <2>2. job' = [job EXCEPT ![Keeper] = Idle] \/ job' = [job EXCEPT ![Keeper] = c]
    BY <1>2 DEF c
  <2> QED BY <1>1, <1>3, <2>1, <2>2, JobSet
<1>6. JobOk(Keeper, r, Bad, hdr, accepted)
  <2>1. Idle.at = "idle"
    BY IdleFacts
  <2>2. JobOk(Keeper, Idle, Bad, hdr, accepted)
    BY <2>1 DEF JobOk
  <2>3. JobOk(Keeper, c, Bad, hdr, accepted)
    BY <1>3 DEF JobOk, CallOk
  <2> HIDE DEF r
  <2> QED BY <1>5, <2>2, <2>3
<1>7. job[Keeper].at # "write"
  BY <1>1
<1>8. JobsInv' /\ KeepInv' /\ HeadersInv' /\ \A q \in Processes : CallShape(job'[q])
  BY <1>1, <1>5, <1>6, <1>7, QuietStep
<1> QED BY <1>1, <1>4, <1>5, <1>8 DEF Quiet

---------------------------------------------------------------------------
(* The disk and the lists of tags. *)

\* The list of one node is set.
LEMMA TagsSet ==
  ASSUME Shape, NEW n \in Nodes, NEW v, tags' = [tags EXCEPT ![n] = v]
  PROVE  tags' = [m \in Nodes |-> tags'[m]]
  BY DEF Shape

\* A session changes the list of its node.
LEMMA TagsSession ==
  ASSUME Shape, NEW n \in Nodes, SessionStep(n)
  PROVE  tags' = [m \in Nodes |-> tags'[m]]
<1>1. CASE UNCHANGED tags
  BY <1>1 DEF Shape
<1>2. CASE Download(n)
  <2> DEFINE list(c) == AddNamesToTag(n, c.names, c.area, c.global, c.any)
  <2>1. PICK c \in Commands : UNCHANGED tags \/ tags' = [tags EXCEPT ![n] = list(c)]
    BY <1>2 DEF Download
  <2> HIDE DEF list
  <2> QED BY <1>1, <2>1, TagsSet
<1>3. CASE Edit(n)
  <2> DEFINE c == bbs[n].cmd
  <2>1. CASE \E spec \in Typed : tags' = [tags EXCEPT ![n] = AddNamesToTag(n, spec, c.area, c.global, c.any)]
    BY <2>1, TagsSet
  <2>2. CASE \E lo, hi \in DOMAIN tags[n] : lo <= hi /\ tags' = [tags EXCEPT ![n] = DeleteNumbers(tags[n], lo, hi)]
    BY <2>2, TagsSet
  <2>3. CASE \E spec \in Typed : tags' = [tags EXCEPT ![n] = DeleteFromTagged(tags[n], spec)]
    BY <2>3, TagsSet
  <2>4. CASE tags' = [tags EXCEPT ![n] = <<>>]
    BY <2>4, TagsSet
  <2>5. tags = [m \in Nodes |-> tags[m]]
    BY DEF Shape
  <2> QED BY <1>3, <2>1, <2>2, <2>3, <2>4, <2>5 DEF Edit
<1>4. CASE DownloadEnds(n)
  <2> DEFINE list == UntagDownloaded(tags[n], bbs[n].sent)
  <2>1. tags' = [tags EXCEPT ![n] = list]
    BY <1>4 DEF DownloadEnds
  <2> HIDE DEF list
  <2> QED BY <2>1 DEF Shape
<1>5. UNCHANGED tags \/ Download(n) \/ Edit(n) \/ DownloadEnds(n)
  <2>1. CASE EditEnds(n) \/ StartDownload(n) \/ Sending(n) \/ LocalDownload(n)
    BY <2>1, Zenon DEF EditEnds, StartDownload, Sending, LocalDownload
  <2>2. CASE CountNext(n) \/ Counted(n) \/ Upload(n) \/ StartUpload(n)
    BY <2>2, Zenon DEF CountNext, Counted, Upload, StartUpload
  <2>3. CASE LocalUpload(n) \/ Receive(n) \/ CheckUpload(n)
    BY <2>3, Zenon DEF LocalUpload, Receive, CheckUpload
  <2>4. CASE Describe(n) \/ Uploaded(n) \/ UploadEnds(n) \/ Lose(n)
    BY <2>4 DEF Describe, Uploaded, UploadEnds, Lose
  <2> QED BY <2>1, <2>2, <2>3, <2>4 DEF SessionStep
<1> QED BY <1>1, <1>2, <1>3, <1>4, <1>5

\* Uploads add files and erase bad ones.
LEMMA DiskSession ==
  ASSUME Inv, NEW n \in Nodes, SessionStep(n)
  PROVE  disk' \in [Areas -> [Names -> Contents]]
<1> DEFINE a == bbs[n].cmd.area
<1>0. disk \in [Areas -> [Names -> Contents]] /\ "new" \in Contents /\ "none" \in Contents
  BY DEF Inv, Shape, Contents
<1>1. CASE UNCHANGED disk
  BY <1>0, <1>1
<1>2. CASE LocalUpload(n)
  <2>1. PICK f : UNCHANGED disk \/ disk' = [disk EXCEPT ![a][f] = "new"]
    BY <1>2 DEF LocalUpload
  <2> HIDE DEF a
  <2> QED BY <1>0, <2>1
<1>3. CASE Receive(n)
  <2>1. PICK R : disk' = [disk EXCEPT ![a] = [f \in Names |-> IF f \in R THEN "new" ELSE @[f]]]
    BY <1>3, Zenon DEF Receive
  <2> HIDE DEF a
  <2> QED BY <1>0, <2>1
<1>4. CASE CheckUpload(n)
  <2> DEFINE f == Head(bbs[n].names)
  <2>1. UNCHANGED disk \/ disk' = [disk EXCEPT ![a][f] = "none"]
    BY <1>4 DEF CheckUpload
  <2> HIDE DEF a, f
  <2> QED BY <1>0, <2>1
<1>5. UNCHANGED disk \/ LocalUpload(n) \/ Receive(n) \/ CheckUpload(n)
  <2>1. CASE Download(n) \/ Edit(n) \/ EditEnds(n)
    BY <2>1, Zenon DEF Download, Edit, EditEnds, NoCall
  <2>2. CASE StartDownload(n) \/ Sending(n) \/ LocalDownload(n)
    BY <2>2, Zenon DEF StartDownload, Sending, LocalDownload, NoCall
  <2>3. CASE CountNext(n) \/ Counted(n) \/ DownloadEnds(n) \/ Upload(n) \/ StartUpload(n)
    BY <2>3, Zenon DEF CountNext, Counted, DownloadEnds, Upload, StartUpload, NoCall
  <2>4. CASE Describe(n) \/ Uploaded(n) \/ UploadEnds(n) \/ Lose(n)
    BY <2>4 DEF Describe, Uploaded, UploadEnds, Lose, NoCall
  <2> QED BY <2>1, <2>2, <2>3, <2>4 DEF SessionStep
<1> QED BY <1>1, <1>2, <1>3, <1>4, <1>5

\* STOR and DELE write and remove files.
LEMMA DiskConn ==
  ASSUME Inv, NEW c \in Conns, FtpStep(c)
  PROVE  disk' \in [Areas -> [Names -> Contents]]
<1> DEFINE D == [Areas -> [Names -> Contents]]
           s == ftp[c]
<1>0. disk \in D /\ "new" \in Contents /\ "cut" \in Contents /\ "none" \in Contents
  BY DEF Inv, Shape, Contents
<1>1. CASE Accept(c) \/ Refuse(c) \/ Leave(c) \/ OpenData(c) \/ StorEnds(c)
  BY <1>0, <1>1 DEF Accept, Refuse, Leave, OpenData, StorEnds, NoJob
<1>2. CASE CopyEnds(c)
  <2>1. UNCHANGED disk \/ \E v \in {"cut", "new"} : disk' = [disk EXCEPT ![s.file.area][s.file.name] = v]
    BY <1>2 DEF CopyEnds, Received
  <2> QED BY <1>0, <2>1
<1>3. CASE DeleEnds(c)
  <2>1. disk' = [disk EXCEPT ![s.file.area][s.file.name] = "none"]
    BY <1>3 DEF DeleEnds
  <2> QED BY <1>0, <2>1
<1>4. CASE \E n \in Stored : CmdStor(c, n)
  <2>1. PICK n \in Stored : CmdStor(c, n)
    BY <1>4
  <2> DEFINE a == UploadTo[s.area]
             v == IF s.rest /\ disk[a][n] # "none" THEN disk[a][n] ELSE "cut"
  <2>2. \/ UNCHANGED disk
        \/ s.area \in Stores[s.user] /\ disk' = [disk EXCEPT ![a][n] = v]
    BY <2>1 DEF CmdStor, Answers, NoJob
  <2>3. s.area \in Stores[s.user] => v \in Contents
    <3>1. s.user \in Users
      BY DEF Inv, FtpInv, Sound
    <3>2. s.area \in Stores[s.user] => a \in Areas /\ n \in Names
      BY <3>1, FtpAssumption, FileBaseAssumption
    <3> QED BY <1>0, <3>2
  <2> HIDE DEF v, a
  <2> QED BY <1>0, <2>2, <2>3
<1>5. CASE Command(c) /\ ~\E n \in Stored : CmdStor(c, n)
  <2>1. UNCHANGED disk
    <3>1. CASE \E u \in Users \cup {"anonymous"} : CmdUser(c, u)
      BY <3>1 DEF CmdUser, Answers, NoJob
    <3>2. CASE \E right \in BOOLEAN : CmdPass(c, right) \/ CmdPasv(c, right) \/ CmdPort(c, right) \/ CmdRest(c, right)
      BY <3>2 DEF CmdPass, CmdPasv, CmdPort, CmdRest, Answers, NoJob
    <3>3. CASE CmdCdup(c) \/ CmdList(c)
      BY <3>3 DEF CmdCdup, CmdList, Answers, NoJob
    <3>4. CASE \E p \in Paths : CmdCwd(c, p) \/ CmdRetr(c, p) \/ CmdDele(c, p)
      BY <3>4 DEF CmdCwd, CmdRetr, CmdDele, Answers, NoJob
    <3> QED BY <1>5, <3>1, <3>2, <3>3, <3>4 DEF Command
  <2> QED BY <1>0, <2>1
<1> QED BY <1>1, <1>2, <1>3, <1>4, <1>5 DEF FtpStep, Serve

---------------------------------------------------------------------------
(* All steps. *)

Parts == Shape /\ HeadersInv /\ TagsInv /\ MenusInv /\ JobsInv /\ KeepInv

\* The initial states.
LEMMA AtStart == Init => Inv
<1> SUFFICES ASSUME Init PROVE Inv
  OBVIOUS
<1>1. PICK s \in Starts : FileBaseInit(s)
  BY DEF Init
<1>2. /\ hdr \in [Areas -> Seq(Headers)] /\ disk \in [Areas -> [Names -> Contents]]
      /\ job = [p \in Processes |-> Idle] /\ clash = {} /\ accepted = {}
  BY <1>1, StartsAssumption DEF FileBaseInit
<1>3. tags = [n \in Nodes |-> <<>>] /\ bbs = [n \in Nodes |-> AtMenu] /\ misnumbered = {}
  BY DEF Init
<1>4. Fit(AtMenu, Bad, hdr)
  BY FitMenu
<1>5. Shape /\ MenusInv
  <2> DEFINE m == AtMenu
             j == Idle
  <2>1. MenuShape(m) /\ MenuOk(m, Bad, hdr) /\ CallShape(j)
    BY <1>4, IdleFacts DEF Fit
  <2> HIDE DEF m, j
  <2>2. MenusInv
    BY <1>3, <2>1 DEF MenusInv, m
  <2>3. hdr = [a \in Areas |-> hdr[a]] /\ tags = [n \in Nodes |-> tags[n]] /\ disk \in [Areas -> [Names -> Contents]]
    BY <1>2, <1>3
  <2>4. job = [p \in Processes |-> job[p]] /\ \A p \in Processes : CallShape(job[p])
    BY <1>2, <2>1 DEF j
  <2>5. bbs = [n \in Nodes |-> bbs[n]] /\ \A n \in Nodes : MenuShape(bbs[n])
    BY <1>3, <2>1 DEF m
  <2> QED BY <2>2, <2>3, <2>4, <2>5 DEF Shape
<1>6. JobsInv
  <2>1. Idle.at = "idle"
    BY IdleFacts
  <2> QED BY <1>2, <2>1 DEF JobsInv, JobOk
<1>7. HeadersInv /\ TagsInv /\ KeepInv
  BY <1>2, <1>3 DEF HeadersInv, TagsInv, KeepInv
<1> QED BY <1>5, <1>6, <1>7, FtpStays DEF Inv

\* The parts after a step, from what is said of it.
LEMMA PartsAfter ==
  ASSUME hdr' = [a \in Areas |-> hdr'[a]], tags' = [n \in Nodes |-> tags'[n]],
         disk' \in [Areas -> [Names -> Contents]],
         NEW p \in Processes, JobMoves(p), \A q \in Processes : CallShape(job'[q]),
         bbs' = [n \in Nodes |-> bbs'[n]], \A n \in Nodes : MenuShape(bbs'[n]),
         HeadersInv', TagsInv', MenusInv', JobsInv', KeepInv'
  PROVE  Parts'
<1>1. job' = [q \in Processes |-> job'[q]]
  BY DEF JobMoves
<1>2. Shape'
  BY <1>1, ShapeAfter
<1> QED BY <1>2 DEF Parts

\* The steps of a session keep the parts.
LEMMA NodeKeeps ==
  ASSUME Inv, Numbering, NEW n \in Nodes, SessionStep(n)
  PROVE  Parts'
<1>1. n \in Processes /\ n # Keeper
  BY FileSessionAssumption, FileServicesAssumption
<1>2. Quiet /\ hdr' = [a \in Areas |-> hdr'[a]]
  BY SessionQuiet DEF Quiet, Inv, Shape
<1>3. JobMoves(n) /\ JobsInv' /\ KeepInv' /\ HeadersInv' /\ \A q \in Processes : CallShape(job'[q])
  BY <1>1, <1>2, SessionCall, QuietStep
<1>4. TagsInv' /\ MenusInv' /\ bbs' = [m \in Nodes |-> bbs'[m]] /\ \A m \in Nodes : MenuShape(bbs'[m])
  BY SessionMenus
<1>5. disk' \in [Areas -> [Names -> Contents]] /\ tags' = [m \in Nodes |-> tags'[m]]
  BY DiskSession, TagsSession DEF Inv
<1> QED BY <1>1, <1>2, <1>3, <1>4, <1>5, PartsAfter

\* The steps of the others leave the sessions as they are.
LEMMA OthersKeep ==
  ASSUME Inv, Numbering, NEW p \in Processes, JobMoves(p), JobsInv', KeepInv', HeadersInv',
         \A q \in Processes : CallShape(job'[q]), clash \subseteq clash', hdr' = [a \in Areas |-> hdr'[a]],
         disk' \in [Areas -> [Names -> Contents]], UNCHANGED sessionVars
  PROVE  Parts'
<1>1. UNCHANGED <<tags, bbs>>
  BY DEF sessionVars
<1>2. TagsInv'
  BY <1>1, TagsStep
<1>3. MenusInv'
  BY <1>1, MenusStep
<1>4. /\ tags' = [n \in Nodes |-> tags'[n]] /\ bbs' = [n \in Nodes |-> bbs'[n]]
      /\ \A n \in Nodes : MenuShape(bbs'[n])
  BY <1>1 DEF Inv, Shape
<1> QED BY <1>2, <1>3, <1>4, PartsAfter

\* So do those of an FTP session,
LEMMA ConnKeeps ==
  ASSUME Inv, Numbering, NEW c \in Conns, FtpStep(c), UNCHANGED sessionVars
  PROVE  Parts'
<1>1. c \in Processes /\ c # Keeper
  BY FtpAssumption, FileServicesAssumption
<1>2. Quiet /\ hdr' = [a \in Areas |-> hdr'[a]] /\ clash \subseteq clash'
  BY FtpKinds DEF Quiet, Inv, Shape
<1>3. JobMoves(c) /\ JobsInv' /\ KeepInv' /\ HeadersInv' /\ \A q \in Processes : CallShape(job'[q])
  BY <1>1, <1>2, FtpCall, QuietStep
<1>4. disk' \in [Areas -> [Names -> Contents]]
  BY DiskConn
<1> QED BY <1>1, <1>2, <1>3, <1>4, OthersKeep

\* of a call,
LEMMA CallKeeps ==
  ASSUME Inv, Numbering, NEW p \in Processes, CallStep(p), UNCHANGED sessionVars
  PROVE  Parts'
<1>1. disk' \in [Areas -> [Names -> Contents]]
  <2>1. UNCHANGED disk
    <3>1. CASE Catalog(p) \/ Stat(p) \/ AfterUpload(p) \/ Bump(p) \/ Mark(p)
      BY <3>1, Zenon DEF Catalog, Stat, AfterUpload, Bump, Mark, Kept
    <3>2. CASE Put(p) \/ Empty(p) \/ Fill(p)
      BY <3>2, Zenon DEF Put, Empty, Fill, Write
    <3> QED BY <3>1, <3>2 DEF CallStep
  <2> QED BY <2>1 DEF Inv, Shape
<1>2. CASE Catalog(p) \/ Stat(p) \/ AfterUpload(p) \/ Bump(p) \/ Mark(p)
  <2>1. /\ Quiet /\ JobMoves(p) /\ JobsInv' /\ KeepInv' /\ HeadersInv'
        /\ \A q \in Processes : CallShape(job'[q])
    BY <1>2, QuietCalls
  <2>2. clash \subseteq clash' /\ hdr' = [a \in Areas |-> hdr'[a]]
    BY <2>1 DEF Quiet, Inv, Shape
  <2> QED BY <1>1, <2>1, <2>2, OthersKeep
<1>3. CASE Put(p) \/ Empty(p) \/ Fill(p)
  BY <1>1, <1>3, PutStep, EmptyStep, FillStep, OthersKeep
<1> QED BY <1>2, <1>3 DEF CallStep

\* and of the maintenance program.
LEMMA KeeperKeeps ==
  ASSUME Inv, Numbering, KeeperStep, UNCHANGED sessionVars
  PROVE  Parts'
<1>1. /\ JobMoves(Keeper) /\ JobsInv' /\ KeepInv' /\ HeadersInv' /\ \A q \in Processes : CallShape(job'[q])
      /\ clash \subseteq clash' /\ UNCHANGED hdr /\ disk' \in [Areas -> [Names -> Contents]]
  BY MaintainStep, AddFileStep DEF KeeperStep
<1>2. hdr' = [a \in Areas |-> hdr'[a]] /\ Keeper \in Processes
  BY <1>1, FileMaintAssumption DEF Inv, Shape
<1> QED BY <1>1, <1>2, OthersKeep

\* And steps of none of them.
LEMMA Stutters ==
  ASSUME Inv, UNCHANGED vars
  PROVE  Parts'
<1>1. UNCHANGED <<hdr, disk, job, clash, accepted, tags, bbs, misnumbered>>
  BY DEF vars
<1>2. Bad' = Bad
  BY <1>1 DEF Bad
<1>3. Shape'
  BY <1>1, ShapeAfter DEF Inv, Shape
<1>4. HeadersInv'
  BY <1>1, <1>2, HeadersAfter DEF Inv, HeadersInv
<1>5. TagsInv'
  BY <1>1, <1>2, TagsAfter DEF Inv, TagsInv
<1>6. MenusInv'
  BY <1>1, <1>2, MenusAfter DEF Inv, MenusInv
<1>7. JobsInv'
  BY <1>1, <1>2, JobsAfter DEF Inv, JobsInv
<1>8. KeepInv'
  BY <1>1, <1>2, KeepAfter DEF Inv, KeepInv
<1> QED BY <1>3, <1>4, <1>5, <1>6, <1>7, <1>8 DEF Parts

\* For any areas, files and sessions: the records of the calls, of the tags and
\* of the menus stay about the files they name, wherever the area is not bad.
THEOREM Inductive == Spec => []Inv
<1>1. ASSUME Inv, [Next]_vars PROVE Inv'
  <2>1. ASSUME UNCHANGED vars PROVE Parts'
    BY <1>1, <2>1, Stutters
  <2>2. ASSUME Next PROVE Parts'
    <3>1. Numbering
      BY <2>2 DEF Next
    <3>2. CASE \E n \in Nodes : NodeStep(n)
      BY <1>1, <3>1, <3>2, NodeKeeps DEF NodeStep
    <3>3. CASE \E c \in Conns : ConnStep(c)
      BY <1>1, <3>1, <3>3, ConnKeeps DEF ConnStep
    <3>4. CASE \E p \in Processes : Calls(p)
      BY <1>1, <3>1, <3>4, CallKeeps DEF Calls
    <3>5. CASE Upkeeps
      BY <1>1, <3>1, <3>5, KeeperKeeps DEF Upkeeps
    <3> QED BY <2>2, <3>2, <3>3, <3>4, <3>5 DEF Next
  <2>3. Parts'
    BY <1>1, <2>1, <2>2
  <2>4. FtpInv'
    BY <1>1, FtpStays DEF Inv
  <2> QED BY <2>3, <2>4 DEF Inv, Parts
<1> QED BY <1>1, AtStart, PTL DEF Spec

\* A file sent for a tag is the one that was tagged, and a header written in
\* place is written for its file over its record: wherever no records moved
\* while their numbers were held and no two calls wrote over each other.
THEOREM NumbersTrueThm == Spec => []NumbersTrue
<1>1. ASSUME Inv PROVE NumbersTrue
  <2>1. ASSUME NEW n \in Nodes, NEW i \in DOMAIN bbs[n].found
        PROVE  LET f == bbs[n].found[i] IN f.area \in misnumbered \cup clash \/ f.name = f.tag
    BY <1>1 DEF Inv, MenusInv, MenuOk, FoundOk, Bad
  <2>2. ASSUME NEW p \in Processes, job[p].at \in {"renew", "put"}, job[p].area \notin Bad
        PROVE  LET j == job[p]
               IN j.hdr.name = j.name /\ HasRecord(j.area, j.rec) /\ Record(j.area, j.rec).name = j.name
    <3> DEFINE j == job[p]
               h == hdr[j.area]
    <3>1. j.area \in Areas /\ CallOk(p, j, h, accepted)
      BY <1>1, <2>2 DEF Inv, JobsInv, JobOk
    <3>2. h \in Seq(Headers)
      BY <1>1, <2>2, <3>1 DEF Inv, HeadersInv
    <3>3. RecordOf(h, j.rec, j.name) /\ j.hdr.name = j.name
      BY <2>2, <3>1 DEF CallOk
    <3>4. j.rec < Len(h) /\ h[j.rec + 1].name = j.name
      <4> HIDE DEF h, j
      <4> QED BY <3>2, <3>3 DEF RecordOf
    <3> QED BY <3>3, <3>4 DEF HasRecord, Record
  <2>3. Bad = misnumbered \cup clash
    BY DEF Bad
  <2> QED BY <2>1, <2>2, <2>3 DEF NumbersTrue
<1> QED BY <1>1, Inductive, PTL

\* An upload that was written to the headers has a live one in its area until
\* somebody asks to remove it, whatever the other callers, the FTP clients and
\* the maintenance do there, unless the area is bad or is just being written.
THEOREM UploadsKeptThm == Spec => []UploadsKept
<1>1. ASSUME Inv PROVE UploadsKept
  <2> SUFFICES ASSUME NEW x \in accepted, x[1] \notin Bad, ~(job[Keeper].area = x[1] /\ job[Keeper].at = "write")
               PROVE  Catalogued(x[1], x[2])
    BY DEF UploadsKept, Bad
  <2>1. KeptOk(x, Bad, hdr, job[Keeper])
    BY <1>1 DEF Inv, KeepInv
  <2>2. Has(hdr[x[1]], x[2])
    BY <2>1 DEF KeptOk
  <2> QED BY <2>2 DEF Has, Catalogued
<1> QED BY <1>1, Inductive, PTL

=============================================================================
