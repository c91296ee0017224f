-------------------------------- MODULE Logon --------------------------------
(***************************************************************************)
(* Callers who log on, sign up and change their records                    *)
(* (internal/logon/logon.go, iemsi.go, internal/menu/funcs.go,             *)
(* internal/sysop/edituser.go, internal/quest/cmds.go), each in a process  *)
(* of its own, on one user base that no one locks.  Every read and write   *)
(* of USERS.BBS and of its index is a step.                                *)
(*                                                                         *)
(* A caller may fall silent for good at any prompt; the time-out for       *)
(* inactivity, or the lost connection, then makes every read of a key fail. *)
(***************************************************************************)
EXTENDS UserBase

CONSTANTS Nodes,      \* the nodes that take calls
          Newcomers,  \* those whose callers may sign up
          Trashcan,   \* the names of trashcan.ctl
          Tries,      \* PasswordTries
          InitBases,  \* the user bases there may be to begin with
          MaxDials,   \* bound on the calls, of all nodes together
          MaxEdits    \* bound on the changes of records, likewise

ASSUME LogonAssumption ==
  /\ Newcomers \subseteq Nodes
  /\ Trashcan \subseteq Names
  /\ Tries \in Nat \ {0}
  /\ InitBases \subseteq Seq(User)
  /\ MaxDials \in Nat
  /\ MaxEdits \in Nat

VARIABLES users,   \* USERS.BBS
          index,   \* the index, <<>> if there is none or it is being written
          pc,      \* pc[n]: where the session of node n is
          ret,     \* ret[n]: who searches: "auto", "name" or "handle"
          after,   \* after[n]: where the session goes on after a Write
          line,    \* line[n]: line.User
          rec,     \* rec[n]: line.User.Record
          asked,   \* asked[n]: the name searched for
          preset,  \* preset[n]: the password that came with it
          tries,   \* tries[n]: passwords tried
          emsi,    \* emsi[n]: the password of line.EmsiUser
          cands,   \* cands[n]: index entries Search has still to look at
          seen,    \* seen[n]: what Append or RebuildIndex read of USERS.BBS
          size,    \* size[n]: the size Append found
          silent,  \* the nodes whose callers are known to be gone
          dials,   \* calls so far
          edits,   \* changes so far
          blanked  \* the first record was written for a caller with none (history)

files == <<users, index>>
typed == <<asked, preset, emsi>>
copy == <<line, rec>>
scratch == <<cands, seen, size>>
past == <<dials, edits, blanked>>
vars == <<files, pc, ret, after, typed, copy, tries, scratch, silent, past>>

Goto(n, p) == pc' = [pc EXCEPT ![n] = p]
Return(n, p) == ret' = [ret EXCEPT ![n] = p]
Set(f, n, e) == [f EXCEPT ![n] = e]

\* The places where the session waits for its caller.
Prompts == {"name", "password", "confirm", "form", "menu"}

Init ==
  /\ users \in InitBases
  /\ index \in {<<>>, IndexOf(users)}
  /\ pc = [n \in Nodes |-> "off"]
  /\ ret = [n \in Nodes |-> "off"]
  /\ after = [n \in Nodes |-> "off"]
  /\ line = [n \in Nodes |-> ZeroUser]
  /\ rec = [n \in Nodes |-> 1]
  /\ asked = [n \in Nodes |-> NoName]
  /\ preset = [n \in Nodes |-> NoPassword]
  /\ emsi = [n \in Nodes |-> NoPassword]
  /\ tries = [n \in Nodes |-> 0]
  /\ cands = [n \in Nodes |-> {}]
  /\ seen = [n \in Nodes |-> <<>>]
  /\ size = [n \in Nodes |-> 0]
  /\ silent = {}
  /\ dials = 0
  /\ edits = 0
  /\ blanked = FALSE

-----------------------------------------------------------------------------
\* The start and the end of Perform, and its name prompt.

\* A process starts: line is new, and line.User.Record 0 is the first user's.
\* AutoUser, from the SSH server or the environment, is searched at once.
Call(n) ==
  /\ pc[n] = "off" /\ dials < MaxDials
  /\ \/ Goto(n, "loop") /\ UNCHANGED <<ret, asked, preset>>
     \/ \E name \in Names, pw \in AnyPassword :
          /\ asked' = Set(asked, n, name)
          /\ preset' = Set(preset, n, pw)
          /\ Return(n, "auto")
          /\ Goto(n, "index")
  /\ dials' = dials + 1
  /\ UNCHANGED <<files, after, emsi, copy, tries, scratch, silent, edits, blanked>>

\* The process ends, and its variables with it.
End(n) ==
  /\ Goto(n, "off")
  /\ Return(n, "off")
  /\ after' = Set(after, n, "off")
  /\ line' = Set(line, n, ZeroUser)
  /\ rec' = Set(rec, n, 1)
  /\ asked' = Set(asked, n, NoName)
  /\ preset' = Set(preset, n, NoPassword)
  /\ emsi' = Set(emsi, n, NoPassword)
  /\ tries' = Set(tries, n, 0)
  /\ cands' = Set(cands, n, {})
  /\ seen' = Set(seen, n, <<>>)
  /\ size' = Set(size, n, 0)
  /\ silent' = silent \ {n}

\* newUser was of no avail: Perform's loop goes on, AutoUser's caller is out.
GiveUp(n, gone) ==
  IF ret[n] = "auto" THEN End(n)
  ELSE /\ Goto(n, "loop")
       /\ seen' = Set(seen, n, <<>>)
       /\ size' = Set(size, n, 0)
       /\ silent' = gone
       /\ UNCHANGED <<ret, after, typed, copy, tries, cands>>

\* Mutant: the name is asked for with line.User as it happens to be.
AskAnyway(n) ==
  /\ pc[n] = "loop"
  /\ Goto(n, "name")
  /\ UNCHANGED <<files, ret, after, typed, copy, tries, scratch, silent, past>>

\* The head of Perform's loop: UserRecord is -1 until Search hits.
AskName(n) ==
  /\ pc[n] = "loop"
  /\ rec' = Set(rec, n, 0)
  /\ asked' = Set(asked, n, NoName)
  /\ preset' = Set(preset, n, NoPassword)
  /\ Return(n, "off")
  /\ Goto(n, "name")
  /\ UNCHANGED <<files, after, emsi, line, tries, scratch, silent, past>>

\* Search for the name that was entered.
Look(n, name, pw) ==
  /\ asked' = Set(asked, n, name)
  /\ preset' = Set(preset, n, pw)
  /\ Return(n, "name")
  /\ Goto(n, "index")

\* getUserName: a name, perhaps with ";" and a password.  Entering nothing
\* asks again.
EnterName(n) ==
  /\ pc[n] = "name" /\ n \notin silent
  /\ \E name \in Names, pw \in AnyPassword : Look(n, name, pw)
  /\ UNCHANGED <<files, after, emsi, copy, tries, scratch, silent, past>>

\* getIEMSIUser: a packet that passes its checks starts an IEMSI session, even
\* if the answer to it or the name in it is no good, and the prompt returns.
Iemsi(n) ==
  /\ pc[n] = "name" /\ n \notin silent
  /\ \E name \in AnyName, pw \in AnyPassword, answered \in BOOLEAN :
       /\ emsi' = Set(emsi, n, pw)
       /\ IF answered /\ name # NoName THEN Look(n, name, pw)
          ELSE UNCHANGED <<asked, preset, ret, pc>>
  /\ UNCHANGED <<files, after, copy, tries, scratch, silent, past>>

-----------------------------------------------------------------------------
\* Search, step by step.

\* The index is read at once, and the entries with the CRC remembered.
SearchIndex(n) ==
  /\ pc[n] = "index"
  /\ cands' = Set(cands, n, Candidates(index, asked[n]))
  /\ Goto(n, "records")
  /\ UNCHANGED <<files, ret, after, typed, copy, tries, seen, size, silent, past>>

\* The first password to try comes from IEMSI or with the name.
FirstPassword(n) == IF emsi[n] # NoPassword THEN emsi[n] ELSE preset[n]

\* A user is found.  AutoUser's password was checked by the SSH server, and is
\* checked again if there is one; other callers without a password pass, and
\* those with one are asked.  A caller changing the handle wants nobody else.
Hit(n, i) ==
  \/ /\ ret[n] = "handle"
     /\ Goto(n, IF i = rec[n] THEN "handle" ELSE "menu")
     /\ cands' = Set(cands, n, {})
     /\ UNCHANGED <<ret, after, typed, copy, tries, seen, size, silent>>
  \/ /\ ret[n] = "auto" /\ preset[n] \notin {NoPassword, users[i].pw}
     /\ End(n)
  \/ /\ \/ ret[n] = "auto" /\ preset[n] \in {NoPassword, users[i].pw} /\ Goto(n, "finish")
        \/ ret[n] = "name" /\ users[i].pw = NoPassword /\ Goto(n, "finish")
        \/ ret[n] = "name" /\ users[i].pw # NoPassword /\ Goto(n, "password")
     /\ line' = Set(line, n, users[i])
     /\ rec' = Set(rec, n, i)
     /\ preset' = Set(preset, n, FirstPassword(n))
     /\ cands' = Set(cands, n, {})
     /\ UNCHANGED <<ret, after, asked, emsi, tries, seen, size, silent>>

\* Nobody: a trashcan name, one that BothNames refuses, or one to sign up
\* with; or a handle that is free.
Miss(n) ==
  \/ ret[n] = "auto" /\ asked[n] \in Trashcan /\ End(n)
  \/ /\ \/ ret[n] = "auto" /\ asked[n] \notin Trashcan /\ Goto(n, "confirm")
        \/ ret[n] = "name" /\ \E p \in {"confirm", "loop"} : Goto(n, p)
        \/ ret[n] = "handle" /\ Goto(n, "handle")
     /\ UNCHANGED <<ret, after, typed, copy, tries, scratch, silent>>

Candidate(n) == CHOOSE i \in cands[n] : \A j \in cands[n] : i <= j

\* The next candidate: the one that was searched for or not.
NextCandidate(n, isIt) ==
  /\ pc[n] = "records" /\ cands[n] # {}
  /\ IF Candidate(n) \in DOMAIN users /\ isIt THEN Hit(n, Candidate(n))
     ELSE /\ cands' = Set(cands, n, cands[n] \ {Candidate(n)})
          /\ UNCHANGED <<pc, ret, after, typed, copy, tries, seen, size, silent>>
  /\ UNCHANGED <<files, past>>

\* Mutant: the index is believed.
SearchRecordUnread(n) == NextCandidate(n, TRUE)

\* Read the next candidate's record, which may be another one by now.
SearchRecord(n) == NextCandidate(n, Found(users[Candidate(n)], asked[n]))

\* Mutant: an index without the name ends the search.
SearchFileIfNoIndex(n) ==
  /\ pc[n] = "records" /\ cands[n] = {}
  /\ LET i == IF index = <<>> THEN Scan(users, asked[n]) ELSE 0
     IN  IF i # 0 THEN Hit(n, i) ELSE Miss(n)
  /\ UNCHANGED <<files, past>>

\* None of them: scan the file.
SearchFile(n) ==
  /\ pc[n] = "records" /\ cands[n] = {}
  /\ LET i == Scan(users, asked[n]) IN IF i # 0 THEN Hit(n, i) ELSE Miss(n)
  /\ UNCHANGED <<files, past>>

-----------------------------------------------------------------------------
\* The password.

\* One more password that is tried: the right one, a wrong one.
TryPassword(n, pw) ==
  /\ preset' = Set(preset, n, NoPassword)
  /\ tries' = Set(tries, n, tries[n] + 1)
  /\ Goto(n, IF pw = line[n].pw THEN "finish" ELSE "password")
  /\ UNCHANGED <<ret, after, asked, emsi, copy, scratch, silent>>

\* getPassword's loop: a password at hand, or one entered, while there are
\* tries left.
GetPassword(n) ==
  /\ pc[n] = "password" /\ tries[n] < Tries
  /\ \/ preset[n] # NoPassword /\ TryPassword(n, preset[n])
     \/ /\ preset[n] = NoPassword /\ n \notin silent
        /\ \E pw \in AnyPassword : TryPassword(n, pw)
  /\ UNCHANGED <<files, past>>

\* passwordTriesExceeded: a notice is posted, a text shown, and the caller is out.
TriesExceeded(n) ==
  /\ pc[n] = "out" \/ (pc[n] = "password" /\ tries[n] = Tries)
  /\ End(n)
  /\ UNCHANGED <<files, past>>

-----------------------------------------------------------------------------
\* Write, as the finish of a logon, menus, scripts and the sysop call it: the
\* record is read and compared, then written.  Errors are ignored.
Save(n, u, p) ==
  /\ line' = Set(line, n, u)
  /\ after' = Set(after, n, p)
  /\ Goto(n, "save")

CheckRecord(n) ==
  /\ pc[n] = "save"
  /\ Goto(n, IF MayWrite(users, rec[n], line[n]) THEN "put" ELSE after[n])
  /\ UNCHANGED <<files, ret, after, typed, copy, tries, scratch, silent, past>>

WriteRecord(n) ==
  /\ pc[n] = "put"
  /\ users' = Put(users, rec[n], line[n])
  /\ blanked' = (blanked \/ after[n] = "confirm")
  /\ Goto(n, after[n])
  /\ UNCHANGED <<index, ret, after, typed, copy, tries, scratch, silent, dials, edits>>

-----------------------------------------------------------------------------
\* newUser.

\* Whose callers may sign up, and under which names.
Accepted(n) == n \in Newcomers /\ asked[n] \notin Trashcan

\* The defaults of a new user, under the name that was entered.
SignUp(n, gone) ==
  /\ line' = Set(line, n, [ZeroUser EXCEPT !.name = asked[n], !.handle = asked[n],
                                           !.born = asked[n]])
  /\ rec' = Set(rec, n, 0)
  /\ silent' = gone
  /\ Goto(n, "form")
  /\ UNCHANGED <<ret, after, typed, tries, scratch>>

\* "Did you enter your name correctly": a private system or a trashcan name
\* ends it after all.
Confirm(n) ==
  /\ pc[n] = "confirm" /\ n \notin silent
  /\ \/ Accepted(n) /\ SignUp(n, silent)
     \/ GiveUp(n, silent)
  /\ UNCHANGED <<files, past>>

\* The questions.  Any handle is taken, the name if it is left blank; an IEMSI
\* session may bring handle and password along.  There may be a NEWUSER script.
FillForm(n) ==
  /\ pc[n] = "form" /\ n \notin silent
  /\ \E h \in Names, pw \in Passwords \union ({emsi[n]} \ {NoPassword}) :
       line' = Set(line, n, [line[n] EXCEPT !.handle = h, !.pw = pw])
  /\ \E p \in {"script", "signup"} : Goto(n, p)
  /\ UNCHANGED <<files, ret, after, typed, rec, tries, scratch, silent, past>>

\* Where the session goes on after a script, and so where one may run.
Onwards(n) ==
  CASE pc[n] \in {"name", "confirm"} -> pc[n]
    [] pc[n] = "password" /\ tries[n] = Tries -> "out"
    [] pc[n] = "script" -> "signup"
    [] OTHER -> "off"

\* A script changes the handle (SETUSERVAR) and writes the record: NEWUSER's, or
\* one that a text runs: at the name prompt; NOTFOUND, the question about the
\* name, TRASHCAN and PRIVATE; BADPWD.  AutoUser's caller, whom nobody knows,
\* still has the zero line.User then, and its Record 0.  (What a script does
\* during the questions is overwritten after them.)
RunScript(n) ==
  /\ Onwards(n) # "off" /\ edits < MaxEdits
  /\ \E h \in AnyName : Save(n, [line[n] EXCEPT !.handle = h], Onwards(n))
  /\ edits' = edits + 1
  /\ UNCHANGED <<files, ret, typed, rec, tries, scratch, silent, dials, blanked>>

\* After the script: name and Record as they were, no blank handle.  Append
\* opens the file, reads its size and its first record.
BeginAppend(n) ==
  /\ pc[n] = "signup"
  /\ line' = Set(line, n,
       [line[n] EXCEPT !.name = asked[n],
                       !.handle = IF @ = NoName THEN asked[n] ELSE @])
  /\ rec' = Set(rec, n, 0)
  /\ size' = Set(size, n, Len(users))
  /\ seen' = Set(seen, n, First(users))
  /\ Goto(n, "append")
  /\ UNCHANGED <<files, ret, after, typed, tries, cands, silent, past>>

\* Append writes the record where the file ended.
AppendRecord(n) ==
  /\ pc[n] = "append"
  /\ users' = Put(users, size[n] + 1, line[n])
  /\ rec' = Set(rec, n, size[n] + 1)
  /\ Goto(n, "verify")
  /\ UNCHANGED <<index, ret, after, typed, line, tries, scratch, silent, past>>

\* "append clobbered existing users": the first record is not what it was.
VerifyFirst(n) ==
  /\ pc[n] = "verify"
  /\ Goto(n, IF seen[n] \in {<<>>, First(users)} THEN "list" ELSE "undo")
  /\ UNCHANGED <<files, ret, after, typed, copy, tries, scratch, silent, past>>

\* It is put back, and the caller is not let in.
RestoreFirst(n) ==
  /\ pc[n] = "undo"
  /\ users' = Put(users, 1, seen[n][1])
  /\ GiveUp(n, silent)
  /\ UNCHANGED <<index, past>>

\* RebuildIndex: the user base is read, the index emptied, and written; that
\* fails here or there, and then the user exists but is told otherwise.
ListUsers(n) ==
  /\ pc[n] = "list"
  /\ seen' = Set(seen, n, users)
  /\ Goto(n, "empty")
  /\ UNCHANGED <<files, ret, after, typed, copy, tries, cands, size, silent, past>>

EmptyIndex(n) ==
  /\ pc[n] = "empty"
  /\ index' = <<>>
  /\ Goto(n, "index entries")
  /\ UNCHANGED <<users, ret, after, typed, copy, tries, scratch, silent, past>>

WriteIndex(n) ==
  /\ pc[n] = "index entries"
  /\ LET new == IndexOf(seen[n])
     IN  index' = new \o SubSeq(index, Len(new) + 1, Len(index))
  /\ Goto(n, "finish")
  /\ UNCHANGED <<users, ret, after, typed, copy, tries, scratch, silent, past>>

IndexFails(n) ==
  /\ pc[n] \in {"empty", "index entries"}
  /\ GiveUp(n, silent)
  /\ UNCHANGED <<files, past>>

\* finishLogon: one more call, and the record is written.
Finish(n) ==
  /\ pc[n] = "finish"
  /\ Save(n, [line[n] EXCEPT !.calls = @ + 1], "menu")
  /\ Return(n, "handle")
  /\ asked' = Set(asked, n, NoName)
  /\ preset' = Set(preset, n, NoPassword)
  /\ emsi' = Set(emsi, n, NoPassword)
  /\ tries' = Set(tries, n, 0)
  /\ seen' = Set(seen, n, <<>>)
  /\ size' = Set(size, n, 0)
  /\ UNCHANGED <<files, rec, cands, silent, past>>

-----------------------------------------------------------------------------
\* In the menus, and on the sysop's side of the node window.

\* Menu function 60 asks for a handle that nobody else answers to; the user's
\* own name needs no search.
ChangeHandle(n) ==
  /\ pc[n] = "menu" /\ n \notin silent /\ edits < MaxEdits
  /\ \E h \in Names :
       /\ asked' = Set(asked, n, h)
       /\ Goto(n, IF h = line[n].name THEN "handle" ELSE "index")
  /\ edits' = edits + 1
  /\ UNCHANGED <<files, ret, after, preset, emsi, copy, tries, scratch, silent, dials, blanked>>

TakeHandle(n) ==
  /\ pc[n] = "handle"
  /\ Save(n, [line[n] EXCEPT !.handle = asked[n]], "menu")
  /\ asked' = Set(asked, n, NoName)
  /\ UNCHANGED <<files, ret, preset, emsi, rec, tries, scratch, silent, past>>

\* Any other function that changes line.User and saves it, or a script there:
\* the password stands for all of them.
SaveUser(n) ==
  /\ pc[n] = "menu" /\ edits < MaxEdits
  /\ \E pw \in Passwords : Save(n, [line[n] EXCEPT !.pw = pw], "menu")
  /\ edits' = edits + 1
  /\ UNCHANGED <<files, ret, typed, rec, tries, scratch, silent, dials, blanked>>

\* Alt-E: the sysop changes anything, and saves it; the name is never blank.
EditUser(n) ==
  /\ pc[n] = "menu" /\ edits < MaxEdits
  /\ \E name \in Names, h \in AnyName, d \in BOOLEAN :
       Save(n, [line[n] EXCEPT !.name = name, !.handle = h, !.deleted = d], "menu")
  /\ edits' = edits + 1
  /\ UNCHANGED <<files, ret, typed, rec, tries, scratch, silent, dials, blanked>>

LogOff(n) ==
  /\ pc[n] = "menu" /\ n \notin silent
  /\ End(n)
  /\ UNCHANGED <<files, past>>

-----------------------------------------------------------------------------
\* Silence.

\* Mutant: a name prompt that could not be answered is repeated.
InputFailsRetry(n) ==
  /\ pc[n] \in Prompts
  /\ IF pc[n] = "name"
       THEN /\ silent' = silent \union {n}
            /\ Goto(n, "loop")
            /\ UNCHANGED <<ret, after, typed, copy, tries, scratch>>
       ELSE End(n)
  /\ UNCHANGED <<files, past>>

\* The caller is found to be gone: GetKey fails, and goes on failing.  Prompts
\* return an error; the question about the name returns its default answer,
\* yes or no.
InputFails(n) ==
  /\ pc[n] \in Prompts
  /\ \/ pc[n] = "form" /\ GiveUp(n, silent \union {n})
     \/ /\ pc[n] = "confirm"
        /\ \/ Accepted(n) /\ SignUp(n, silent \union {n})
           \/ GiveUp(n, silent \union {n})
     \/ pc[n] \in {"name", "menu"} /\ End(n)
     \/ pc[n] = "password" /\ preset[n] = NoPassword /\ End(n)
  /\ UNCHANGED <<files, past>>

-----------------------------------------------------------------------------
\* What the session does by itself.
Searching(n) == SearchIndex(n) \/ SearchRecord(n) \/ SearchFile(n)
Admitting(n) == AskName(n) \/ GetPassword(n) \/ TriesExceeded(n)
Appending(n) ==
  \/ BeginAppend(n) \/ AppendRecord(n)
  \/ VerifyFirst(n) \/ RestoreFirst(n)
  \/ ListUsers(n) \/ EmptyIndex(n) \/ WriteIndex(n) \/ IndexFails(n)
Saving(n) == CheckRecord(n) \/ WriteRecord(n) \/ Finish(n) \/ TakeHandle(n)
Work(n) == Searching(n) \/ Admitting(n) \/ Appending(n) \/ Saving(n)

Next ==
  \E n \in Nodes :
    \/ Call(n) \/ EnterName(n) \/ Iemsi(n) \/ Confirm(n) \/ FillForm(n)
    \/ RunScript(n) \/ ChangeHandle(n) \/ SaveUser(n) \/ EditUser(n) \/ LogOff(n)
    \/ InputFails(n)
    \/ Work(n)

Spec == Init /\ [][Next]_vars

\* A session that can go on does; with no caller left, input fails at once.
FairSpec ==
  /\ Spec
  /\ \A n \in Nodes : WF_vars(Work(n)) /\ WF_vars(n \in silent /\ InputFails(n))

-----------------------------------------------------------------------------
\* Properties.

Places == Prompts \union
  {"off", "loop", "index", "records", "handle", "script",
   "signup", "append", "verify", "undo", "list", "empty", "index entries",
   "finish", "save", "put", "out"}

\* Types.  A record number is one of the file's or the next, getPassword counts no further
\* than Tries, and no index has more entries than there are users.
TypeOK ==
  /\ users \in Seq(User)
  /\ index \in Seq(Nat \X Nat) /\ Len(index) <= Len(users)
  /\ pc \in [Nodes -> Places]
  /\ ret \in [Nodes -> {"off", "auto", "name", "handle"}]
  /\ after \in [Nodes -> {"off", "name", "confirm", "signup", "out", "menu"}]
  /\ line \in [Nodes -> User]
  /\ rec \in [Nodes -> 0 .. Len(users) + 1]
  /\ asked \in [Nodes -> AnyName]
  /\ preset \in [Nodes -> AnyPassword]
  /\ emsi \in [Nodes -> AnyPassword]
  /\ tries \in [Nodes -> 0 .. Tries]
  /\ cands \in [Nodes -> SUBSET (DOMAIN users)]
  /\ seen \in [Nodes -> Seq(User)]
  /\ size \in [Nodes -> 0 .. Len(users)]
  /\ silent \subseteq Nodes
  /\ dials \in 0 .. MaxDials
  /\ edits \in 0 .. MaxEdits
  /\ blanked \in BOOLEAN

\* A record belongs to one person for good: no process, whatever it has in
\* line.User and wherever it writes, puts another one there (writeUser's guard
\* and the Record -1 of everybody who has not logged on).  The first record is
\* an exception from the moment the zero line.User was written to it: AutoUser's
\* caller has Record 0, and a script may give that user the first user's name.
RecordsKeepTheirOwner ==
  [][\A r \in DOMAIN users :
       /\ r \in DOMAIN users'
       /\ users'[r].born = users[r].born \/ (r = 1 /\ blanked')]_vars

\* Whoever is asked for a password, or let in, is a user who answers to the
\* name that was entered, however old the index and whatever became of the
\* record that it pointed at (Search).
FoundAsAsked ==
  \A n \in Nodes :
    pc[n] \in {"password", "finish"} => Found(line[n], asked[n])

\* No name is signed up twice, though the index may be missing, old, half
\* written, or its write may have failed and the caller tried again (Search's
\* fallback).  The sysop and scripts, which may rename users, are left out.
SignedUpOnce ==
  edits = 0 =>
    \A i, j \in DOMAIN users :
      i # j /\ ~users[i].deleted /\ ~users[j].deleted => users[i].name # users[j].name

\* A caller found silent does not keep the node, whatever was being asked.
SilentCallersLeave == \A n \in Nodes : n \in silent ~> pc[n] = "off"

\* Appending a user leaves the records of all others alone: only Write changes
\* a record that exists (Append's check for clobbered users).
AppendKeepsUsers ==
  [][\A r \in DOMAIN users :
       users'[r] # users[r] => \E n \in Nodes : pc[n] = "put" /\ pc'[n] # "put"]_vars
=============================================================================
