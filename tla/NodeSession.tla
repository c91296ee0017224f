----------------------------- MODULE NodeSession -----------------------------
(***************************************************************************)
(* The life of the node processes and the files through which they see     *)
(* each other (internal/bbs/session.go, internal/online, internal/menu/    *)
(* online.go): USERON.BBS, one record per node; rabusy.<n>; NODE<n>.RA, the *)
(* on-line messages waiting for node n; and taglist.ra in n's directory.   *)
(*                                                                         *)
(* A node runs one process at a time (NodePool).  Each file operation is   *)
(* one step, so that the nodes interleave between them; inside a process   *)
(* haltAfterHangUp is a second goroutine that, once the sysop hung up and  *)
(* the grace is over, cleans up and exits whatever the session is doing.   *)
(***************************************************************************)
EXTENDS Integers, Sequences

CONSTANTS NodeCount,   \* nodes 1 .. NodeCount
          InitSlots,   \* records USERON.BBS already has
          MaxInbox     \* bound on the messages waiting for one node

ASSUME SessionAssumption ==
  /\ NodeCount \in Nat \ {0}
  /\ InitSlots \in Nat
  /\ MaxInbox \in Nat

NodeSet == 1 .. NodeCount

VARIABLES pc,      \* pc[n]: where the session goroutine of node n is
          halt,    \* halt[n]: where haltAfterHangUp is ("none": not running)
          hung,    \* hung[n]: the sysop pressed Alt-H
          useron,  \* USERON.BBS: TRUE for a record with a name, FALSE for a hole
          rabusy,  \* the nodes with a rabusy.<n> file
          inbox,   \* inbox[n]: the messages in NODE<n>.RA
          buf,     \* buf[n]: what checkNodeMsg read and is showing
          dest,    \* dest[n]: whom node n's caller is writing to (0: nobody)
          tags,    \* tags[n]: whose taglist.ra is in n's directory
          dirty    \* history: n's last process died without its clean-up, or
                   \* wrote behind haltAfterHangUp's back

vars == <<pc, halt, hung, useron, rabusy, inbox, buf, dest, tags, dirty>>

\* A waiting message; both fields are history: appended while the node's
\* present process ran, already shown to its caller.
Message == [fresh : BOOLEAN, shown : BOOLEAN]

Goto(n, p) == pc' = [pc EXCEPT ![n] = p]

Init ==
  /\ pc = [n \in NodeSet |-> "off"]
  /\ halt = [n \in NodeSet |-> "none"]
  /\ hung = [n \in NodeSet |-> FALSE]
  /\ useron = [i \in 1 .. InitSlots |-> FALSE]
  /\ rabusy = {}
  /\ inbox = [n \in NodeSet |-> <<>>]
  /\ buf = [n \in NodeSet |-> <<>>]
  /\ dest = [n \in NodeSet |-> 0]
  /\ tags = [n \in NodeSet |-> "none"]
  /\ dirty = [n \in NodeSet |-> FALSE]

-----------------------------------------------------------------------------
\* USERON.BBS.

\* Mutant: the record goes one slot too far.
WriteSlotNext(file, n, rec) == [file EXCEPT ![n + 1] = rec]

\* writeSlot pads a file that ends before the slot with empty records, but its
\* writes begin at the start of the file, so the padding replaces every record.
WriteSlot(file, n, rec) ==
  IF Len(file) < n - 1
    THEN [i \in 1 .. n |-> IF i = n THEN rec ELSE FALSE]
  ELSE IF Len(file) = n - 1 THEN Append(file, rec)
  ELSE [file EXCEPT ![n] = rec]

\* ReadSlot found a record with a name.
Listed(n) == n <= Len(useron) /\ useron[n]

\* EmptyNodeNr: the node -N-1 takes, the first hole or the slot past the end.
EmptyNodeNr ==
  IF \A i \in DOMAIN useron : useron[i] THEN Len(useron) + 1
  ELSE CHOOSE i \in DOMAIN useron :
         ~useron[i] /\ \A j \in 1 .. i - 1 : useron[j]

-----------------------------------------------------------------------------
\* The session goroutine: RunOn up to the logon.

\* A process starts on the node; only a console with a keyboard (keys) makes
\* RunOn start haltAfterHangUp.  The history variables age.
Start(n) ==
  /\ pc[n] = "off"
  /\ Goto(n, "clearmsg")
  /\ \E keys \in BOOLEAN : halt' = [halt EXCEPT ![n] = IF keys THEN "watch" ELSE "none"]
  /\ hung' = [hung EXCEPT ![n] = FALSE]
  /\ inbox' = [inbox EXCEPT ![n] =
                 [i \in DOMAIN @ |-> [fresh |-> FALSE, shown |-> @[i].shown]]]
  /\ tags' = [tags EXCEPT ![n] = IF @ = "mine" THEN "left" ELSE @]
  /\ dirty' = [dirty EXCEPT ![n] = FALSE]
  /\ UNCHANGED <<useron, rabusy, buf, dest>>

\* Mutant: the messages of the previous caller are left there.
StartKeepsMsg(n) ==
  /\ pc[n] = "clearmsg"
  /\ Goto(n, "setbusy")
  /\ UNCHANGED <<halt, hung, useron, rabusy, inbox, buf, dest, tags, dirty>>

StartClearMsg(n) ==
  /\ pc[n] = "clearmsg"
  /\ inbox' = [inbox EXCEPT ![n] = <<>>]
  /\ Goto(n, "setbusy")
  /\ UNCHANGED <<halt, hung, useron, rabusy, buf, dest, tags, dirty>>

StartSetBusy(n) ==
  /\ pc[n] = "setbusy"
  /\ rabusy' = rabusy \union {n}
  /\ Goto(n, "cleartags")
  /\ UNCHANGED <<halt, hung, useron, inbox, buf, dest, tags, dirty>>

\* Mutant: the tag list of the previous caller is left there.
StartKeepsTags(n) ==
  /\ pc[n] = "cleartags"
  /\ Goto(n, "logon")
  /\ UNCHANGED <<halt, hung, useron, rabusy, inbox, buf, dest, tags, dirty>>

StartClearTags(n) ==
  /\ pc[n] = "cleartags"
  /\ tags' = [tags EXCEPT ![n] = "none"]
  /\ Goto(n, "logon")
  /\ UNCHANGED <<halt, hung, useron, rabusy, inbox, buf, dest, dirty>>

\* The file of a node is written while haltAfterHangUp is past cleaning it.
Overtakes(n, done) == dirty' = [dirty EXCEPT ![n] = @ \/ halt[n] \in done]

\* finishLogon: the caller gets a USERON record and the menus.
LogonOK(n) ==
  /\ pc[n] = "logon"
  /\ useron' = WriteSlot(useron, n, TRUE)
  /\ Overtakes(n, {"unbusy", "cleartags", "exit"})
  /\ Goto(n, "menu")
  /\ UNCHANGED <<halt, hung, rabusy, inbox, buf, dest, tags>>

LogonFails(n) ==
  /\ pc[n] = "logon"
  /\ Goto(n, "untag")
  /\ UNCHANGED <<halt, hung, useron, rabusy, inbox, buf, dest, tags, dirty>>

-----------------------------------------------------------------------------
\* In the menus.

\* A menu function or a questionnaire (SETUSERON) updates the record.
UpdateUserOn(n) ==
  /\ pc[n] = "menu"
  /\ useron' = WriteSlot(useron, n, TRUE)
  /\ Overtakes(n, {"unbusy", "cleartags", "exit"})
  /\ UNCHANGED <<pc, halt, hung, rabusy, inbox, buf, dest, tags>>

\* saveTagList after tagging a file, or after the last one was untagged.
SaveTagList(n) ==
  /\ pc[n] = "menu"
  /\ \E t \in {"mine", "none"} : tags' = [tags EXCEPT ![n] = t]
  /\ Overtakes(n, {"exit"})
  /\ UNCHANGED <<pc, halt, hung, useron, rabusy, inbox, buf, dest>>

\* checkNodeMsg reads the file and starts to show it ...
ReadNodeMsg(n) ==
  /\ pc[n] = "menu"
  /\ inbox[n] # <<>>
  /\ buf' = [buf EXCEPT ![n] = inbox[n]]
  /\ inbox' = [inbox EXCEPT ![n] =
                 [i \in DOMAIN @ |-> [fresh |-> @[i].fresh, shown |-> TRUE]]]
  /\ Goto(n, "showmsg")
  /\ UNCHANGED <<halt, hung, useron, rabusy, dest, tags, dirty>>

\* Mutant: the messages shown are not erased.
ClearKeepsMsg(n) ==
  /\ pc[n] = "showmsg"
  /\ buf' = [buf EXCEPT ![n] = <<>>]
  /\ Goto(n, "menu")
  /\ UNCHANGED <<halt, hung, useron, rabusy, inbox, dest, tags, dirty>>

\* ... and once the caller pressed Enter erases it, what came since included.
ClearNodeMsg(n) ==
  /\ pc[n] = "showmsg"
  /\ inbox' = [inbox EXCEPT ![n] = <<>>]
  /\ buf' = [buf EXCEPT ![n] = <<>>]
  /\ Goto(n, "menu")
  /\ UNCHANGED <<halt, hung, useron, rabusy, dest, tags, dirty>>

\* bbsSendMessage: checkOkToSend found the addressee on-line and not quiet;
\* the caller goes on in the editor.
PickAddressee(n, d) ==
  /\ pc[n] = "menu"
  /\ Listed(d)
  /\ dest' = [dest EXCEPT ![n] = d]
  /\ Goto(n, "editing")
  /\ UNCHANGED <<halt, hung, useron, rabusy, inbox, buf, tags, dirty>>

\* AppendNodeMsg, with no second look at who is on that node by now.
SendNodeMsg(n) ==
  /\ pc[n] = "editing"
  /\ Len(inbox[dest[n]]) < MaxInbox
  /\ inbox' = [inbox EXCEPT ![dest[n]] = Append(@, [fresh |-> TRUE, shown |-> FALSE])]
  /\ dest' = [dest EXCEPT ![n] = 0]
  /\ Goto(n, "menu")
  /\ UNCHANGED <<halt, hung, useron, rabusy, buf, tags, dirty>>

AbortNodeMsg(n) ==
  /\ pc[n] = "editing"
  /\ dest' = [dest EXCEPT ![n] = 0]
  /\ Goto(n, "menu")
  /\ UNCHANGED <<halt, hung, useron, rabusy, inbox, buf, tags, dirty>>

\* eng.Enter returns: logoff, lost carrier, time-out or hang-up.
Logoff(n) ==
  /\ pc[n] = "menu"
  /\ Goto(n, "untag")
  /\ UNCHANGED <<halt, hung, useron, rabusy, inbox, buf, dest, tags, dirty>>

-----------------------------------------------------------------------------
\* RunOn's deferred calls, last one first, then the process exits.

EndClearTags(n) ==
  /\ pc[n] = "untag"
  /\ tags' = [tags EXCEPT ![n] = "none"]
  /\ Goto(n, "kill")
  /\ UNCHANGED <<halt, hung, useron, rabusy, inbox, buf, dest, dirty>>

\* Mutant: Kill does not empty the name.
EndKillKeepsName(n) ==
  /\ pc[n] = "kill"
  /\ useron' = WriteSlot(useron, n, TRUE)
  /\ Goto(n, "unbusy")
  /\ UNCHANGED <<halt, hung, rabusy, inbox, buf, dest, tags, dirty>>

EndKill(n) ==
  /\ pc[n] = "kill"
  /\ useron' = WriteSlot(useron, n, FALSE)
  /\ Goto(n, "unbusy")
  /\ UNCHANGED <<halt, hung, rabusy, inbox, buf, dest, tags, dirty>>

\* SetRaBusy(false), then close(done).
EndBusy(n) ==
  /\ pc[n] = "unbusy"
  /\ rabusy' = rabusy \ {n}
  /\ Goto(n, "exit")
  /\ UNCHANGED <<halt, hung, useron, inbox, buf, dest, tags, dirty>>

\* The process is gone, with its memory and its other goroutine.
ProcessGone(n) ==
  /\ Goto(n, "off")
  /\ halt' = [halt EXCEPT ![n] = "none"]
  /\ hung' = [hung EXCEPT ![n] = FALSE]
  /\ buf' = [buf EXCEPT ![n] = <<>>]
  /\ dest' = [dest EXCEPT ![n] = 0]

Exit(n) ==
  /\ pc[n] = "exit"
  /\ ProcessGone(n)
  /\ UNCHANGED <<useron, rabusy, inbox, tags, dirty>>

\* The process is killed or the machine fails: no deferred call runs.
Crash(n) ==
  /\ pc[n] # "off"
  /\ ProcessGone(n)
  /\ dirty' = [dirty EXCEPT ![n] = TRUE]
  /\ UNCHANGED <<useron, rabusy, inbox, tags>>

-----------------------------------------------------------------------------
\* haltAfterHangUp.

\* Alt-H while the session waits for a key.
HangUp(n) ==
  /\ halt[n] = "watch"
  /\ ~hung[n]
  /\ pc[n] \in {"logon", "menu", "showmsg", "editing"}
  /\ hung' = [hung EXCEPT ![n] = TRUE]
  /\ UNCHANGED <<pc, halt, useron, rabusy, inbox, buf, dest, tags, dirty>>

HaltTo(n, h) == halt' = [halt EXCEPT ![n] = h]

HaltSeesHangUp(n) ==
  /\ halt[n] = "watch" /\ hung[n]
  /\ HaltTo(n, "grace")
  /\ UNCHANGED <<pc, hung, useron, rabusy, inbox, buf, dest, tags, dirty>>

\* RunOn closed done: the goroutine returns.
HaltReturns(n) ==
  /\ halt[n] \in {"watch", "grace"} /\ pc[n] = "exit"
  /\ HaltTo(n, "none")
  /\ UNCHANGED <<pc, hung, useron, rabusy, inbox, buf, dest, tags, dirty>>

\* Mutant: the goroutine waits for the session instead of the timer.
GraceWaits(n) ==
  /\ halt[n] = "grace" /\ pc[n] = "exit"
  /\ HaltTo(n, "kill")
  /\ UNCHANGED <<pc, hung, useron, rabusy, inbox, buf, dest, tags, dirty>>

\* hangUpGrace is over.
GraceEnds(n) ==
  /\ halt[n] = "grace"
  /\ HaltTo(n, "kill")
  /\ UNCHANGED <<pc, hung, useron, rabusy, inbox, buf, dest, tags, dirty>>

HaltKill(n) ==
  /\ halt[n] = "kill"
  /\ useron' = WriteSlot(useron, n, FALSE)
  /\ HaltTo(n, "unbusy")
  /\ UNCHANGED <<pc, hung, rabusy, inbox, buf, dest, tags, dirty>>

HaltBusy(n) ==
  /\ halt[n] = "unbusy"
  /\ rabusy' = rabusy \ {n}
  /\ HaltTo(n, "cleartags")
  /\ UNCHANGED <<pc, hung, useron, inbox, buf, dest, tags, dirty>>

HaltClearTags(n) ==
  /\ halt[n] = "cleartags"
  /\ tags' = [tags EXCEPT ![n] = "none"]
  /\ HaltTo(n, "exit")
  /\ UNCHANGED <<pc, hung, useron, rabusy, inbox, buf, dest, dirty>>

\* os.Exit, whatever the session goroutine is in the middle of.
HaltExit(n) ==
  /\ halt[n] = "exit"
  /\ ProcessGone(n)
  /\ UNCHANGED <<useron, rabusy, inbox, tags, dirty>>

-----------------------------------------------------------------------------
SessionStep(n) ==
  \/ Start(n) \/ StartClearMsg(n) \/ StartSetBusy(n) \/ StartClearTags(n)
  \/ LogonOK(n) \/ LogonFails(n)
  \/ UpdateUserOn(n) \/ SaveTagList(n) \/ ReadNodeMsg(n) \/ ClearNodeMsg(n)
  \/ \E d \in NodeSet : PickAddressee(n, d)
  \/ SendNodeMsg(n) \/ AbortNodeMsg(n) \/ Logoff(n)
  \/ EndClearTags(n) \/ EndKill(n) \/ EndBusy(n) \/ Exit(n) \/ Crash(n)

HaltStep(n) ==
  \/ HaltSeesHangUp(n) \/ HaltReturns(n) \/ GraceEnds(n)
  \/ HaltKill(n) \/ HaltBusy(n) \/ HaltClearTags(n) \/ HaltExit(n)

Next == \E n \in NodeSet : SessionStep(n) \/ HangUp(n) \/ HaltStep(n)

Spec == Init /\ [][Next]_vars

\* The goroutine's select and timer always fire, and a process that unwound
\* exits.  The session itself owes nothing: it may be busy for ever.
Fairness == \A n \in NodeSet : WF_vars(HaltStep(n)) /\ WF_vars(Exit(n))

FairSpec == Spec /\ Fairness

-----------------------------------------------------------------------------
\* Properties.

TypeOK ==
  /\ pc \in [NodeSet -> {"off", "clearmsg", "setbusy", "cleartags", "logon", "menu",
                         "showmsg", "editing", "untag", "kill", "unbusy", "exit"}]
  /\ halt \in [NodeSet -> {"none", "watch", "grace", "kill", "unbusy",
                           "cleartags", "exit"}]
  /\ hung \in [NodeSet -> BOOLEAN]
  /\ useron \in Seq(BOOLEAN)
  /\ rabusy \subseteq NodeSet
  /\ inbox \in [NodeSet -> Seq(Message)]
  /\ buf \in [NodeSet -> Seq(Message)]
  /\ dest \in [NodeSet -> {0} \union NodeSet]
  /\ tags \in [NodeSet -> {"none", "mine", "left"}]
  /\ dirty \in [NodeSet -> BOOLEAN]

\* The caller logged on and neither goroutine has begun to take that back.
LoggedOn(n) == /\ pc[n] \in {"menu", "showmsg", "editing"}
               /\ halt[n] \in {"none", "watch", "grace", "kill"}

\* What the other nodes see of a node is true: a caller in the menus is listed
\* in USERON.BBS and its node marked busy, and stays so whatever the other
\* nodes write to the shared file (online.Write, Kill, SetRaBusy).
PresenceTrue == \A n \in NodeSet : LoggedOn(n) => Listed(n) /\ n \in rabusy

\* A node whose process ended by itself, or by the sysop's hang-up, leaves no
\* trace in the shared files (RunOn's deferred calls, haltAfterHangUp): only a
\* crash, or a write that overtook the halt, does.
CleanEnd == \A n \in NodeSet : (pc[n] = "off" /\ ~dirty[n]) =>
  ~Listed(n) /\ n \notin rabusy /\ tags[n] = "none"

\* The caller never has the tagged files of an earlier one on that node, even
\* if that one's process crashed (RunOn's clearNodeTagList).
TagsNotInherited == \A n \in NodeSet :
  pc[n] \in {"logon", "menu", "showmsg", "editing"} => tags[n] # "left"

\* The messages shown were sent while this process ran: those waiting for the
\* node's previous caller are gone (RunOn's ClearNodeMsg).
ShownFresh == \A n \in NodeSet : \A i \in DOMAIN buf[n] : buf[n][i].fresh

\* No message is shown twice (checkNodeMsg erases what it showed).
ShownOnce == \A n \in NodeSet : \A i \in DOMAIN buf[n] : ~buf[n][i].shown

\* Once the sysop hung up, the node's process ends, even if the session never
\* stops what it is doing (session.go:216).
HangUpEnds == \A n \in NodeSet : hung[n] ~> pc[n] = "off"

\* The node -N-1 takes is a hole of USERON.BBS, not a caller's: "first
\* USERON.BBS hole, else append" (useron.go:86).
HoleIsFree == EmptyNodeNr \in NodeSet => ~LoggedOn(EmptyNodeNr)
=============================================================================
