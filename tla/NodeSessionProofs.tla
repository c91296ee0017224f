-------------------------- MODULE NodeSessionProofs ---------------------------
(***************************************************************************)
(* For any number of nodes, on a USERON.BBS that has a record for each:    *)
(* the on-line files tell the truth, a node that ended leaves no trace,    *)
(* and a caller inherits neither tags nor messages of an earlier one.      *)
(***************************************************************************)
EXTENDS NodeSession, TLAPS

InMenus == {"menu", "showmsg", "editing"}
Starting == {"off", "clearmsg", "setbusy", "cleartags"}

\* USERON.BBS keeps a record per node, so that no write has to pad it.
FileInv == Len(useron) >= NodeCount

\* Nobody can hang up on a node that has not come to its logon.
HangInv(n) == hung[n] \/ halt[n] \notin {"none", "watch"} => pc[n] \notin Starting

\* A node is busy from SetRaBusy(true) until one of its goroutines takes that
\* back, and then not any more.
BusyInv(n) ==
  /\ (/\ pc[n] \in {"cleartags", "logon", "untag", "kill", "unbusy"} \union InMenus
      /\ halt[n] \notin {"cleartags", "exit"}) => n \in rabusy
  /\ pc[n] = "exit" => n \notin rabusy
  /\ halt[n] \in {"cleartags", "exit"} => n \notin rabusy

\* The record has a name from the logon on and none once it was killed; only
\* a session that overtakes the halt writes it again.
NameInv(n) ==
  /\ LoggedOn(n) => useron[n]
  /\ pc[n] \in {"unbusy", "exit"} => ~useron[n]
  /\ (halt[n] \in {"unbusy", "cleartags", "exit"} /\ ~dirty[n]) => ~useron[n]

\* The same for the tag list, which is never an earlier caller's.
TagInv(n) ==
  /\ pc[n] \in {"kill", "unbusy", "exit"} => tags[n] = "none"
  /\ (halt[n] = "exit" /\ ~dirty[n]) => tags[n] = "none"
  /\ pc[n] \in {"logon"} \union InMenus => tags[n] # "left"

\* What a process that died by itself or by the halt leaves: nothing.
GoneInv(n) == (pc[n] = "off" /\ ~dirty[n]) =>
  ~useron[n] /\ n \notin rabusy /\ tags[n] = "none"

\* What waits for a node whose process cleared NODE<n>.RA came since, and was
\* not shown unless it is being shown.
InboxInv(n) == pc[n] \notin {"off", "clearmsg"} =>
  \A i \in DOMAIN inbox[n] :
    inbox[n][i].fresh /\ (pc[n] # "showmsg" => ~inbox[n][i].shown)

\* What is on the screen was fresh and new to the caller when it was read.
BufInv(n) == \A i \in DOMAIN buf[n] : buf[n][i].fresh /\ ~buf[n][i].shown

EditInv(n) == pc[n] = "editing" => dest[n] \in NodeSet

NodeInv(n) == /\ HangInv(n) /\ BusyInv(n) /\ NameInv(n) /\ TagInv(n) /\ GoneInv(n)
              /\ InboxInv(n) /\ BufInv(n) /\ EditInv(n)

IInv == TypeOK /\ FileInv /\ \A n \in NodeSet : NodeInv(n)

-----------------------------------------------------------------------------
\* On a file long enough writeSlot changes the one record and nothing else.
LEMMA WriteSlotLemma ==
  ASSUME NEW file \in Seq(BOOLEAN), Len(file) >= NodeCount,
         NEW n \in NodeSet, NEW rec \in BOOLEAN
  PROVE  /\ WriteSlot(file, n, rec) = [file EXCEPT ![n] = rec]
         /\ WriteSlot(file, n, rec) \in Seq(BOOLEAN)
         /\ Len(WriteSlot(file, n, rec)) = Len(file)
         /\ n \in DOMAIN file
BY SessionAssumption DEF WriteSlot, NodeSet

\* The history marks on waiting messages keep them messages.
LEMMA MessageLemma ==
  ASSUME NEW q \in Seq(Message)
  PROVE  /\ [i \in DOMAIN q |-> [fresh |-> FALSE, shown |-> q[i].shown]] \in Seq(Message)
         /\ [i \in DOMAIN q |-> [fresh |-> q[i].fresh, shown |-> TRUE]] \in Seq(Message)
         /\ Append(q, [fresh |-> TRUE, shown |-> FALSE]) \in Seq(Message)
<1>1. \A i \in DOMAIN q : q[i].fresh \in BOOLEAN /\ q[i].shown \in BOOLEAN
  <2>1. \A i \in DOMAIN q : q[i] \in Message
    OBVIOUS
  <2> QED BY <2>1 DEF Message
<1>2. DOMAIN q = 1 .. Len(q) /\ Len(q) \in Nat
  OBVIOUS
<1>3. [fresh |-> TRUE, shown |-> FALSE] \in Message
  BY DEF Message
<1>4. Append(q, [fresh |-> TRUE, shown |-> FALSE]) \in Seq(Message)
  BY <1>3
<1>5. [i \in DOMAIN q |-> [fresh |-> FALSE, shown |-> q[i].shown]] \in Seq(Message)
  BY <1>1, <1>2 DEF Message
<1>6. [i \in DOMAIN q |-> [fresh |-> q[i].fresh, shown |-> TRUE]] \in Seq(Message)
  BY <1>1, <1>2 DEF Message
<1> QED BY <1>4, <1>5, <1>6

\* IInv holds before the first process starts.
LEMMA InitIInv ==
  ASSUME InitSlots >= NodeCount, Init
  PROVE  IInv
<1>1. TypeOK
  BY SessionAssumption DEF Init, TypeOK
<1>2. FileInv
  BY SessionAssumption DEF Init, FileInv
<1>3. \A n \in NodeSet : n \in DOMAIN useron
  BY SessionAssumption DEF Init, NodeSet
<1>4. \A n \in NodeSet : NodeInv(n)
  BY <1>3, SessionAssumption
  DEF Init, NodeInv, HangInv, BusyInv, NameInv, TagInv, GoneInv, InboxInv, BufInv,
      EditInv, LoggedOn, Starting, InMenus
<1> QED BY <1>1, <1>2, <1>4 DEF IInv

-----------------------------------------------------------------------------
\* What no step changes: the types and the length of USERON.BBS.
LEMMA TypeStep ==
  ASSUME TypeOK, FileInv, [Next]_vars
  PROVE  TypeOK' /\ FileInv'
<1> USE DEF TypeOK, FileInv, Goto, HaltTo, Overtakes, ProcessGone
<1>1. ASSUME NEW n \in NodeSet, SessionStep(n) PROVE TypeOK' /\ FileInv'
  <2>1. CASE Start(n) BY <2>1, MessageLemma DEF Start
  <2>2. CASE StartClearMsg(n) BY <2>2 DEF StartClearMsg
  <2>3. CASE StartSetBusy(n) BY <2>3 DEF StartSetBusy
  <2>4. CASE StartClearTags(n) BY <2>4 DEF StartClearTags
  <2>5. CASE LogonOK(n) BY <2>5, WriteSlotLemma DEF LogonOK
  <2>6. CASE LogonFails(n) BY <2>6 DEF LogonFails
  <2>7. CASE UpdateUserOn(n) BY <2>7, WriteSlotLemma DEF UpdateUserOn
  <2>8. CASE SaveTagList(n) BY <2>8 DEF SaveTagList
  <2>9. CASE ReadNodeMsg(n) BY <2>9, MessageLemma DEF ReadNodeMsg
  <2>10. CASE ClearNodeMsg(n) BY <2>10 DEF ClearNodeMsg
  <2>11. CASE \E d \in NodeSet : PickAddressee(n, d) BY <2>11 DEF PickAddressee
  <2>12. CASE SendNodeMsg(n)
    <3> DEFINE msg == [fresh |-> TRUE, shown |-> FALSE]
    <3>1. dest[n] \in NodeSet => Append(inbox[dest[n]], msg) \in Seq(Message)
      BY MessageLemma
    <3> QED BY <2>12, <3>1 DEF SendNodeMsg
  <2>13. CASE AbortNodeMsg(n) BY <2>13 DEF AbortNodeMsg
  <2>14. CASE Logoff(n) BY <2>14 DEF Logoff
  <2>15. CASE EndClearTags(n) BY <2>15 DEF EndClearTags
  <2>16. CASE EndKill(n) BY <2>16, WriteSlotLemma DEF EndKill
  <2>17. CASE EndBusy(n) BY <2>17 DEF EndBusy
  <2>18. CASE Exit(n) BY <2>18 DEF Exit
  <2>19. CASE Crash(n) BY <2>19 DEF Crash
  <2> QED BY <1>1, <2>1, <2>2, <2>3, <2>4, <2>5, <2>6, <2>7, <2>8, <2>9, <2>10, <2>11,
             <2>12, <2>13, <2>14, <2>15, <2>16, <2>17, <2>18, <2>19 DEF SessionStep
<1>2. ASSUME NEW n \in NodeSet, HangUp(n) PROVE TypeOK' /\ FileInv'
  BY <1>2 DEF HangUp
<1>3. ASSUME NEW n \in NodeSet, HaltStep(n) PROVE TypeOK' /\ FileInv'
  <2>1. CASE HaltSeesHangUp(n) BY <2>1 DEF HaltSeesHangUp
  <2>2. CASE HaltReturns(n) BY <2>2 DEF HaltReturns
  <2>3. CASE GraceEnds(n) BY <2>3 DEF GraceEnds
  <2>4. CASE HaltKill(n) BY <2>4, WriteSlotLemma DEF HaltKill
  <2>5. CASE HaltBusy(n) BY <2>5 DEF HaltBusy
  <2>6. CASE HaltClearTags(n) BY <2>6 DEF HaltClearTags
  <2>7. CASE HaltExit(n) BY <2>7 DEF HaltExit
  <2> QED BY <1>3, <2>1, <2>2, <2>3, <2>4, <2>5, <2>6, <2>7 DEF HaltStep
<1>4. CASE UNCHANGED vars BY <1>4 DEF vars
<1> QED BY <1>1, <1>2, <1>3, <1>4 DEF Next

-----------------------------------------------------------------------------
LEMMA WriteStep ==
  ASSUME TypeOK, FileInv, NEW n \in NodeSet, NEW rec \in BOOLEAN,
         useron' = WriteSlot(useron, n, rec)
  PROVE  useron'[n] = rec /\ \A d \in NodeSet \ {n} : useron'[d] = useron[d]
<1>1. useron' = [useron EXCEPT ![n] = rec]
  BY WriteSlotLemma DEF TypeOK, FileInv
<1>2. \A d \in NodeSet : d \in DOMAIN useron
  BY WriteSlotLemma DEF TypeOK, FileInv
<1> QED BY <1>1, <1>2 DEF TypeOK

\* A step of one node leaves the others' files alone, but for the messages it
\* sends them: those are new.
OthersUntouched(n) == \A d \in NodeSet \ {n} :
  /\ pc'[d] = pc[d] /\ halt'[d] = halt[d] /\ hung'[d] = hung[d]
  /\ useron'[d] = useron[d] /\ (d \in rabusy' <=> d \in rabusy)
  /\ buf'[d] = buf[d] /\ dest'[d] = dest[d]
  /\ tags'[d] = tags[d] /\ dirty'[d] = dirty[d]
  /\ \A i \in DOMAIN inbox'[d] :
       \/ i \in DOMAIN inbox[d] /\ inbox'[d][i] = inbox[d][i]
       \/ inbox'[d][i].fresh /\ ~inbox'[d][i].shown

LEMMA OthersStep ==
  ASSUME NEW n \in NodeSet, OthersUntouched(n),
         NEW d \in NodeSet \ {n}, NodeInv(d)
  PROVE  NodeInv(d)'
<1> USE DEF OthersUntouched, NodeInv
<1>1. (HangInv(d) /\ BusyInv(d) /\ TagInv(d) /\ EditInv(d))'
  BY DEF HangInv, BusyInv, TagInv, EditInv
<1>2. (NameInv(d) /\ GoneInv(d))'
  BY DEF NameInv, GoneInv, LoggedOn
<1>3. (InboxInv(d) /\ BufInv(d))'
  BY DEF InboxInv, BufInv
<1> QED BY <1>1, <1>2, <1>3

LEMMA OthersKept ==
  ASSUME TypeOK, FileInv, NEW n \in NodeSet,
         SessionStep(n) \/ HangUp(n) \/ HaltStep(n)
  PROVE  OthersUntouched(n)
<1> USE DEF TypeOK, FileInv, OthersUntouched, Goto, HaltTo, Overtakes, ProcessGone
<1>1. ASSUME SessionStep(n) PROVE OthersUntouched(n)
  <2>1. CASE Start(n) BY <2>1 DEF Start
  <2>2. CASE StartClearMsg(n) BY <2>2 DEF StartClearMsg
  <2>3. CASE StartSetBusy(n) BY <2>3 DEF StartSetBusy
  <2>4. CASE StartClearTags(n) BY <2>4 DEF StartClearTags
  <2>5. CASE LogonOK(n)
    <3>1. useron'[n] = TRUE /\ \A d \in NodeSet \ {n} : useron'[d] = useron[d]
      BY <2>5, WriteStep DEF LogonOK
    <3> QED BY <2>5, <3>1 DEF LogonOK
  <2>6. CASE LogonFails(n) BY <2>6 DEF LogonFails
  <2>7. CASE UpdateUserOn(n)
    <3>1. useron'[n] = TRUE /\ \A d \in NodeSet \ {n} : useron'[d] = useron[d]
      BY <2>7, WriteStep DEF UpdateUserOn
    <3> QED BY <2>7, <3>1 DEF UpdateUserOn
  <2>8. CASE SaveTagList(n) BY <2>8 DEF SaveTagList
  <2>9. CASE ReadNodeMsg(n) BY <2>9 DEF ReadNodeMsg
  <2>10. CASE ClearNodeMsg(n) BY <2>10 DEF ClearNodeMsg
  <2>11. CASE \E d \in NodeSet : PickAddressee(n, d) BY <2>11 DEF PickAddressee
  <2>12. CASE SendNodeMsg(n) BY <2>12 DEF SendNodeMsg
  <2>13. CASE AbortNodeMsg(n) BY <2>13 DEF AbortNodeMsg
  <2>14. CASE Logoff(n) BY <2>14 DEF Logoff
  <2>15. CASE EndClearTags(n) BY <2>15 DEF EndClearTags
  <2>16. CASE EndKill(n)
    <3>1. useron'[n] = FALSE /\ \A d \in NodeSet \ {n} : useron'[d] = useron[d]
      BY <2>16, WriteStep DEF EndKill
    <3> QED BY <2>16, <3>1 DEF EndKill
  <2>17. CASE EndBusy(n) BY <2>17 DEF EndBusy
  <2>18. CASE Exit(n) BY <2>18 DEF Exit
  <2>19. CASE Crash(n) BY <2>19 DEF Crash
  <2> QED BY <1>1, <2>1, <2>2, <2>3, <2>4, <2>5, <2>6, <2>7, <2>8, <2>9, <2>10, <2>11,
             <2>12, <2>13, <2>14, <2>15, <2>16, <2>17, <2>18, <2>19 DEF SessionStep
<1>2. ASSUME HangUp(n) PROVE OthersUntouched(n)
  BY <1>2 DEF HangUp
<1>3. ASSUME HaltStep(n) PROVE OthersUntouched(n)
  <2>1. CASE HaltSeesHangUp(n) BY <2>1 DEF HaltSeesHangUp
  <2>2. CASE HaltReturns(n) BY <2>2 DEF HaltReturns
  <2>3. CASE GraceEnds(n) BY <2>3 DEF GraceEnds
  <2>4. CASE HaltKill(n)
    <3>1. useron'[n] = FALSE /\ \A d \in NodeSet \ {n} : useron'[d] = useron[d]
      BY <2>4, WriteStep DEF HaltKill
    <3> QED BY <2>4, <3>1 DEF HaltKill
  <2>5. CASE HaltBusy(n) BY <2>5 DEF HaltBusy
  <2>6. CASE HaltClearTags(n) BY <2>6 DEF HaltClearTags
  <2>7. CASE HaltExit(n) BY <2>7 DEF HaltExit
  <2> QED BY <1>3, <2>1, <2>2, <2>3, <2>4, <2>5, <2>6, <2>7 DEF HaltStep
<1> QED BY <1>1, <1>2, <1>3

LEMMA OwnStep ==
  ASSUME TypeOK, FileInv, NEW n \in NodeSet, NodeInv(n),
         SessionStep(n) \/ HangUp(n) \/ HaltStep(n)
  PROVE  NodeInv(n)'
<1> USE DEF TypeOK, FileInv, Goto, HaltTo, Overtakes, ProcessGone, NodeInv, HangInv,
        BusyInv, NameInv, TagInv, GoneInv, InboxInv, BufInv, EditInv, LoggedOn, Starting, InMenus
<1>1. ASSUME SessionStep(n) PROVE NodeInv(n)'
  <2>1. CASE Start(n) BY <2>1 DEF Start
  <2>2. CASE StartClearMsg(n) BY <2>2 DEF StartClearMsg
  <2>3. CASE StartSetBusy(n) BY <2>3 DEF StartSetBusy
  <2>4. CASE StartClearTags(n) BY <2>4 DEF StartClearTags
  <2>5. CASE LogonOK(n)
    <3>1. useron'[n] = TRUE /\ \A d \in NodeSet \ {n} : useron'[d] = useron[d]
      BY <2>5, WriteStep DEF LogonOK
    <3> QED BY <2>5, <3>1 DEF LogonOK
  <2>6. CASE LogonFails(n) BY <2>6 DEF LogonFails
  <2>7. CASE UpdateUserOn(n)
    <3>1. useron'[n] = TRUE /\ \A d \in NodeSet \ {n} : useron'[d] = useron[d]
      BY <2>7, WriteStep DEF UpdateUserOn
    <3> QED BY <2>7, <3>1 DEF UpdateUserOn
  <2>8. CASE SaveTagList(n) BY <2>8 DEF SaveTagList
  <2>9. CASE ReadNodeMsg(n) BY <2>9 DEF ReadNodeMsg
  <2>10. CASE ClearNodeMsg(n) BY <2>10 DEF ClearNodeMsg
  <2>11. CASE \E d \in NodeSet : PickAddressee(n, d) BY <2>11 DEF PickAddressee
  <2>12. CASE SendNodeMsg(n) BY <2>12 DEF SendNodeMsg
  <2>13. CASE AbortNodeMsg(n) BY <2>13 DEF AbortNodeMsg
  <2>14. CASE Logoff(n) BY <2>14 DEF Logoff
  <2>15. CASE EndClearTags(n) BY <2>15 DEF EndClearTags
  <2>16. CASE EndKill(n)
    <3>1. useron'[n] = FALSE /\ \A d \in NodeSet \ {n} : useron'[d] = useron[d]
      BY <2>16, WriteStep DEF EndKill
    <3> QED BY <2>16, <3>1 DEF EndKill
  <2>17. CASE EndBusy(n) BY <2>17 DEF EndBusy
  <2>18. CASE Exit(n) BY <2>18 DEF Exit
  <2>19. CASE Crash(n) BY <2>19 DEF Crash
  <2> QED BY <1>1, <2>1, <2>2, <2>3, <2>4, <2>5, <2>6, <2>7, <2>8, <2>9, <2>10, <2>11,
             <2>12, <2>13, <2>14, <2>15, <2>16, <2>17, <2>18, <2>19 DEF SessionStep
<1>2. ASSUME HangUp(n) PROVE NodeInv(n)'
  BY <1>2 DEF HangUp
<1>3. ASSUME HaltStep(n) PROVE NodeInv(n)'
  <2>1. CASE HaltSeesHangUp(n) BY <2>1 DEF HaltSeesHangUp
  <2>2. CASE HaltReturns(n) BY <2>2 DEF HaltReturns
  <2>3. CASE GraceEnds(n) BY <2>3 DEF GraceEnds
  <2>4. CASE HaltKill(n)
    <3>1. useron'[n] = FALSE /\ \A d \in NodeSet \ {n} : useron'[d] = useron[d]
      BY <2>4, WriteStep DEF HaltKill
    <3> QED BY <2>4, <3>1 DEF HaltKill
  <2>5. CASE HaltBusy(n) BY <2>5 DEF HaltBusy
  <2>6. CASE HaltClearTags(n) BY <2>6 DEF HaltClearTags
  <2>7. CASE HaltExit(n) BY <2>7 DEF HaltExit
  <2> QED BY <1>3, <2>1, <2>2, <2>3, <2>4, <2>5, <2>6, <2>7 DEF HaltStep
<1> QED BY <1>1, <1>2, <1>3

-----------------------------------------------------------------------------
\* Every step of every node preserves IInv: the node's own part by OwnStep, the
\* others' by OthersStep.
LEMMA NextIInv ==
  ASSUME IInv, [Next]_vars
  PROVE  IInv'
<1>1. TypeOK' /\ FileInv'
  BY TypeStep DEF IInv
<1>2. ASSUME NEW n \in NodeSet, SessionStep(n) \/ HangUp(n) \/ HaltStep(n)
      PROVE  \A d \in NodeSet : NodeInv(d)'
  <2>1. NodeInv(n)'
    BY <1>2, OwnStep DEF IInv
  <2>2. OthersUntouched(n)
    BY <1>2, OthersKept DEF IInv
  <2>3. ASSUME NEW d \in NodeSet \ {n} PROVE NodeInv(d)'
    BY <2>2, OthersStep DEF IInv
  <2> QED BY <2>1, <2>3
<1>3. ASSUME UNCHANGED vars PROVE \A d \in NodeSet : NodeInv(d)'
  BY <1>3 DEF IInv, vars, NodeInv, HangInv, BusyInv, NameInv, TagInv, GoneInv,
    InboxInv, BufInv, EditInv, LoggedOn
<1> QED BY <1>1, <1>2, <1>3 DEF IInv, Next

\* The strengthened invariant holds throughout, for any number of nodes, on a
\* USERON.BBS that has all their records.
THEOREM Inductive == ASSUME InitSlots >= NodeCount PROVE Spec => []IInv
BY InitIInv, NextIInv, PTL DEF Spec

\* The types of the files and of the goroutines' places.
THEOREM TypeInvariant == ASSUME InitSlots >= NodeCount PROVE Spec => []TypeOK
<1>1. IInv => TypeOK
  BY DEF IInv
<1> QED BY Inductive, <1>1, PTL

\* A caller in the menus stays listed in USERON.BBS and its node busy, whatever
\* the other nodes write to that file.
THEOREM PresenceIsTrue == ASSUME InitSlots >= NodeCount PROVE Spec => []PresenceTrue
<1>1. IInv => PresenceTrue
  <2> SUFFICES ASSUME IInv, NEW n \in NodeSet, LoggedOn(n)
               PROVE  Listed(n) /\ n \in rabusy
    BY DEF PresenceTrue
  <2>1. NodeInv(n)
    BY DEF IInv
  <2>2. useron[n]
    BY <2>1 DEF NodeInv, NameInv
  <2>3. n <= Len(useron)
    BY SessionAssumption DEF IInv, TypeOK, FileInv, NodeSet
  <2>4. n \in rabusy
    BY <2>1 DEF NodeInv, BusyInv, LoggedOn, InMenus
  <2> QED BY <2>2, <2>3, <2>4 DEF Listed
<1> QED BY Inductive, <1>1, PTL

\* A node whose process ended, by itself or by a hang-up, leaves nothing in the
\* shared files unless a write overtook the halt.
THEOREM EndsAreClean == ASSUME InitSlots >= NodeCount PROVE Spec => []CleanEnd
<1>1. IInv => CleanEnd
  BY DEF IInv, NodeInv, GoneInv, CleanEnd, Listed
<1> QED BY Inductive, <1>1, PTL

\* No caller gets the files an earlier one tagged, not even after a crash.
THEOREM TagsAreOwn == ASSUME InitSlots >= NodeCount PROVE Spec => []TagsNotInherited
<1>1. IInv => TagsNotInherited
  BY DEF IInv, NodeInv, TagInv, TagsNotInherited, InMenus
<1> QED BY Inductive, <1>1, PTL

\* No caller is shown a message that was sent to an earlier one ...
THEOREM MessagesAreFresh == ASSUME InitSlots >= NodeCount PROVE Spec => []ShownFresh
<1>1. IInv => ShownFresh
  BY DEF IInv, NodeInv, BufInv, ShownFresh
<1> QED BY Inductive, <1>1, PTL

\* ... nor the same message twice.
THEOREM MessagesAreShownOnce == ASSUME InitSlots >= NodeCount PROVE Spec => []ShownOnce
<1>1. IInv => ShownOnce
  BY DEF IInv, NodeInv, BufInv, ShownOnce
<1> QED BY Inductive, <1>1, PTL
=============================================================================
