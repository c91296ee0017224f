-------------------------- MODULE MessageServices --------------------------
(***************************************************************************)
(* The message areas with their users: callers at the nodes and the        *)
(* connections of the news server.                                         *)
(***************************************************************************)
EXTENDS MailReader, NewsServer

CONSTANT Starts   \* initial states: what the areas hold, and how much each
                  \* process may do

vars == <<areaVars, readerVars, newsVars>>

ASSUME MessageServicesAssumption ==
  /\ UserOf \in [Nodes -> Users]
  /\ \A m, n \in Nodes : UserOf[m] = UserOf[n] => m = n

\* The messages there are at the start have no files in the directories to come;
\* no pointer is beyond the numbers counted as shown.
ASSUME StartsAssumption ==
  \A s \in Starts :
    /\ s.base \in [Areas -> Seq(Messages)] /\ s.jlr \in [Areas -> Seq(Records)]
    /\ \A a \in Areas : \A k \in DOMAIN s.jlr[a] : s.jlr[a][k].num <= s.most
    /\ \A a \in Areas : \A i \in DOMAIN s.base[a] :
         ~s.base[a][i].fatt /\ s.base[a][i].dir \notin Dirs
    /\ s.left \in [Nodes -> Nat] /\ s.talk \in [Conns -> Nat] /\ s.most \in Nat

Init ==
  \E s \in Starts :
    /\ base = s.base /\ jlr = s.jlr
    /\ dirs = [d \in Dirs |-> [state |-> "new", files |-> {}]]
    /\ lapped = {} /\ shared = {}
    /\ MailReaderInit(s) /\ NewsServerInit(s)

Commanded(n) == Commands(n) /\ UNCHANGED newsVars
Proceeding(n) == Proceeds(n) /\ UNCHANGED newsVars
Serving(c) == NewsStep(c) /\ UNCHANGED readerVars

Next ==
  \/ \E n \in Nodes : Commanded(n) \/ Proceeding(n)
  \/ \E c \in Conns : Serving(c)

\* A session that reads goes on; its caller answers every prompt, if only with
\* Enter, or loses the line, which counts as Stop.
Fairness == \A n \in Nodes : WF_vars(Proceeding(n))

Spec == Init /\ [][Next]_vars /\ Fairness

---------------------------------------------------------------------------

\* The areas numbered without gaps, as AppendMsg numbers them: message i has
\* the base number and i - 1.
Numbered(a) == \A i \in DOMAIN base[a] : Number(a, i) = BaseNum[a] + i - 1

\* A scan for new messages that was not turned round has shown, when it leaves
\* an area, every message that was new to the caller when it began and that he
\* may read (doReadMail, NextActive), whatever he answered, replied or posted
\* meanwhile and whoever else posted.
NewScanComplete ==
  \A n \in Nodes : bbs[n].ended /\ Numbered(bbs[n].area) =>
    \A k \in bbs[n].owed : <<bbs[n].area, k>> \in shown[UserOf[n]]

\* The pointer of a caller who only scans for new messages never passes one he
\* may read and was not shown: the pointer is all a later scan goes by.
NothingPassedOver ==
  \A u \in Users, a \in Areas : Numbered(a) /\ <<u, a>> \notin strayed =>
    \A i \in Active(a) :
      Number(a, i) <= LastRead(a, u) /\ CanRead(a, ArticleAt(a, i), u)
        => <<a, Number(a, i)>> \in shown[u]

\* No new message is lost to a caller: a scan shows all there are when it starts,
\* and the pointer never gets ahead of what was shown (doReadMail, NextActive,
\* SetLastRead).
NewMailShown == NewScanComplete /\ NothingPassedOver

\* No user's handle is the name of another: jamLastRead would take the pointer
\* of one for the other's.  The questions to a new user take any handle.
HandlesApart == \A u, v \in Users : Handle[u] = v => u = v

\* The pointer read is the pointer last set (SetLastRead, jamLastRead), unless
\* two new readers took the same place in the file or the user has a record
\* under his handle, which SetLastRead does not find.
PointersKept ==
  \A u \in Users, a \in Areas \ lapped :
    (\A k \in DOMAIN jlr[a] : jlr[a][k].who # Handle[u]) => LastRead(a, u) = last[u][a]

\* No two messages have the same directory of attached files, and the files of
\* a message that says it has some are there, unless two posters took the name
\* of the same second before either had received a file.
AttachmentsApart ==
  \A a, b \in Areas : \A i \in DOMAIN base[a], j \in DOMAIN base[b] :
    LET m == base[a][i] IN
    m.fatt /\ m.dir \notin shared =>
      /\ base[b][j].dir = m.dir => <<a, i>> = <<b, j>>
      /\ dirs[m.dir].files # {}

\* The articles of a connection are those its group had, and the current one is
\* among them, after a change of group by ID and after a post as well.
NewsPosition ==
  \A c \in Conns : news[c].cur # None =>
    LET s == news[c] IN
    /\ IsPrefix(s.arts, ReadJAM(s.cur))
    /\ IF s.arts = <<>> THEN s.curNum = 0 ELSE s.curNum \in ArtNums(s.arts)

\* Reading comes to its end if the caller goes on, in areas numbered without
\* gaps: in others a reversed reading may go round.
ReadingEnds ==
  \A n \in Nodes :
    ((bbs[n].at # "menu" /\ \A a \in Areas : Numbered(a)) ~> (bbs[n].at = "menu"))
=============================================================================
