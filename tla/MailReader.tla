----------------------------- MODULE MailReader -----------------------------
(***************************************************************************)
(* The caller's side of the message areas (internal/menu): choosing areas, *)
(* reading, the mailbox, and posting with attached files.  A session is at *)
(* one of the points where it waits for its caller or between two calls of *)
(* the mail package; what it holds meanwhile is in its record.             *)
(***************************************************************************)
EXTENDS MessageAreas

CONSTANTS Nodes,
          UserOf,      \* the caller of each node
          Profiles,    \* the area, group and combined areas callers start with
          MsgGroups,   \* the message groups users may enter
          Kind,        \* MsgKinds of each area
          Attaching,   \* areas that allow attached files
          MaxMailbox,  \* MailBoxMax, 201
          Addressees   \* whom messages are addressed to

ASSUME MailReaderAssumption ==
  /\ MaxMailbox \in Nat /\ MsgGroups \subseteq Nat /\ Addressees \subseteq Names
  /\ Profiles \in [Nodes -> [area : Areas \cup {"none"}, group : Nat,
                              combined : Seq(Areas \cup {"none"})]]

VARIABLES bbs,     \* the session of each node
          prof,    \* of each node's user: area, group and combined areas
          left,    \* how many commands and keys other than Next its caller has:
                   \* a bound
          shown,   \* of each user: the messages he has been shown, or that were
                   \* behind his pointers at the start: a history variable
          strayed, \* where a user's pointer was moved by something else than a
                   \* scan for new messages: a history variable
          last     \* the number each user's pointer was last set to: history

readerVars == <<bbs, prof, left, shown, strayed, last>>

NoMessage == Message(0, "local", "none", "none", FALSE)
Quiet == [at |-> "menu", task |-> "none", list |-> <<>>, combined |-> FALSE, i |-> 0,
          first |-> FALSE, forward |-> TRUE, onward |-> TRUE, individual |-> FALSE,
          newScan |-> FALSE, high |-> 0, from |-> 0, cur |-> 0, art |-> NoMessage,
          act |-> "next", hits |-> <<>>, size |-> 0, back |-> "menu", area |-> "none",
          post |-> NoMessage, listed |-> {}, owed |-> {}, straight |-> FALSE, ended |-> FALSE]

MailReaderInit(start) ==
  /\ bbs = [n \in Nodes |-> Quiet]
  /\ prof = Profiles
  /\ left = start.left
  /\ last = [u \in Users |-> [a \in Areas |-> LastRead(a, u)]]
  /\ shown = [u \in Users |-> {p \in Areas \X (1..start.most) : p[2] <= LastRead(p[1], u)}]
  /\ strayed = {}

At(n, at) == bbs[n].at = at
Goto(n, s) == bbs' = [bbs EXCEPT ![n] = s]
Me(n) == UserOf[n]
History == UNCHANGED <<shown, strayed, last>>
Still == UNCHANGED areaVars
Only == UNCHANGED <<prof, left>> /\ History
Spend(n) == left[n] > 0 /\ left' = [left EXCEPT ![n] = @ - 1]

---------------------------------------------------------------------------
(* Choosing areas. *)

\* SearchNext: the first area of the group, whether the user may read it or not.
SearchNext(group, cur) ==
  LET hits == First({k \in DOMAIN AreaList : group \in GroupsOf[AreaList[k]]}) IN
  IF hits = {} THEN cur ELSE AreaList[CHOOSE k \in hits : TRUE]

\* changeGroup comes with the group's first area, /MG=n without one.
ChangeGroup(p, group) == [p EXCEPT !.group = group, !.area = SearchNext(group, @)]
Regrouped(p) ==
  {p} \cup {ChangeGroup(p, g) : g \in MsgGroups} \cup {[p EXCEPT !.group = g] : g \in MsgGroups}

\* changeMessageArea with or without a change of the group first; what the
\* prompts answer, a group or area out of reach changes nothing.
ChangeMessageArea(n) ==
  \E q \in Regrouped(prof[n]) : \E check \in BOOLEAN :
    LET near == {a \in Areas : Accessible(a, Me(n), check, q.group)}
    IN /\ At(n, "menu") /\ Spend(n)
       /\ \E a \in near \cup {q.area} : prof' = [prof EXCEPT ![n] = [q EXCEPT !.area = a]]
       /\ UNCHANGED bbs /\ Still /\ History

\* toggleCombined: the area's place is emptied, or the first empty one taken.
Toggled(c, a) ==
  LET on == {k \in DOMAIN c : c[k] = a}
      free == {k \in DOMAIN c : c[k] = "none"}
  IN [k \in DOMAIN c |-> CASE k \in First(on) -> "none"
                           [] on = {} /\ k \in First(free) -> a
                           [] OTHER -> c[k]]

\* selectCombined, one area at a time.
ToggleCombined(n) ==
  /\ At(n, "menu") /\ Spend(n)
  /\ \E q \in Regrouped(prof[n]), a \in Areas :
       prof' = [prof EXCEPT ![n] = [q EXCEPT !.combined = Toggled(@, a)]]
  /\ UNCHANGED bbs /\ Still /\ History

---------------------------------------------------------------------------
(* Reading areas. *)

\* readMessages: the area named, the current one or the combined ones.
Read(n) ==
  \E combined \in BOOLEAN :
    LET c == prof[n].combined
        list == IF combined THEN Picked(c, {k \in DOMAIN c : c[k] # "none"}) ELSE <<prof[n].area>>
    IN /\ At(n, "menu") /\ list # <<>> /\ Spend(n)
       /\ Goto(n, [Quiet EXCEPT !.at = "area", !.task = "read", !.list = list, !.i = 1,
                                !.combined = combined, !.first = TRUE])
       /\ UNCHANGED prof /\ Still /\ History

\* An area is left: to the next one, to the one before, or to the menu.
Leaves(s, act) ==
  CASE act = "stop" -> Quiet
    [] act = "last" /\ s.i = 1 -> Quiet
    [] act = "last" -> [s EXCEPT !.at = "area", !.i = @ - 1, !.art = NoMessage, !.act = "next"]
    [] OTHER -> [s EXCEPT !.at = "area", !.i = @ + 1, !.art = NoMessage, !.act = "next",
                          !.ended = s.straight]

\* Where reading begins, from the pointer as it is now and the highest number
\* as it was before the caller was asked.  The number he gave counts for the
\* first area only.
Begin(n, s, a, start) ==
  LET from == CASE s.newScan -> LastRead(a, Me(n)) + 1
                [] ~s.newScan /\ ~s.forward /\ start = 0 -> s.high
                [] OTHER -> Max({start, 1})
      fresh == {Number(a, i) : i \in {k \in Active(a) : /\ Number(a, k) >= from
                                                       /\ CanRead(a, ArticleAt(a, k), Me(n))}}
  IN IF s.newScan /\ from > s.high THEN [s EXCEPT !.at = "area", !.i = @ + 1, !.high = 0]
     ELSE [s EXCEPT !.at = "find", !.high = 0, !.area = a, !.cur = from, !.onward = s.forward,
                    !.from = IF s.newScan THEN from ELSE 0, !.straight = s.newScan,
                    !.owed = IF s.newScan THEN fresh ELSE {}, !.ended = FALSE]

Area(n) ==
  LET s == bbs[n]
      a == s.list[s.i]
      high == [s EXCEPT !.high = High(a), !.ended = FALSE]
  IN /\ At(n, "area")
     /\ Goto(n, IF s.i > Len(s.list) THEN Quiet
                ELSE IF ~Accessible(a, Me(n), FALSE, 0) \/ Active(a) = {}
                       THEN IF s.combined THEN [s EXCEPT !.i = @ + 1, !.ended = FALSE] ELSE Quiet
                ELSE IF s.first THEN [high EXCEPT !.at = "ask"] ELSE Begin(n, high, a, 0))
     /\ Still /\ Only

\* getReadType and the number to start from.
Asked(n) ==
  LET s == bbs[n] IN
  /\ At(n, "ask")
  /\ \E type \in {"forward", "reverse", "individual", "new", "quit"} :
     \E start \in IF type \in {"new", "quit"} THEN {0} ELSE 0..s.high :
       Goto(n, IF type = "quit" \/ (type = "individual" /\ start = 0) THEN Quiet
               ELSE Begin(n, [s EXCEPT !.first = FALSE, !.newScan = type = "new",
                                       !.individual = type = "individual",
                                       !.forward = type # "reverse"], s.list[s.i], start))
  /\ Still /\ Only

\* Mutant of PastFirst: a reversed reading does not look whether it is through.
NeverPast(num) == FALSE
PastFirst(num) == num < 1

\* The number after or before this one.
Onward(s, num) == IF s.onward THEN num + 1 ELSE num - 1

\* One turn of doReadMail's loop up to the message shown.
Find(n) ==
  LET s == bbs[n]
      next == NextActive(s.area, s.cur, s.onward)
  IN
  /\ At(n, "find")
  /\ IF next = {} THEN Goto(n, Leaves(s, "next")) /\ UNCHANGED shown
     ELSE \E i \in next :
       LET art == ArticleAt(s.area, i)
           on == Onward(s, art.num)
           behind == s.newScan /\ art.num < s.from
       IN IF behind \/ ~CanRead(s.area, art, Me(n))
            THEN /\ Goto(n, IF PastFirst(on) THEN Leaves(s, "next") ELSE [s EXCEPT !.cur = on])
                 /\ UNCHANGED shown
            ELSE /\ Goto(n, [s EXCEPT !.at = "bar", !.art = art])
                 /\ shown' = [shown EXCEPT ![Me(n)] = @ \cup {<<s.area, art.num>>}]
  /\ Still /\ UNCHANGED <<prof, left, strayed, last>>

---------------------------------------------------------------------------
(* The mailbox. *)

\* ScanMailbox, askReadMail: the messages for the caller, area after area, up
\* to MaxMailbox.  The scan of all areas counts as one step.
CheckMailBox(n) ==
  \E check \in BOOLEAN :
    LET near == {k \in DOMAIN AreaList :
                   Accessible(AreaList[k], Me(n), check, prof[n].group)}
        hits == ScanMailbox(near, Me(n), MaxMailbox)
    IN /\ At(n, "menu") /\ hits # <<>> /\ Spend(n)
       /\ Goto(n, [Quiet EXCEPT !.at = "hit", !.task = "mailbox", !.hits = hits, !.i = 1])
       /\ UNCHANGED prof /\ Still /\ History

\* readMailboxHits up to the message shown; one that is not found is passed over.
Hit(n) ==
  LET s == bbs[n]
      h == s.hits[s.i]
      found == FindMsg(h.area, h.num)
  IN
  /\ At(n, "hit")
  /\ IF s.i \notin DOMAIN s.hits THEN Goto(n, Quiet) /\ UNCHANGED shown
     ELSE IF found = {} THEN Goto(n, [s EXCEPT !.i = @ + 1]) /\ UNCHANGED shown
     ELSE \E i \in found :
       LET art == ArticleAt(h.area, i) IN
       /\ Goto(n, [s EXCEPT !.at = "bar", !.area = h.area, !.art = art])
       /\ shown' = [shown EXCEPT ![Me(n)] = @ \cup {<<h.area, art.num>>}]
  /\ Still /\ UNCHANGED <<prof, left, strayed, last>>

---------------------------------------------------------------------------
(* A message on the screen. *)

\* msgBar; a caller who is gone stops.  Files is there if the message had any
\* when it was read.
Bar(n, act) ==
  LET s == bbs[n] IN
  /\ At(n, "bar")
  /\ act = "files" => s.art.fatt
  /\ IF act \in {"next", "stop"} THEN UNCHANGED left ELSE Spend(n)
  /\ Goto(n, IF act = "files" THEN [s EXCEPT !.at = "files", !.act = "again"]
             ELSE [s EXCEPT !.at = "mark", !.act = act])
  /\ UNCHANGED prof /\ Still /\ History

\* listFAttach up to the transfer: with no files left the bit is cleared.
ListFiles(n) ==
  LET s == bbs[n] IN
  /\ At(n, "files")
  /\ IF dirs[s.art.dir].files = {}
       THEN ClearFAttach(s.area, s.art.num) /\ Goto(n, [s EXCEPT !.at = "mark"])
       ELSE Goto(n, [s EXCEPT !.at = "kill", !.listed = dirs[s.art.dir].files]) /\ UNCHANGED base
  /\ UNCHANGED <<jlr, dirs, lapped, shared>> /\ Only

CanKillAttach(n, a, art) == Me(n) \in {art.from, art.to} \/ a \in Sysop[Me(n)]

\* After the transfer: keep them, or remove them with their directory.
KillFiles(n) ==
  LET s == bbs[n] IN
  /\ At(n, "kill") /\ Goto(n, [s EXCEPT !.at = "mark", !.listed = {}])
  /\ \/ Still
     \/ /\ CanKillAttach(n, s.area, s.art)
        /\ dirs' = Removed(s.art.dir, dirs[s.art.dir].files \ s.listed)
        /\ ClearFAttach(s.area, s.art.num)
        /\ UNCHANGED <<jlr, lapped, shared>>
  /\ Only

\* SetLastRead: the record is rewritten where it is, or the end is remembered.
Mark(n) ==
  LET s == bbs[n]
      u == Me(n)
      stray == ~(s.task = "read" /\ s.straight)
  IN
  /\ At(n, "mark")
  /\ strayed' = IF stray THEN strayed \cup {<<u, s.area>>} ELSE strayed
  /\ IF RecordOf(s.area, u) # {}
       THEN /\ SetInPlace(s.area, u, s.art.num)
            /\ last' = [last EXCEPT ![u][s.area] = s.art.num]
            /\ Goto(n, [s EXCEPT !.at = IF s.task = "mailbox" THEN "rcvd" ELSE "act"])
       ELSE /\ Goto(n, [s EXCEPT !.at = "behind", !.size = Len(jlr[s.area])])
            /\ UNCHANGED <<jlr, last>>
  /\ UNCHANGED <<base, dirs, lapped, shared, prof, left, shown>>

MarkBehind(n) ==
  LET s == bbs[n] IN
  /\ At(n, "behind")
  /\ PutBehind(s.area, Me(n), s.art.num, s.size + 1)
  /\ last' = [last EXCEPT ![Me(n)][s.area] = s.art.num]
  /\ Goto(n, [s EXCEPT !.size = 0, !.at = IF s.task = "mailbox" THEN "rcvd" ELSE "act"])
  /\ UNCHANGED <<base, dirs, shared, prof, left, shown, strayed>>

\* The mailbox also marks the message received.
Received(n) ==
  /\ At(n, "rcvd")
  /\ SetReceived(bbs[n].area, bbs[n].art.num)
  /\ Goto(n, [bbs[n] EXCEPT !.at = "act"])
  /\ UNCHANGED <<jlr, dirs, lapped, shared>> /\ Only

\* What a key of the bar leads to while an area is read.
ReadOn(s) ==
  LET on == Onward(s, s.art.num)
      back == IF s.onward THEN s.art.num - 1 ELSE s.art.num + 1
      find(cur) == [s EXCEPT !.at = "find", !.cur = cur, !.art = NoMessage, !.act = "next"]
  IN CASE s.act = "again" -> find(s.art.num)
       [] s.act = "stop" -> Quiet
       [] s.act = "last" -> IF PastFirst(back) THEN Leaves(s, "last")
                            ELSE [find(back) EXCEPT !.onward = ~@, !.straight = FALSE]
       [] s.act \in {"reply", "enter"} -> [s EXCEPT !.at = "write", !.cur = on, !.back = "find"]
       [] OTHER -> IF s.individual \/ PastFirst(on) THEN Leaves(s, "next") ELSE find(on)

\* And in the mailbox.
HitOn(s) ==
  LET hit(i) == [s EXCEPT !.at = "hit", !.i = i, !.art = NoMessage, !.act = "next"] IN
  CASE s.act = "again" -> hit(s.i)
    [] s.act = "stop" \/ (s.act = "last" /\ s.i = 1) -> Quiet
    [] s.act = "last" -> hit(s.i - 1)
    [] s.act \in {"reply", "enter"} -> [s EXCEPT !.at = "write", !.i = @ + 1, !.back = "hit"]
    [] OTHER -> hit(s.i + 1)

Act(n) ==
  /\ At(n, "act")
  /\ Goto(n, IF bbs[n].task = "mailbox" THEN HitOn(bbs[n]) ELSE ReadOn(bbs[n]))
  /\ Still /\ Only

---------------------------------------------------------------------------
(* Posting. *)

\* menuPost with an area, or with the current one.
Post(n) ==
  /\ At(n, "menu") /\ prof[n].area \in Areas /\ Spend(n)
  /\ Goto(n, [Quiet EXCEPT !.at = "write", !.act = "enter", !.area = prof[n].area])
  /\ UNCHANGED prof /\ Still /\ History

Back(s) ==
  IF s.back = "menu" THEN Quiet
  ELSE [s EXCEPT !.at = s.back, !.back = "menu", !.post = NoMessage, !.art = NoMessage, !.act = "next"]

\* Messages may, must or cannot be private.
Privacy(a, to) ==
  CASE Kind[a] = "private" -> {TRUE}
    [] Kind[a] = "both" /\ to # "All" -> BOOLEAN
    [] OTHER -> {FALSE}

\* writeMessage up to the text: no access, given up, or the message is there.
Write(n) ==
  LET s == bbs[n] IN
  /\ At(n, "write")
  /\ \/ Goto(n, Back(s))
     \/ /\ WriteAccessible(s.area, Me(n))
        /\ \E to \in IF s.act = "reply" THEN {s.art.from} ELSE Addressees :
           \E private \in Privacy(s.area, to) : \E attach \in BOOLEAN :
             /\ attach => s.area \in Attaching
             /\ Goto(n, [s EXCEPT !.at = IF attach THEN "attach" ELSE "save",
                                  !.post = Message(0, "local", Me(n), to, private)])
  /\ Still /\ Only

\* CreateAttachDir; without one the message goes without files.
MakeDir(n) ==
  LET s == bbs[n] IN
  /\ At(n, "attach")
  /\ \/ /\ FreeDirs = {} /\ Goto(n, [s EXCEPT !.at = "save"]) /\ Still
     \/ \E d \in FreeDirs :
          /\ Take(d) /\ Goto(n, [s EXCEPT !.at = "upload", !.post.dir = d])
          /\ UNCHANGED <<base, jlr, lapped>>
  /\ Only

\* uploadAttach: the files that came, in a directory made again if it has been
\* removed; without files it is removed.
UploadAttach(n, sent) ==
  LET s == bbs[n]
      d == s.post.dir
      files == dirs[d].files \cup (IF sent THEN {Me(n)} ELSE {})
  IN
  /\ At(n, "upload")
  /\ dirs' = IF files = {} THEN Removed(d, {})
             ELSE [dirs EXCEPT ![d].state = "there", ![d].files = files]
  /\ Goto(n, [s EXCEPT !.at = "save", !.post.fatt = files # {},
                       !.post.dir = IF files = {} THEN "none" ELSE d])
  /\ UNCHANGED <<base, jlr, lapped, shared>> /\ Only

Save(n) ==
  /\ At(n, "save")
  /\ Appended(bbs[n].area, bbs[n].post)
  /\ Goto(n, Back(bbs[n]))
  /\ UNCHANGED <<jlr, dirs, lapped, shared>> /\ Only

---------------------------------------------------------------------------
(* Steps a session takes of itself, and those its caller decides on. *)
Proceeds(n) ==
  \/ Area(n) \/ Asked(n) \/ Find(n) \/ Hit(n) \/ ListFiles(n) \/ KillFiles(n)
  \/ Mark(n) \/ MarkBehind(n) \/ Received(n) \/ Act(n)
  \/ Write(n) \/ MakeDir(n) \/ (\E sent \in BOOLEAN : UploadAttach(n, sent)) \/ Save(n)
  \/ \E act \in {"next", "stop", "last", "again", "reply", "enter", "files"} : Bar(n, act)

Commands(n) == ChangeMessageArea(n) \/ ToggleCombined(n) \/ Read(n) \/ CheckMailBox(n) \/ Post(n)
=============================================================================
