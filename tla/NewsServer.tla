----------------------------- MODULE NewsServer -----------------------------
(***************************************************************************)
(* The news server (internal/nntp): a connection keeps the group it        *)
(* selected, the articles that group had then and the current one of them. *)
(* Commands that only answer, LIST and XOVER among them, are left out.     *)
(***************************************************************************)
EXTENDS MessageAreas

CONSTANTS Conns,
          Groups,       \* the areas that are news groups
          ReadAuth,     \* groups read, and posted to, with a login only
          PostAuth,
          Posting,      \* groups open to posts
          PostIds       \* the message IDs clients come with

ASSUME NewsServerAssumption == 
  Groups \subseteq Areas /\ PostIds \cup {"client", "All"} \subseteq Names

VARIABLES news,   \* the session of each connection
          talk    \* how many commands its client still gives: a bound

newsVars == <<news, talk>>

None == "none"
Fresh == [at |-> "command", pending |-> None, user |-> None, cur |-> None, arts |-> <<>>,
          curNum |-> 0, group |-> None, num |-> 0]

NewsServerInit(start) ==
  /\ news = [c \in Conns |-> Fresh]
  /\ talk = start.talk

Reply(c, s) == news' = [news EXCEPT ![c] = s] /\ UNCHANGED areaVars
Hears(c) == news[c].at = "command" /\ talk[c] > 0 /\ talk' = [talk EXCEPT ![c] = @ - 1]

ArtNums(arts) == {arts[i].num : i \in DOMAIN arts}
Low(arts) == IF arts = <<>> THEN 0 ELSE Min(ArtNums(arts))
FindArticle(arts, num) == First({i \in DOMAIN arts : arts[i].num = num})
FindID(arts, id) == First({i \in DOMAIN arts : arts[i].id = id})

ReadAccess(s, g) ==
  g \in ReadAuth => s.user \in Users /\ Accessible(g, s.user, FALSE, 0)
PostAccess(s, g) ==
  g = None \/ (g \in Posting /\ (g \in PostAuth => s.user \in Users /\ WriteAccessible(g, s.user)))

\* AUTHINFO USER, AUTHINFO PASS.
CmdUser(c, u) == Hears(c) /\ Reply(c, [news[c] EXCEPT !.pending = u])
CmdPass(c) ==
  /\ Hears(c) /\ news[c].pending \in Users
  /\ Reply(c, [news[c] EXCEPT !.user = news[c].pending])

CmdGroup(c, g) ==
  /\ Hears(c) /\ ReadAccess(news[c], g)
  /\ LET arts == ReadJAM(g)
     IN Reply(c, [news[c] EXCEPT !.cur = g, !.arts = arts, !.curNum = Low(arts)])

\* ARTICLE, HEAD, BODY, STAT with a number, 0 for the current one.
CmdArticle(c, num) ==
  LET s == news[c]
      want == IF num = 0 THEN s.curNum ELSE num
  IN
  /\ Hears(c) /\ s.cur # None /\ ReadAccess(s, s.cur)
  /\ Reply(c, IF FindArticle(s.arts, want) = {} THEN s ELSE [s EXCEPT !.curNum = want])

\* The groups in order, the current one with the articles it had.
ArtsOf(s, g) == IF g = s.cur THEN s.arts ELSE ReadJAM(g)
GroupWithID(s, id) ==
  First({k \in DOMAIN AreaList : AreaList[k] \in Groups /\ FindID(ArtsOf(s, AreaList[k]), id) # {}})

\* Mutant of CmdArticleID: the articles of the group before are kept.
CmdArticleIDKeeps(c, id) ==
  LET s == news[c] IN
  /\ Hears(c) /\ (s.cur # None => ReadAccess(s, s.cur))
  /\ \E k \in GroupWithID(s, id) :
       LET g == AreaList[k]
           arts == ArtsOf(s, g)
       IN \E i \in FindID(arts, id) :
            Reply(c, [s EXCEPT !.cur = g, !.curNum = arts[i].num])

\* ARTICLE with an ID: the first group that has it becomes the current one.
CmdArticleID(c, id) ==
  LET s == news[c] IN
  /\ Hears(c) /\ (s.cur # None => ReadAccess(s, s.cur))
  /\ \E k \in GroupWithID(s, id) :
       LET g == AreaList[k]
           arts == ArtsOf(s, g)
       IN \E i \in FindID(arts, id) :
            Reply(c, [s EXCEPT !.cur = g, !.arts = arts, !.curNum = arts[i].num])

\* NEXT and LAST: the article with the nearest number.
CmdMove(c, next) ==
  LET s == news[c]
      there == {m \in ArtNums(s.arts) : IF next THEN m > s.curNum ELSE m < s.curNum}
  IN
  /\ Hears(c) /\ s.cur # None /\ there # {}
  /\ Reply(c, [s EXCEPT !.curNum = IF next THEN Min(there) ELSE Max(there)])

\* POST up to 340; then the article comes, for a group it names or the current
\* one, or does not come at all.
CmdPost(c) ==
  /\ Hears(c) /\ PostAccess(news[c], news[c].cur)
  /\ Reply(c, [news[c] EXCEPT !.at = "posting"])

Article(c, g, id) ==
  LET s == news[c] IN
  /\ s.at = "posting" /\ g # None /\ g \in Groups /\ PostAccess(s, g)
  /\ Appended(g, Message(0, id, "client", "All", FALSE))
  /\ news' = [news EXCEPT ![c].at = "posted", ![c].group = g, ![c].num = NextNumber(g)]
  /\ UNCHANGED <<jlr, dirs, lapped, shared, talk>>

BadArticle(c) ==
  news[c].at = "posting" /\ Reply(c, [news[c] EXCEPT !.at = "command"]) /\ UNCHANGED talk

\* The base is read again: others may have posted since.
Posted(c) ==
  LET s == news[c] IN
  /\ s.at = "posted"
  /\ Reply(c, [s EXCEPT !.at = "command", !.cur = s.group, !.arts = ReadJAM(s.group),
                        !.curNum = s.num, !.group = None, !.num = 0])
  /\ UNCHANGED talk

\* QUIT, ten minutes without a line, or the client is gone.
Close(c) ==
  /\ news[c].at \in {"command", "posting"}
  /\ Reply(c, [Fresh EXCEPT !.at = "gone"]) /\ UNCHANGED talk

NewsStep(c) ==
  \/ \E u \in Users : CmdUser(c, u)
  \/ CmdPass(c)
  \/ \E g \in Groups : CmdGroup(c, g)
  \/ \E num \in {0} \cup ArtNums(news[c].arts) : CmdArticle(c, num)
  \/ \E id \in UNION {{ReadJAM(g)[i].id : i \in DOMAIN ReadJAM(g)} : g \in Groups} : CmdArticleID(c, id)
  \/ \E next \in BOOLEAN : CmdMove(c, next)
  \/ CmdPost(c)
  \/ \E g \in Groups, id \in PostIds : Article(c, g, id)
  \/ BadArticle(c) \/ Posted(c) \/ Close(c)
=============================================================================
