------------------------------- MODULE EleMail --------------------------------
(***************************************************************************)
(* EleMAIL, the mail gateway (internal/mail/mailer.go, article.go, pop3.go,*)
(* smtp.go): mailer processes that take the lock file in turn and move     *)
(* mail between the message area, the outbound queue emailout.ele, the     *)
(* SMTP server, the POP3 server, the inbound queue email_in.ele and the    *)
(* message base.                                                           *)
(*                                                                         *)
(* The phases of RunMailer run in their order, each of them optional.  A   *)
(* process may die between any two steps in CrashAt, servers refuse, lose  *)
(* the connection or the last reply, and a rewrite of the queue may fail;  *)
(* of these, the ones that can duplicate mail count as faults.  A POP3     *)
(* reply that comes too late, or a message longer than elemail reads,      *)
(* leaves the connection behind: what is read next is not the reply to     *)
(* what was asked.  Appending to the inbound queue and tossing may fail,   *)
(* which elemail does not look at.                                         *)
(***************************************************************************)
EXTENDS Integers, Sequences, FiniteSets

CONSTANTS Mailers,    \* the elemail processes
          NOut,       \* the area's messages will be 1 .. NOut
          NIn,        \* the mail that reaches the POP3 server: 1 .. NIn
          Leave,      \* the inbound mail mailfwd.ctl leaves on the server
          Unknown,    \* the inbound mail to nobody here
          Long,       \* the inbound mail longer than MaxMsgBytes
          MaxTries,   \* 20 in the code (MaxSentTries)
          Strict,     \* the SMTP server refuses MAIL inside a transaction
          CrashAt,    \* the steps before which a process may die
          MaxFaults   \* bound on the faults

ASSUME MailAssumption ==
  /\ NOut \in Nat /\ NIn \in Nat
  /\ Leave \subseteq 1 .. NIn /\ Unknown \subseteq 1 .. NIn /\ Long \subseteq 1 .. NIn
  /\ MaxTries \in Nat \ {0} /\ MaxFaults \in Nat
  /\ Strict \in BOOLEAN

VARIABLES lock,       \* runmail.lck exists
          pc,         \* pc[m]: what mailer m is doing
          at, high,   \* its loop variable, the last message of its scan
          send,       \* whether it is to send
          list, dele, \* the mail it found on the POP3 server and marked by DELE
          late,       \* the mail whose text, or the rest of it, is still to
                      \* come there before the reply to its next command
          arts, keep, \* the articles it read, and those it keeps of them
          conn,       \* its SMTP connection: "open" inside a transaction
          purge,      \* whether it is past sending
          area,       \* the area's messages so far are 1 .. area
          sent,       \* those with the Sent bit
          outq, tmp,  \* emailout.ele and emailout.ele.tmp, <<>> if there is none
          delivered,  \* delivered[i]: how often the SMTP server took i
          server,     \* the mail on the POP3 server
          inq,        \* email_in.ele
          tossed,     \* tossed[i]: how often i was written to the message base
          arrived,    \* history: the mail that ever was on the POP3 server
          failed,     \* history: the inbound mail an append or a toss failed for
          crossed,    \* history: that deleted when other mail was read for it
          dropped,    \* history: the articles out of tries at a purge
          faults      \* history: the faults so far

runVars == <<high, send>>
popVars == <<list, dele, late>>
smtpVars == <<arts, keep, conn, purge>>
jobVars == <<at, runVars, popVars, smtpVars>>
outVars == <<area, sent, outq, tmp, delivered, dropped>>
inVars == <<server, inq, tossed, arrived, failed, crossed>>
vars == <<lock, pc, jobVars, outVars, inVars, faults>>

Article == [msg : 1 .. NOut, tries : Nat, tossed : BOOLEAN]

Goto(m, p) == pc' = [pc EXCEPT ![m] = p]
LoopTo(m, i) == at' = [at EXCEPT ![m] = i]
To(m, p) == Goto(m, p) /\ UNCHANGED jobVars
Onward(m, p) == Goto(m, p) /\ LoopTo(m, at[m] + 1) /\ UNCHANGED <<runVars, popVars, smtpVars>>
Fault == faults < MaxFaults /\ faults' = faults + 1

Init ==
  /\ lock = FALSE
  /\ pc = [m \in Mailers |-> "idle"]
  /\ at = [m \in Mailers |-> 0] /\ high = [m \in Mailers |-> 0]
  /\ send = [m \in Mailers |-> FALSE]
  /\ list = [m \in Mailers |-> {}] /\ dele = [m \in Mailers |-> {}]
  /\ late = [m \in Mailers |-> <<>>]
  /\ arts = [m \in Mailers |-> <<>>] /\ keep = [m \in Mailers |-> <<>>]
  /\ conn = [m \in Mailers |-> "ok"] /\ purge = [m \in Mailers |-> FALSE]
  /\ area = 0 /\ sent = {} /\ outq = <<>> /\ tmp = <<>>
  /\ delivered = [i \in 1 .. NOut |-> 0]
  /\ server = {} /\ inq = <<>> /\ arrived = {}
  /\ tossed = [i \in 1 .. NIn |-> 0]
  /\ dropped = {} /\ failed = {} /\ crossed = {}
  /\ faults = 0

-----------------------------------------------------------------------------
\* The users and the world.

\* A user posts in the area elemail scans.
UserPosts ==
  /\ area < NOut
  /\ area' = area + 1
  /\ UNCHANGED <<lock, pc, jobVars, sent, outq, tmp, delivered, dropped, inVars, faults>>

MailArrives(i) ==
  /\ i \notin arrived
  /\ server' = server \union {i}
  /\ arrived' = arrived \union {i}
  /\ UNCHANGED <<lock, pc, jobVars, outVars, inq, tossed, failed, crossed, faults>>

\* The operator finds a lock file whose process is gone and deletes it.
OperatorUnlocks ==
  /\ lock /\ \A m \in Mailers : pc[m] = "idle"
  /\ lock' = FALSE
  /\ UNCHANGED <<pc, jobVars, outVars, inVars, faults>>

-----------------------------------------------------------------------------
\* RunMailer: the lock file, then ScanMsgArea if asked for.

\* Mutant: the lock file is opened without O_EXCL.
StartAnyway(m) ==
  /\ pc[m] = "idle"
  /\ lock' = TRUE
  /\ \E p \in {"scan", "stat"} : Goto(m, p)
  /\ LoopTo(m, 1)
  /\ high' = [high EXCEPT ![m] = area]
  /\ UNCHANGED <<send, popVars, smtpVars>>
  /\ UNCHANGED <<outVars, inVars, faults>>

Start(m) ==
  /\ pc[m] = "idle"
  /\ ~lock
  /\ lock' = TRUE
  /\ \E p \in {"scan", "stat"} : Goto(m, p)
  /\ LoopTo(m, 1)
  /\ high' = [high EXCEPT ![m] = area]
  /\ UNCHANGED <<send, popVars, smtpVars>>
  /\ UNCHANGED <<outVars, inVars, faults>>

ScanNext(m) ==
  /\ pc[m] = "scan"
  /\ IF at[m] > high[m] THEN To(m, "stat") /\ UNCHANGED outq
     ELSE IF at[m] \in sent THEN Onward(m, "scan") /\ UNCHANGED outq
     ELSE /\ outq' = Append(outq, [msg |-> at[m], tries |-> 0, tossed |-> FALSE])
          /\ To(m, "mark")
  /\ UNCHANGED <<lock, area, sent, tmp, delivered, dropped, inVars, faults>>

MarkSent(m) ==
  /\ pc[m] = "mark"
  /\ sent' = sent \union {at[m]}
  /\ Onward(m, "scan")
  /\ UNCHANGED <<lock, area, outq, tmp, delivered, dropped, inVars, faults>>

\* Sending is off if there is no queue file now.
StatOut(m) ==
  /\ pc[m] = "stat"
  /\ \E p \in {"get", "send"} : Goto(m, p)
  /\ \E s \in BOOLEAN : (s => outq # <<>>) /\ send' = [send EXCEPT ![m] = s]
  /\ UNCHANGED <<at, high, popVars, smtpVars, lock, outVars, inVars, faults>>

-----------------------------------------------------------------------------
\* collectPOP3.

PopConnect(m) ==
  /\ pc[m] = "get"
  /\ Goto(m, "pop") /\ LoopTo(m, 1)
  /\ list' = [list EXCEPT ![m] = server]
  /\ UNCHANGED <<runVars, dele, late, smtpVars, lock, outVars, inVars, faults>>

\* No connection, or the logon or STAT is refused: RunMailer returns.
PopFails(m) ==
  /\ pc[m] = "get"
  /\ To(m, "finish")
  /\ UNCHANGED <<lock, outVars, inVars, faults>>

\* RETR i has been sent: its text will come behind what is late, unless the
\* server refused it.
Coming(m) == {late[m], Append(late[m], at[m])}

\* A line of q is read for a reply, perhaps the last of the text it belongs to.
LineOf(q) == {q} \union (IF q = <<>> THEN {} ELSE {Tail(q)})

\* Mail i was read: routeInbound, and AddMsgToBase, whose error is ignored.
Route(m, i, leaves, posts) ==
  /\ Goto(m, IF leaves THEN "pop" ELSE "dele")
  /\ LoopTo(m, IF leaves THEN at[m] + 1 ELSE at[m])
  /\ \/ posts /\ inq' = Append(inq, i) /\ UNCHANGED failed
     \/ posts /\ failed' = failed \union {i} /\ UNCHANGED inq
     \/ ~posts /\ UNCHANGED <<inq, failed>>
  /\ UNCHANGED <<runVars, list, dele, smtpVars>>
  /\ UNCHANGED <<lock, outVars, server, tossed, arrived, faults>>

\* RETR reads mail at[m], of long mail only the first MaxMsgBytes.
Retrieve(m) ==
  /\ pc[m] = "pop"
  /\ at[m] \in list[m] /\ late[m] = <<>>
  /\ late' = [late EXCEPT ![m] = IF at[m] \in Long THEN <<at[m]>> ELSE <<>>]
  /\ Route(m, at[m], at[m] \in Leave, at[m] \notin Leave \union Unknown)
  /\ UNCHANGED crossed

\* What is late is read for mail at[m], up to the next end of a text or again
\* for MaxMsgBytes.  The rest of a text has lost its header: it is to nobody or
\* to somebody else, and never to be left.
RetrieveOther(m) ==
  /\ pc[m] = "pop"
  /\ at[m] \in list[m] /\ late[m] # <<>>
  /\ \E q \in Coming(m) :
       \/ late' = [late EXCEPT ![m] = Tail(q)]
       \/ Head(q) \in Long /\ late' = [late EXCEPT ![m] = q]
  /\ \E leaves, posts \in BOOLEAN :
       /\ leaves => Head(late[m]) \in Leave /\ ~posts
       /\ Route(m, Head(late[m]), leaves, posts)
       /\ crossed' = IF leaves THEN crossed ELSE crossed \union {at[m]}

\* Mutant: a message that could not be retrieved is deleted.
RetrieveFailsDeletes(m) ==
  /\ pc[m] = "pop"
  /\ at[m] <= NIn
  /\ To(m, "dele")
  /\ UNCHANGED <<lock, outVars, inVars, faults>>

\* RETR fails, for the server refuses it, its reply or its text does not come
\* in time, or what is late is read for its reply (or the server has no such
\* message): the loop continues.
RetrieveFails(m) ==
  /\ pc[m] = "pop"
  /\ at[m] <= NIn
  /\ Goto(m, "pop") /\ LoopTo(m, at[m] + 1)
  /\ IF at[m] \in list[m]
       THEN \E q \in Coming(m) : \E r \in LineOf(q) : late' = [late EXCEPT ![m] = r]
       ELSE UNCHANGED late
  /\ UNCHANGED <<runVars, list, dele, smtpVars, lock, outVars, inVars, faults>>

\* Nobody looks at the reply to DELE, or at what is read for it.
Delete(m) ==
  /\ pc[m] = "dele"
  /\ Goto(m, "pop") /\ LoopTo(m, at[m] + 1)
  /\ dele' = [dele EXCEPT ![m] = @ \union {at[m]}]
  /\ \E r \in LineOf(late[m]) : late' = [late EXCEPT ![m] = r]
  /\ UNCHANGED <<runVars, list, smtpVars, lock, outVars, inVars, faults>>

HangUp(m) ==
  /\ Goto(m, "send")
  /\ late' = [late EXCEPT ![m] = <<>>]
  /\ UNCHANGED <<at, runVars, list, dele, smtpVars>>

\* QUIT: only now the server deletes.
PopQuit(m) ==
  /\ pc[m] = "pop" /\ at[m] > NIn
  /\ server' = server \ dele[m]
  /\ HangUp(m)
  /\ UNCHANGED <<lock, outVars, inq, tossed, arrived, failed, crossed, faults>>

\* The connection is gone before QUIT, which nobody looks at.
PopLost(m) ==
  /\ pc[m] = "pop" /\ at[m] > NIn
  /\ Fault
  /\ HangUp(m)
  /\ UNCHANGED <<lock, outVars, inVars>>

-----------------------------------------------------------------------------
\* sendSMTP.

\* Sending was not asked for, or there is nothing in the queue.
SendSkipped(m) ==
  /\ pc[m] = "send" /\ (~send[m] \/ outq = <<>>)
  /\ To(m, "toss")
  /\ UNCHANGED <<lock, outVars, inVars, faults>>

SmtpConnect(m) ==
  /\ pc[m] = "send" /\ send[m] /\ outq # <<>>
  /\ Goto(m, "article") /\ LoopTo(m, 1)
  /\ arts' = [arts EXCEPT ![m] = outq]
  /\ UNCHANGED <<runVars, popVars, keep, conn, purge, lock, outVars, inVars, faults>>

SmtpFails(m) ==
  /\ pc[m] = "send" /\ send[m] /\ outq # <<>>
  /\ To(m, "finish")
  /\ UNCHANGED <<lock, outVars, inVars, faults>>

Current(m) == arts[m][at[m]]
Articles(m) == pc[m] = "article" /\ at[m] <= Len(arts[m])
Taken(m) == delivered' = [delivered EXCEPT ![Current(m).msg] = @ + 1]

\* The result of an article: tossed, or one more try.
Result(m, c, tries, isTossed) ==
  /\ arts' = [arts EXCEPT ![m] = [@ EXCEPT ![at[m]] =
                [msg |-> Current(m).msg, tries |-> tries, tossed |-> isTossed]]]
  /\ conn' = [conn EXCEPT ![m] = c]
  /\ LoopTo(m, at[m] + 1)
  /\ UNCHANGED <<pc, runVars, popVars, keep, purge>>

\* 250 after the data: the article is marked, and RSET leaves no transaction.
Accepted(m) ==
  /\ Articles(m)
  /\ conn[m] = "ok" \/ (conn[m] = "open" /\ ~Strict)
  /\ Taken(m)
  /\ Result(m, "ok", Current(m).tries, TRUE)
  /\ UNCHANGED <<lock, area, sent, outq, tmp, dropped, inVars, faults>>

\* Mutant: an article that failed is marked as tossed.
FailedTossed(m, c) == Result(m, c, Current(m).tries, TRUE)

\* A failed article costs a try.  A refused recipient leaves the transaction
\* open, for no RSET follows; a dead connection fails all later articles.
Failed(m, c) == Result(m, c, Current(m).tries + 1, Current(m).tossed)

Refused(m) ==
  /\ Articles(m) /\ conn[m] # "dead"
  /\ Failed(m, "open")
  /\ UNCHANGED <<lock, outVars, inVars, faults>>

ConnectionLost(m) ==
  /\ Articles(m)
  /\ Failed(m, "dead")
  /\ UNCHANGED <<lock, outVars, inVars, faults>>

\* The server took the article but its reply never came.
ReplyLost(m) ==
  /\ Articles(m)
  /\ conn[m] = "ok" \/ (conn[m] = "open" /\ ~Strict)
  /\ Fault
  /\ Taken(m)
  /\ Failed(m, "dead")
  /\ UNCHANGED <<lock, area, sent, outq, tmp, dropped, inVars>>

SendDone(m) ==
  /\ pc[m] = "article" /\ at[m] > Len(arts[m])
  /\ To(m, "write")
  /\ UNCHANGED <<lock, outVars, inVars, faults>>

-----------------------------------------------------------------------------
\* rewriteNewsFile, first with the results, then with what PurgeSentBase keeps.

AfterWrite(m) == IF purge[m] THEN "toss" ELSE "read"

\* The temporary file is written; an empty queue has its file removed at once.
WriteTmp(m) ==
  /\ pc[m] = "write"
  /\ tmp' = arts[m]
  /\ IF arts[m] = <<>> THEN outq' = <<>> /\ To(m, AfterWrite(m))
                           ELSE UNCHANGED outq /\ To(m, "remove")
  /\ UNCHANGED <<lock, area, sent, delivered, dropped, inVars, faults>>

\* The disk is full: the temporary file is removed and RunMailer returns.
WriteTmpFails(m) ==
  /\ pc[m] = "write"
  /\ Fault
  /\ tmp' = <<>>
  /\ To(m, "finish")
  /\ UNCHANGED <<lock, area, sent, outq, delivered, dropped, inVars>>

RemoveOut(m) ==
  /\ pc[m] = "remove"
  /\ outq' = <<>>
  /\ To(m, "rename")
  /\ UNCHANGED <<lock, area, sent, tmp, delivered, dropped, inVars, faults>>

RenameTmp(m) ==
  /\ pc[m] = "rename"
  /\ outq' = tmp /\ tmp' = <<>>
  /\ To(m, AfterWrite(m))
  /\ UNCHANGED <<lock, area, sent, delivered, dropped, inVars, faults>>

\* PurgeSentBase reads the queue back ...
PurgeStart(m) ==
  /\ pc[m] = "read"
  /\ Goto(m, "purge") /\ LoopTo(m, 1)
  /\ arts' = [arts EXCEPT ![m] = outq]
  /\ UNCHANGED <<runVars, popVars, keep, conn, purge, lock, outVars, inVars, faults>>

Purging(m) == pc[m] = "purge" /\ at[m] <= Len(arts[m])
Exceeded(a) == ~a.tossed /\ a.tries > MaxTries

\* ... keeps what was neither sent nor out of tries ...
PurgeDrops(m) ==
  /\ Purging(m)
  /\ Current(m).tossed \/ Exceeded(Current(m))
  /\ dropped' = IF Exceeded(Current(m))
                  THEN dropped \union {Current(m).msg} ELSE dropped
  /\ Onward(m, "purge")
  /\ UNCHANGED <<lock, area, sent, outq, tmp, delivered, inVars, faults>>

PurgeKeeps(m) ==
  /\ Purging(m)
  /\ ~Current(m).tossed /\ ~Exceeded(Current(m))
  /\ keep' = [keep EXCEPT ![m] = Append(@, Current(m))]
  /\ LoopTo(m, at[m] + 1)
  /\ UNCHANGED <<pc, runVars, popVars, arts, conn, purge, lock, outVars, inVars, faults>>

\* ... and has the queue rewritten with it.
PurgeWrites(m) ==
  /\ pc[m] = "purge" /\ at[m] > Len(arts[m])
  /\ Goto(m, "write")
  /\ purge' = [purge EXCEPT ![m] = TRUE]
  /\ arts' = [arts EXCEPT ![m] = keep[m]]
  /\ UNCHANGED <<at, runVars, popVars, keep, conn, lock, outVars, inVars, faults>>

-----------------------------------------------------------------------------
\* ProcessNewArticles and the end.

TossStart(m) ==
  /\ pc[m] = "toss"
  /\ \E p \in {"finish", "append"} : Goto(m, p)
  /\ LoopTo(m, 1) /\ UNCHANGED <<runVars, popVars, smtpVars>>
  /\ UNCHANGED <<lock, outVars, inVars, faults>>

\* The article's area is there and the message is written, or it is not: the
\* loop continues either way.
TossNext(m) ==
  /\ pc[m] = "append" /\ at[m] <= Len(inq)
  /\ \/ /\ tossed' = [tossed EXCEPT ![inq[at[m]]] = @ + 1]
        /\ UNCHANGED failed
     \/ /\ failed' = failed \union {inq[at[m]]}
        /\ UNCHANGED tossed
  /\ Onward(m, "append")
  /\ UNCHANGED <<lock, outVars, server, inq, arrived, crossed, faults>>

\* Mutant of TossEnd: the inbound queue is not removed after tossing.
TossEndKeeps(m) ==
  /\ pc[m] = "append" /\ at[m] > Len(inq)
  /\ To(m, "finish")
  /\ UNCHANGED <<lock, outVars, inVars, faults>>

TossEnd(m) ==
  /\ pc[m] = "append" /\ at[m] > Len(inq)
  /\ inq' = <<>>
  /\ To(m, "finish")
  /\ UNCHANGED <<lock, outVars, server, tossed, arrived, failed, crossed, faults>>

\* A process and its memory are gone.
Gone(m) ==
  /\ Goto(m, "idle") /\ LoopTo(m, 0)
  /\ high' = [high EXCEPT ![m] = 0] /\ send' = [send EXCEPT ![m] = FALSE]
  /\ list' = [list EXCEPT ![m] = {}] /\ dele' = [dele EXCEPT ![m] = {}]
  /\ late' = [late EXCEPT ![m] = <<>>]
  /\ arts' = [arts EXCEPT ![m] = <<>>] /\ keep' = [keep EXCEPT ![m] = <<>>]
  /\ conn' = [conn EXCEPT ![m] = "ok"] /\ purge' = [purge EXCEPT ![m] = FALSE]

\* The deferred removal of the lock file.
Finish(m) ==
  /\ pc[m] = "finish"
  /\ lock' = FALSE
  /\ Gone(m)
  /\ UNCHANGED <<outVars, inVars, faults>>

Crash(m) ==
  /\ pc[m] \in CrashAt
  /\ Fault
  /\ Gone(m)
  /\ UNCHANGED <<lock, outVars, inVars>>

-----------------------------------------------------------------------------
MailerStep(m) ==
  \/ ScanNext(m) \/ MarkSent(m) \/ StatOut(m)
  \/ PopConnect(m) \/ PopFails(m) \/ Retrieve(m) \/ RetrieveOther(m)
  \/ RetrieveFails(m) \/ Delete(m)
  \/ PopQuit(m) \/ PopLost(m)
  \/ SendSkipped(m) \/ SmtpConnect(m) \/ SmtpFails(m) \/ Accepted(m) \/ Refused(m)
  \/ ConnectionLost(m) \/ ReplyLost(m) \/ SendDone(m)
  \/ WriteTmp(m) \/ WriteTmpFails(m) \/ RemoveOut(m) \/ RenameTmp(m)
  \/ PurgeStart(m) \/ PurgeDrops(m) \/ PurgeKeeps(m) \/ PurgeWrites(m)
  \/ TossStart(m) \/ TossNext(m) \/ TossEnd(m) \/ Finish(m)

Next ==
  \/ \E m \in Mailers : Start(m) \/ MailerStep(m) \/ Crash(m)
  \/ \E i \in 1 .. NIn : MailArrives(i)
  \/ UserPosts \/ OperatorUnlocks

Spec == Init /\ [][Next]_vars

-----------------------------------------------------------------------------
\* Properties.

Steps == {"idle", "scan", "mark", "stat", "get", "pop", "dele", "send", "article",
          "write", "remove", "rename", "read", "purge", "toss", "append", "finish"}

TypeOK ==
  /\ lock \in BOOLEAN
  /\ pc \in [Mailers -> Steps]
  /\ at \in [Mailers -> Nat] /\ high \in [Mailers -> 0 .. NOut]
  /\ send \in [Mailers -> BOOLEAN] /\ purge \in [Mailers -> BOOLEAN]
  /\ list \in [Mailers -> SUBSET (1 .. NIn)] /\ dele \in [Mailers -> SUBSET (1 .. NIn)]
  /\ late \in [Mailers -> Seq(1 .. NIn)]
  /\ arts \in [Mailers -> Seq(Article)] /\ keep \in [Mailers -> Seq(Article)]
  /\ conn \in [Mailers -> {"ok", "open", "dead"}]
  /\ area \in 0 .. NOut /\ sent \subseteq 1 .. area
  /\ outq \in Seq(Article) /\ tmp \in Seq(Article)
  /\ delivered \in [1 .. NOut -> Nat] /\ dropped \subseteq 1 .. NOut
  /\ server \subseteq arrived /\ arrived \subseteq 1 .. NIn
  /\ inq \in Seq(1 .. NIn) /\ tossed \in [1 .. NIn -> Nat]
  /\ failed \subseteq 1 .. NIn /\ crossed \subseteq 1 .. NIn
  /\ faults \in 0 .. MaxFaults

\* Two mailers never work on the queues together, nor does one start while a
\* dead one's lock file lies there (RunMailer's O_EXCL and deferred Remove).
OneMailer == \A m, n \in Mailers :
  pc[m] # "idle" => lock /\ (pc[n] # "idle" => m = n)

\* The messages of a queue, and the queue file or the one about to replace it.
Queued(q) == {q[i].msg : i \in DOMAIN q}
Renaming == \E m \in Mailers : pc[m] = "rename"

\* A message a user posted is never lost: it is still to be scanned, in the
\* queue, delivered, or it was tried more than MaxSentTries times ("drops
\* tossed articles and those that exceeded MaxSent tries", article.go:181).
OutMailKept == \A i \in 1 .. area :
  \/ i \notin sent \/ i \in Queued(outq) \/ (Renaming /\ i \in Queued(tmp))
  \/ delivered[i] > 0 \/ i \in dropped

\* Nor is inbound mail to somebody here, wherever a mailer dies and whichever
\* command or connection fails between the POP3 server, the inbound queue and
\* the message base (Dele after AddMsgToBase, Remove after the last
\* tossArticle).  What the code gives up is excepted by name: the mail an append
\* to the queue or a toss failed for, and the mail deleted when the text of
\* another was read for it on a connection that was behind.  Of mail longer
\* than MaxMsgBytes its beginning is kept.
InMailKept == \A i \in arrived \ Unknown :
  \/ i \in server \/ tossed[i] > 0 \/ \E j \in DOMAIN inq : inq[j] = i
  \/ i \in failed \/ i \in crossed

\* Without a fault nothing is sent or tossed twice, however often elemail runs
\* and the servers refuse (SetSent, ArtTossed and the order of the phases); the
\* rest of a text read for other mail may be tossed as mail of its own.
OnceWithoutFaults == faults = 0 =>
  /\ \A i \in 1 .. NOut : delivered[i] <= 1
  /\ crossed = {} => \A i \in 1 .. NIn : tossed[i] <= 1
=============================================================================
