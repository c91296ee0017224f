---------------------------- MODULE EleMailProofs -----------------------------
(***************************************************************************)
(* For any number of mailers and any mail: the lock file lets one mailer   *)
(* work; no posted mail is lost whatever the servers do and wherever a     *)
(* mailer dies, but for the moment when the queue file has no name; no     *)
(* inbound mail is lost but what the code gives up by itself (an append or *)
(* a toss failed, or other mail was read for it); and without a fault      *)
(* nothing is sent or tossed twice.                                        *)
(***************************************************************************)
EXTENDS EleMail, TLAPS, SequenceTheorems

\* Mail that needs no place any more: it was sent or its tries are used up;
\* it was tossed, is for nobody, is given up, or waits to be tossed.
OutDone(i) == delivered[i] > 0 \/ i \in dropped
InSafe(i) == \/ i \in Unknown \union failed \union crossed
             \/ tossed[i] > 0 \/ \E j \in DOMAIN inq : inq[j] = i

\* An article marked as tossed was taken by the SMTP server.
Truthful(q) == \A k \in DOMAIN q : q[k].tossed => delivered[q[k].msg] > 0

\* Nothing is missing in q of the first n articles of the other queue.
Has(q, i) == \E k \in DOMAIN q : q[k].msg = i
Covers(q, other, n) == \A k \in DOMAIN other :
  k <= n => OutDone(other[k].msg) \/ Has(q, other[k].msg)

\* A message is in the queue before it is marked.
ScanInv(m) ==
  /\ pc[m] \in {"scan", "mark"} => at[m] >= 1 /\ high[m] <= area
  /\ pc[m] = "mark" => at[m] <= high[m] /\ Has(outq, at[m])

\* What DELE marked was saved before, and what is tossed next comes after what
\* was tossed already.
InInv(m) ==
  /\ pc[m] = "dele" => at[m] \in 1 .. NIn /\ InSafe(at[m])
  /\ \A i \in dele[m] : InSafe(i)
  /\ pc[m] = "append" => /\ at[m] >= 1
                         /\ \A j \in DOMAIN inq :
                              j < at[m] => tossed[inq[j]] > 0 \/ inq[j] \in failed

\* The articles in memory and in the temporary file stand for all of the queue.
OutInv(m) ==
  /\ Truthful(arts[m]) /\ Truthful(keep[m])
  /\ pc[m] \in {"article", "write", "purge"} =>
       Covers(arts[m], outq, Len(outq))
  /\ pc[m] \in {"article", "purge"} => at[m] >= 1
  /\ pc[m] = "purge" => Covers(keep[m], arts[m], at[m] - 1)
  /\ pc[m] \in {"remove", "rename"} => Covers(tmp, outq, Len(outq))

IInv == /\ TypeOK /\ OneMailer /\ InMailKept
        /\ "rename" \in CrashAt \/ OutMailKept
        /\ Truthful(outq) /\ Truthful(tmp)
        /\ \A m \in Mailers : ScanInv(m) /\ InInv(m) /\ OutInv(m)

-----------------------------------------------------------------------------
\* The articles of a queue stay articles.
LEMMA ArticleLemma ==
  /\ <<>> \in Seq(Article)
  /\ \A i \in 1 .. NOut, t \in Nat, b \in BOOLEAN :
       [msg |-> i, tries |-> t, tossed |-> b] \in Article
  /\ \A a \in Article : a.msg \in 1 .. NOut /\ a.tries \in Nat /\ a.tossed \in BOOLEAN
  /\ \A q \in Seq(Article), a \in Article : Append(q, a) \in Seq(Article)
  /\ \A q \in Seq(Article), a \in Article, i \in Nat :
       i \in DOMAIN q => [q EXCEPT ![i] = a] \in Seq(Article)
  /\ \A q \in Seq(Article) : \A k \in DOMAIN q : q[k] \in Article
<1>1. <<>> \in Seq(Article)
  OBVIOUS
<1>2. \A i \in 1 .. NOut, t \in Nat, b \in BOOLEAN :
       [msg |-> i, tries |-> t, tossed |-> b] \in Article
  BY DEF Article
<1>3. \A a \in Article : a.msg \in 1 .. NOut /\ a.tries \in Nat /\ a.tossed \in BOOLEAN
  BY DEF Article
<1>4. \A q \in Seq(Article), a \in Article : Append(q, a) \in Seq(Article)
  OBVIOUS
<1>5. ASSUME NEW q \in Seq(Article), NEW a \in Article, NEW i \in DOMAIN q
      PROVE  [q EXCEPT ![i] = a] \in Seq(Article)
  BY ExceptSeq
<1>6. \A q \in Seq(Article) : \A k \in DOMAIN q : q[k] \in Article
  OBVIOUS
<1> QED BY <1>1, <1>2, <1>3, <1>4, <1>5, <1>6

\* The types of the mailers' variables and of the shared ones.
OwnTypes ==
  /\ pc \in [Mailers -> Steps]
  /\ at \in [Mailers -> Nat] /\ high \in [Mailers -> 0 .. NOut]
  /\ send \in [Mailers -> BOOLEAN] /\ purge \in [Mailers -> BOOLEAN]
  /\ list \in [Mailers -> SUBSET (1 .. NIn)] /\ dele \in [Mailers -> SUBSET (1 .. NIn)]
  /\ late \in [Mailers -> Seq(1 .. NIn)]
  /\ arts \in [Mailers -> Seq(Article)] /\ keep \in [Mailers -> Seq(Article)]
  /\ conn \in [Mailers -> {"ok", "open", "dead"}]

OutTypes ==
  /\ area \in 0 .. NOut /\ sent \subseteq 1 .. area
  /\ outq \in Seq(Article) /\ tmp \in Seq(Article)
  /\ delivered \in [1 .. NOut -> Nat] /\ dropped \subseteq 1 .. NOut

InTypes ==
  /\ server \subseteq arrived /\ arrived \subseteq 1 .. NIn
  /\ inq \in Seq(1 .. NIn) /\ tossed \in [1 .. NIn -> Nat]
  /\ failed \subseteq 1 .. NIn /\ crossed \subseteq 1 .. NIn

AllTypes == OwnTypes /\ OutTypes /\ InTypes /\ lock \in BOOLEAN /\ faults \in 0 .. MaxFaults

\* A mailer that moves on, puts down a result or ends keeps its types.
LEMMA MoveTypes ==
  ASSUME OwnTypes, NEW m \in Mailers, NEW p \in Steps
  PROVE  /\ To(m, p) => OwnTypes'
         /\ Onward(m, p) => OwnTypes'
         /\ Goto(m, p) => pc' \in [Mailers -> Steps]
         /\ \A i \in Nat : LoopTo(m, i) => at' \in [Mailers -> Nat]
<1> USE DEF OwnTypes
<1>1. Goto(m, p) => pc' \in [Mailers -> Steps]
  BY DEF Goto
<1>2. \A i \in Nat : LoopTo(m, i) => at' \in [Mailers -> Nat]
  BY DEF LoopTo
<1>3. at[m] + 1 \in Nat
  OBVIOUS
<1>4. To(m, p) => OwnTypes'
  BY <1>1 DEF To, jobVars, runVars, popVars, smtpVars
<1>5. Onward(m, p) => OwnTypes'
  BY <1>1, <1>2, <1>3 DEF Onward, runVars, popVars, smtpVars
<1> QED BY <1>1, <1>2, <1>4, <1>5

LEMMA ResultTypes ==
  ASSUME OwnTypes, NEW m \in Mailers, at[m] \in DOMAIN arts[m],
         NEW c \in {"ok", "open", "dead"}, NEW t \in Nat, NEW b \in BOOLEAN, Result(m, c, t, b)
  PROVE  OwnTypes'
<1> DEFINE a == [msg |-> Current(m).msg, tries |-> t, tossed |-> b]
<1>1. Current(m) \in Article
  BY ArticleLemma DEF OwnTypes, Current
<1>2. a \in Article
  BY <1>1, ArticleLemma
<1>3. [arts[m] EXCEPT ![at[m]] = a] \in Seq(Article)
  <2> HIDE DEF a
  <2> QED BY <1>2, ExceptSeq DEF OwnTypes
<1>4. arts' \in [Mailers -> Seq(Article)]
  BY <1>3 DEF OwnTypes, Result
<1>5. at' \in [Mailers -> Nat]
  BY DEF OwnTypes, Result, LoopTo
<1>6. conn' \in [Mailers -> {"ok", "open", "dead"}]
  BY DEF OwnTypes, Result
<1> QED BY <1>4, <1>5, <1>6 DEF OwnTypes, Result, runVars, popVars

\* What is late on a connection stays mail.
LEMMA MailQueueLemma ==
  /\ <<>> \in Seq(1 .. NIn)
  /\ \A q \in Seq(1 .. NIn), i \in 1 .. NIn :
       /\ Append(q, i) \in Seq(1 .. NIn) /\ <<i>> \in Seq(1 .. NIn)
       /\ Append(q, i) # <<>>
  /\ \A q \in Seq(1 .. NIn) :
       q # <<>> => Tail(q) \in Seq(1 .. NIn) /\ Head(q) \in 1 .. NIn
<1>1. \A q \in Seq(1 .. NIn), i \in 1 .. NIn :
        Append(q, i) \in Seq(1 .. NIn) /\ Append(q, i) # <<>>
  BY AppendProperties, EmptySeq
<1>2. \A q \in Seq(1 .. NIn) :
       q # <<>> => Tail(q) \in Seq(1 .. NIn) /\ Head(q) \in 1 .. NIn
  BY HeadTailProperties
<1>3. \A i \in 1 .. NIn : <<i>> \in Seq(1 .. NIn)
  OBVIOUS
<1> QED BY <1>1, <1>2, <1>3, EmptySeq

LEMMA LateTypes ==
  ASSUME OwnTypes, NEW m \in Mailers, at[m] \in 1 .. NIn
  PROVE  \A q \in Coming(m) :
           /\ q \in Seq(1 .. NIn) /\ LineOf(q) \subseteq Seq(1 .. NIn)
           /\ late[m] # <<>> => q # <<>> /\ Tail(q) \in Seq(1 .. NIn)
<1> TAKE q \in Coming(m)
<1>1. late[m] \in Seq(1 .. NIn)
  BY DEF OwnTypes
<1>2. q = late[m] \/ q = Append(late[m], at[m])
  BY DEF Coming
<1>3. q \in Seq(1 .. NIn) /\ (late[m] # <<>> => q # <<>>)
  BY <1>1, <1>2, MailQueueLemma
<1>4. q # <<>> => Tail(q) \in Seq(1 .. NIn)
  BY <1>3, MailQueueLemma
<1>5. LineOf(q) \subseteq Seq(1 .. NIn)
  BY <1>3, <1>4 DEF LineOf
<1> QED BY <1>3, <1>4, <1>5

\* Where the mail goes that was asked for.
LEMMA RetrieveRoutes ==
  ASSUME NEW m \in Mailers, Retrieve(m)
  PROVE  \E leaves \in BOOLEAN, posts \in BOOLEAN :
           /\ Route(m, at[m], leaves, posts)
           /\ leaves <=> at[m] \in Leave
           /\ posts <=> at[m] \notin Leave \union Unknown
<1>1. CASE at[m] \in Leave
  <2>1. Route(m, at[m], TRUE, FALSE)
    BY <1>1 DEF Retrieve, Route
  <2> QED BY <1>1, <2>1
<1>2. CASE at[m] \notin Leave /\ at[m] \in Unknown
  <2>1. Route(m, at[m], FALSE, FALSE)
    BY <1>2 DEF Retrieve, Route
  <2> QED BY <1>2, <2>1
<1>3. CASE at[m] \notin Leave \union Unknown
  <2>1. Route(m, at[m], FALSE, TRUE)
    BY <1>3 DEF Retrieve, Route
  <2> QED BY <1>3, <2>1
<1> QED BY <1>1, <1>2, <1>3

LEMMA GoneTypes ==
  ASSUME OwnTypes, NEW m \in Mailers, Gone(m)
  PROVE  OwnTypes'
<1>1. pc' \in [Mailers -> Steps] /\ at' \in [Mailers -> Nat]
  BY DEF Gone, Goto, LoopTo, OwnTypes, Steps
<1>2. high' \in [Mailers -> 0 .. NOut]
  BY MailAssumption DEF Gone, OwnTypes, MailAssumption
<1>3. send' \in [Mailers -> BOOLEAN] /\ purge' \in [Mailers -> BOOLEAN]
  BY DEF Gone, OwnTypes
<1>4. list' \in [Mailers -> SUBSET (1 .. NIn)] /\ dele' \in [Mailers -> SUBSET (1 .. NIn)]
  BY DEF Gone, OwnTypes
<1>5. arts' \in [Mailers -> Seq(Article)] /\ keep' \in [Mailers -> Seq(Article)]
  BY ArticleLemma DEF Gone, OwnTypes
<1>6. conn' \in [Mailers -> {"ok", "open", "dead"}]
  BY DEF Gone, OwnTypes
<1>7. late' \in [Mailers -> Seq(1 .. NIn)]
  BY MailQueueLemma DEF Gone, OwnTypes
<1> QED BY <1>1, <1>2, <1>3, <1>4, <1>5, <1>6, <1>7 DEF OwnTypes

LEMMA FaultType ==
  ASSUME faults \in 0 .. MaxFaults, Fault
  PROVE  faults' \in 0 .. MaxFaults
BY MailAssumption DEF MailAssumption, Fault

LEMMA HangUpTypes ==
  ASSUME OwnTypes, NEW m \in Mailers, HangUp(m)
  PROVE  OwnTypes'
<1>1. pc' \in [Mailers -> Steps]
  BY DEF HangUp, Goto, OwnTypes, Steps
<1>2. late' \in [Mailers -> Seq(1 .. NIn)]
  BY MailQueueLemma DEF HangUp, OwnTypes
<1> QED BY <1>1, <1>2 DEF HangUp, OwnTypes, runVars, smtpVars

LEMMA RouteTypes ==
  ASSUME AllTypes, NEW m \in Mailers, NEW i \in 1 .. NIn,
         NEW leaves \in BOOLEAN, NEW posts \in BOOLEAN,
         Route(m, i, leaves, posts), late' \in [Mailers -> Seq(1 .. NIn)],
         crossed' \subseteq 1 .. NIn
  PROVE  AllTypes'
<1> USE DEF AllTypes
<1>1. pc' \in [Mailers -> Steps]
  BY DEF Route, Goto, OwnTypes, Steps
<1>2. at' \in [Mailers -> Nat]
  BY DEF Route, LoopTo, OwnTypes
<1>3. OwnTypes'
  BY <1>1, <1>2 DEF Route, OwnTypes, runVars, smtpVars
<1>4. inq' \in Seq(1 .. NIn) /\ failed' \subseteq 1 .. NIn
  <2>1. Append(inq, i) \in Seq(1 .. NIn)
    BY MailQueueLemma DEF InTypes
  <2> QED BY <2>1 DEF Route, InTypes
<1> QED BY <1>3, <1>4 DEF Route, OutTypes, InTypes, outVars

LEMMA TypeStep ==
  ASSUME AllTypes, NEW m \in Mailers, ScanInv(m), InInv(m), OutInv(m), MailerStep(m)
  PROVE  AllTypes'
<1> USE MoveTypes, MailAssumption DEF Steps, AllTypes, MailAssumption, outVars, inVars
<1>0. ASSUME pc[m] \in {"article", "purge"}, at[m] <= Len(arts[m])
      PROVE  /\ at[m] \in DOMAIN arts[m] /\ Current(m) \in Article
             /\ Current(m).msg \in 1 .. NOut
  <2>1. at[m] \in DOMAIN arts[m]
    BY <1>0 DEF OutInv, OwnTypes
  <2> QED BY <2>1, ArticleLemma DEF Current, OwnTypes
<1>1. CASE ScanNext(m)
  <2>1. CASE at[m] > high[m]
    BY <1>1, <2>1 DEF ScanNext, OutTypes, InTypes
  <2>2. CASE at[m] <= high[m] /\ at[m] \in sent
    BY <1>1, <2>2 DEF ScanNext, OutTypes, InTypes, OwnTypes
  <2>3. CASE at[m] <= high[m] /\ at[m] \notin sent
    <3>1. at[m] \in 1 .. NOut
      BY <1>1, <2>3 DEF ScanInv, ScanNext, OwnTypes, OutTypes
    <3>2. [msg |-> at[m], tries |-> 0, tossed |-> FALSE] \in Article
      BY <3>1 DEF Article
    <3>3. outq' = Append(outq, [msg |-> at[m], tries |-> 0, tossed |-> FALSE])
      BY <1>1, <2>3 DEF ScanNext, OwnTypes, OutTypes
    <3>4. outq' \in Seq(Article)
      BY <3>2, <3>3, AppendProperties DEF OutTypes
    <3>5. To(m, "mark")
      BY <1>1, <2>3 DEF ScanNext, OutTypes, OwnTypes
    <3> QED BY <1>1, <3>4, <3>5 DEF ScanNext, OutTypes, InTypes
  <2>4. at[m] \in Nat /\ high[m] \in Nat
    BY DEF OwnTypes
  <2> QED BY <2>1, <2>2, <2>3, <2>4
<1>2. CASE MarkSent(m)
  <2>1. at[m] \in 1 .. area
    BY <1>2 DEF ScanInv, OwnTypes, OutTypes, MarkSent
  <2> QED BY <1>2, <2>1 DEF OutTypes, InTypes, MarkSent
<1>3. CASE StatOut(m)
  <2>1. pc' \in [Mailers -> Steps]
    BY <1>3 DEF StatOut
  <2>2. send' \in [Mailers -> BOOLEAN]
    BY <1>3 DEF OwnTypes, StatOut
  <2> QED BY <1>3, <2>1, <2>2 DEF OwnTypes, OutTypes, InTypes, StatOut, popVars, smtpVars
<1>4. CASE PopConnect(m)
  BY <1>4 DEF OwnTypes, OutTypes, InTypes, PopConnect, runVars, popVars, smtpVars
<1>5. CASE PopFails(m)
  BY <1>5 DEF OutTypes, InTypes, PopFails
<1>6. CASE Retrieve(m)
  <2>1. at[m] \in 1 .. NIn
    BY <1>6 DEF OwnTypes, Retrieve
  <2>2. late' \in [Mailers -> Seq(1 .. NIn)]
    BY <1>6, <2>1, MailQueueLemma DEF OwnTypes, Retrieve
  <2>3. PICK leaves \in BOOLEAN, posts \in BOOLEAN : Route(m, at[m], leaves, posts)
    BY <1>6, RetrieveRoutes
  <2>4. crossed' \subseteq 1 .. NIn
    BY <1>6 DEF Retrieve, InTypes
  <2> QED BY <2>1, <2>2, <2>3, <2>4, RouteTypes
<1>31. CASE RetrieveOther(m)
  <2>1. at[m] \in 1 .. NIn /\ late[m] # <<>>
    BY <1>31 DEF OwnTypes, RetrieveOther
  <2>2. Head(late[m]) \in 1 .. NIn
    BY <2>1, MailQueueLemma DEF OwnTypes
  <2>3. late' \in [Mailers -> Seq(1 .. NIn)]
    <3>1. PICK q \in Coming(m) : late' = [late EXCEPT ![m] = Tail(q)]
                              \/ late' = [late EXCEPT ![m] = q]
      BY <1>31 DEF RetrieveOther
    <3>2. q \in Seq(1 .. NIn) /\ Tail(q) \in Seq(1 .. NIn)
      BY <2>1, LateTypes
    <3> QED BY <3>1, <3>2 DEF OwnTypes
  <2>4. PICK leaves \in BOOLEAN, posts \in BOOLEAN :
          /\ Route(m, Head(late[m]), leaves, posts)
          /\ crossed' = IF leaves THEN crossed ELSE crossed \union {at[m]}
    BY <1>31 DEF RetrieveOther
  <2>5. crossed' \subseteq 1 .. NIn
    BY <2>1, <2>4 DEF InTypes
  <2> QED BY <2>1, <2>2, <2>3, <2>4, <2>5, RouteTypes
<1>7. CASE RetrieveFails(m)
  <2>1. at' \in [Mailers -> Nat] /\ pc' \in [Mailers -> Steps]
    <3>1. LoopTo(m, at[m] + 1) /\ at[m] + 1 \in Nat
      BY <1>7 DEF OwnTypes, RetrieveFails
    <3> QED BY <1>7, <3>1 DEF LoopTo, OwnTypes, RetrieveFails
  <2>2. late' \in [Mailers -> Seq(1 .. NIn)]
    <3>1. at[m] \in list[m] => at[m] \in 1 .. NIn
      BY DEF OwnTypes
    <3>2. CASE at[m] \in list[m]
      <4>1. PICK q \in Coming(m) : \E r \in LineOf(q) : late' = [late EXCEPT ![m] = r]
        BY <1>7, <3>2 DEF RetrieveFails
      <4>2. LineOf(q) \subseteq Seq(1 .. NIn)
        BY <3>1, <3>2, LateTypes
      <4> QED BY <4>1, <4>2 DEF OwnTypes
    <3>3. CASE late' = late
      BY <3>3 DEF OwnTypes
    <3> QED BY <1>7, <3>2, <3>3 DEF RetrieveFails
  <2> QED BY <1>7, <2>1, <2>2 DEF OwnTypes, OutTypes, InTypes, RetrieveFails, runVars, smtpVars
<1>8. CASE Delete(m)
  <2>1. dele' \in [Mailers -> SUBSET (1 .. NIn)]
    BY <1>8 DEF InInv, OwnTypes, Delete
  <2>2. at' \in [Mailers -> Nat]
    <3>1. LoopTo(m, at[m] + 1) /\ at[m] + 1 \in Nat
      BY <1>8 DEF OwnTypes, Delete
    <3> QED BY <3>1 DEF LoopTo, OwnTypes
  <2>3. late' \in [Mailers -> Seq(1 .. NIn)]
    <3>1. late[m] \in Seq(1 .. NIn)
      BY DEF OwnTypes
    <3>2. LineOf(late[m]) \subseteq Seq(1 .. NIn)
      BY <3>1, MailQueueLemma DEF LineOf
    <3>3. PICK r \in LineOf(late[m]) : late' = [late EXCEPT ![m] = r]
      BY <1>8 DEF Delete
    <3> QED BY <3>2, <3>3 DEF OwnTypes
  <2> QED BY <1>8, <2>1, <2>2, <2>3 DEF OutTypes, InTypes, OwnTypes, Delete, runVars, smtpVars
<1>9. CASE PopQuit(m)
  <2>1. OwnTypes'
    BY <1>9, HangUpTypes DEF PopQuit
  <2> QED BY <1>9, <2>1 DEF OutTypes, InTypes, PopQuit
<1>10. CASE PopLost(m)
  <2>1. OwnTypes'
    BY <1>10, HangUpTypes DEF PopLost
  <2> QED BY <1>10, <2>1, FaultType, ArticleLemma DEF OutTypes, InTypes, PopLost
<1>11. CASE SendSkipped(m)
  BY <1>11 DEF OutTypes, InTypes, SendSkipped
<1>12. CASE SmtpConnect(m)
  BY <1>12 DEF OwnTypes, OutTypes, InTypes, SmtpConnect, runVars, popVars, smtpVars
<1>13. CASE SmtpFails(m)
  BY <1>13 DEF OutTypes, InTypes, SmtpFails
<1>14. CASE Accepted(m)
  <2>1. at[m] \in DOMAIN arts[m] /\ Current(m) \in Article
    BY <1>14, <1>0 DEF Articles, Accepted
  <2>2. Current(m).tries \in Nat /\ TRUE \in BOOLEAN
    BY <2>1, ArticleLemma
  <2>3. Result(m, "ok", Current(m).tries, TRUE)
    BY <1>14 DEF Accepted
  <2>4. OwnTypes'
    BY <2>1, <2>2, <2>3, ResultTypes
  <2>5. delivered' \in [1 .. NOut -> Nat]
    BY <1>14, <2>1, ArticleLemma DEF OutTypes, Taken, Accepted
  <2> QED BY <1>14, <2>4, <2>5 DEF OutTypes, InTypes, Accepted
<1>15. CASE Refused(m)
  <2>1. at[m] \in DOMAIN arts[m] /\ Current(m) \in Article
    BY <1>15, <1>0 DEF Articles, Refused
  <2>2. Current(m).tries + 1 \in Nat /\ Current(m).tossed \in BOOLEAN
    BY <2>1, ArticleLemma
  <2>3. Result(m, "open", Current(m).tries + 1, Current(m).tossed)
    BY <1>15 DEF Failed, Refused
  <2>4. OwnTypes'
    BY <2>1, <2>2, <2>3, ResultTypes
  <2> QED BY <1>15, <2>4 DEF OutTypes, InTypes, Refused
<1>16. CASE ConnectionLost(m)
  <2>1. at[m] \in DOMAIN arts[m] /\ Current(m) \in Article
    BY <1>16, <1>0 DEF Articles, ConnectionLost
  <2>2. Current(m).tries + 1 \in Nat /\ Current(m).tossed \in BOOLEAN
    BY <2>1, ArticleLemma
  <2>3. Result(m, "dead", Current(m).tries + 1, Current(m).tossed)
    BY <1>16 DEF Failed, ConnectionLost
  <2>4. OwnTypes'
    BY <2>1, <2>2, <2>3, ResultTypes
  <2> QED BY <1>16, <2>4 DEF OutTypes, InTypes, ConnectionLost
<1>17. CASE ReplyLost(m)
  <2>1. at[m] \in DOMAIN arts[m] /\ Current(m) \in Article
    BY <1>17, <1>0 DEF Articles, ReplyLost
  <2>2. Current(m).tries + 1 \in Nat /\ Current(m).tossed \in BOOLEAN
    BY <2>1, ArticleLemma
  <2>3. Result(m, "dead", Current(m).tries + 1, Current(m).tossed)
    BY <1>17 DEF Failed, ReplyLost
  <2>4. OwnTypes'
    BY <2>1, <2>2, <2>3, ResultTypes
  <2>5. delivered' \in [1 .. NOut -> Nat]
    BY <1>17, <2>1, ArticleLemma DEF OutTypes, Taken, ReplyLost
  <2> QED BY <1>17, <2>4, <2>5, FaultType DEF OutTypes, InTypes, ReplyLost
<1>18. CASE SendDone(m)
  BY <1>18 DEF OutTypes, InTypes, SendDone
<1>19. CASE WriteTmp(m)
  BY <1>19, ArticleLemma DEF OwnTypes, OutTypes, InTypes, WriteTmp, AfterWrite
<1>20. CASE WriteTmpFails(m)
  BY <1>20, FaultType, ArticleLemma DEF OutTypes, InTypes, WriteTmpFails
<1>21. CASE RemoveOut(m)
  BY <1>21, ArticleLemma DEF OutTypes, InTypes, RemoveOut
<1>22. CASE RenameTmp(m)
  BY <1>22, ArticleLemma DEF OutTypes, InTypes, RenameTmp, AfterWrite
<1>23. CASE PurgeStart(m)
  BY <1>23 DEF OwnTypes, OutTypes, InTypes, PurgeStart, runVars, popVars, smtpVars
<1>24. CASE PurgeDrops(m)
  <2>1. dropped' \subseteq 1 .. NOut
    BY <1>24, <1>0 DEF OutTypes, Purging, PurgeDrops
  <2> QED BY <1>24, <2>1 DEF OutTypes, InTypes, PurgeDrops
<1>25. CASE PurgeKeeps(m)
  <2>1. Append(keep[m], Current(m)) \in Seq(Article)
    BY <1>25, <1>0, ArticleLemma DEF Purging, PurgeKeeps, OwnTypes
  <2>2. keep' \in [Mailers -> Seq(Article)]
    BY <1>25, <2>1 DEF PurgeKeeps, OwnTypes
  <2>3. at' \in [Mailers -> Nat]
    <3>1. LoopTo(m, at[m] + 1) /\ at[m] + 1 \in Nat
      BY <1>25 DEF PurgeKeeps, OwnTypes
    <3> QED BY <3>1 DEF LoopTo, OwnTypes
  <2> QED BY <1>25, <2>2, <2>3 DEF OutTypes, InTypes, OwnTypes, PurgeKeeps, runVars, popVars
<1>26. CASE PurgeWrites(m)
  BY <1>26 DEF OwnTypes, OutTypes, InTypes, PurgeWrites, runVars, popVars, smtpVars
<1>27. CASE TossStart(m)
  BY <1>27 DEF OwnTypes, OutTypes, InTypes, TossStart, runVars, popVars, smtpVars
<1>28. CASE TossNext(m)
  <2>1. inq[at[m]] \in 1 .. NIn
    <3>1. at[m] \in 1 .. Len(inq)
      BY <1>28 DEF InInv, OwnTypes, TossNext
    <3> QED BY <3>1, ElementOfSeq DEF InTypes
  <2>2. CASE UNCHANGED failed
    <3>1. tossed' = [tossed EXCEPT ![inq[at[m]]] = @ + 1] \/ UNCHANGED tossed
      BY <1>28 DEF TossNext
    <3>2. tossed \in [1 .. NIn -> Nat]
      BY DEF InTypes
    <3>3. tossed' \in [1 .. NIn -> Nat]
      BY ONLY <2>1, <3>1, <3>2
    <3> QED BY <1>28, <2>2, <3>3 DEF OutTypes, InTypes, TossNext
  <2>3. CASE UNCHANGED tossed /\ failed' = failed \union {inq[at[m]]}
    BY <1>28, <2>1, <2>3 DEF OutTypes, InTypes, TossNext
  <2> QED BY <1>28, <2>2, <2>3 DEF TossNext
<1>29. CASE TossEnd(m)
  <2>1. inq' \in Seq(1 .. NIn)
    BY <1>29 DEF TossEnd
  <2> QED BY <1>29, <2>1 DEF OutTypes, InTypes, TossEnd
<1>30. CASE Finish(m)
  BY <1>30, GoneTypes DEF OutTypes, InTypes, Finish
<1> QED BY <1>1, <1>2, <1>3, <1>4, <1>5, <1>6, <1>7, <1>8, <1>9, <1>10, <1>11,
           <1>12, <1>13, <1>14, <1>15, <1>16, <1>17, <1>18, <1>19, <1>20, <1>21,
           <1>22, <1>23, <1>24, <1>25, <1>26, <1>27, <1>28, <1>29,
           <1>30, <1>31 DEF MailerStep

-----------------------------------------------------------------------------
\* A mailer leaves the memory of the others alone.
LEMMA Frame ==
  ASSUME OwnTypes, NEW m \in Mailers, Start(m) \/ MailerStep(m) \/ Crash(m)
  PROVE  \A n \in Mailers \ {m} :
           /\ pc'[n] = pc[n] /\ at'[n] = at[n] /\ high'[n] = high[n]
           /\ dele'[n] = dele[n] /\ arts'[n] = arts[n] /\ keep'[n] = keep[n]
<1> USE DEF OwnTypes, Goto, LoopTo, To, Onward, jobVars, runVars, popVars, smtpVars
<1>1. CASE ScanNext(m) BY <1>1 DEF ScanNext
<1>2. CASE MarkSent(m) BY <1>2 DEF MarkSent
<1>3. CASE StatOut(m) BY <1>3 DEF StatOut
<1>4. CASE PopConnect(m) BY <1>4 DEF PopConnect
<1>5. CASE PopFails(m) BY <1>5 DEF PopFails
<1>6. CASE Retrieve(m) BY <1>6 DEF Route, Retrieve
<1>7. CASE RetrieveFails(m) BY <1>7 DEF RetrieveFails
<1>8. CASE Delete(m) BY <1>8 DEF Delete
<1>9. CASE PopQuit(m) BY <1>9 DEF HangUp, PopQuit
<1>10. CASE PopLost(m) BY <1>10 DEF HangUp, PopLost
<1>11. CASE SendSkipped(m) BY <1>11 DEF SendSkipped
<1>12. CASE SmtpConnect(m) BY <1>12 DEF SmtpConnect
<1>13. CASE SmtpFails(m) BY <1>13 DEF SmtpFails
<1>14. CASE Accepted(m) BY <1>14 DEF Result, Accepted
<1>15. CASE Refused(m) BY <1>15 DEF Failed, Result, Refused
<1>16. CASE ConnectionLost(m) BY <1>16 DEF Failed, Result, ConnectionLost
<1>17. CASE ReplyLost(m) BY <1>17 DEF Failed, Result, ReplyLost
<1>18. CASE SendDone(m) BY <1>18 DEF SendDone
<1>19. CASE WriteTmp(m) BY <1>19 DEF AfterWrite, WriteTmp
<1>20. CASE WriteTmpFails(m) BY <1>20 DEF WriteTmpFails
<1>21. CASE RemoveOut(m) BY <1>21 DEF RemoveOut
<1>22. CASE RenameTmp(m) BY <1>22 DEF AfterWrite, RenameTmp
<1>23. CASE PurgeStart(m) BY <1>23 DEF PurgeStart
<1>24. CASE PurgeDrops(m) BY <1>24 DEF PurgeDrops
<1>25. CASE PurgeKeeps(m) BY <1>25 DEF PurgeKeeps
<1>26. CASE PurgeWrites(m) BY <1>26 DEF PurgeWrites
<1>27. CASE TossStart(m) BY <1>27 DEF TossStart
<1>28. CASE TossNext(m) BY <1>28 DEF TossNext
<1>29. CASE TossEnd(m) BY <1>29 DEF TossEnd
<1>30. CASE Finish(m) BY <1>30 DEF Gone, Finish
<1>31. CASE Start(m) BY <1>31 DEF Start
<1>32. CASE Crash(m) BY <1>32 DEF Gone, Crash
<1>33. CASE RetrieveOther(m) BY <1>33 DEF Route, RetrieveOther
<1> QED BY <1>1, <1>2, <1>3, <1>4, <1>5, <1>6, <1>7, <1>8, <1>9, <1>10, <1>11,
           <1>12, <1>13, <1>14, <1>15, <1>16, <1>17, <1>18, <1>19, <1>20, <1>21,
           <1>22, <1>23, <1>24, <1>25, <1>26, <1>27, <1>28, <1>29, <1>30, <1>31,
           <1>32, <1>33 DEF MailerStep

\* Steps that have nothing to do with the outbound mail, and with the inbound.
OutQuiet(m) ==
  /\ UNCHANGED <<outVars, arts, keep>>
  /\ pc[m] # "rename"
  /\ pc'[m] \notin {"article", "write", "purge", "remove", "rename"}

InQuiet(m) ==
  /\ UNCHANGED <<inVars, dele>>
  /\ pc'[m] \notin {"dele", "append"}

LEMMA OutQuietSteps ==
  ASSUME OwnTypes, NEW m \in Mailers, MailerStep(m)
  PROVE  \/ OutQuiet(m)
         \/ ScanNext(m) \/ MarkSent(m) \/ SmtpConnect(m) \/ Accepted(m)
         \/ Refused(m) \/ ConnectionLost(m) \/ ReplyLost(m) \/ SendDone(m)
         \/ WriteTmp(m) \/ WriteTmpFails(m) \/ RemoveOut(m)
         \/ RenameTmp(m) \/ PurgeStart(m) \/ PurgeDrops(m)
         \/ PurgeKeeps(m) \/ PurgeWrites(m) \/ Finish(m)
<1> USE DEF OutQuiet, OwnTypes, Goto, LoopTo, To, Onward, jobVars, outVars, runVars,
            popVars, smtpVars
<1>1. CASE StatOut(m) BY <1>1 DEF StatOut
<1>2. CASE PopConnect(m) BY <1>2 DEF PopConnect
<1>3. CASE PopFails(m) BY <1>3 DEF PopFails
<1>4. CASE Retrieve(m) BY <1>4 DEF Route, Retrieve
<1>5. CASE RetrieveFails(m) BY <1>5 DEF RetrieveFails
<1>6. CASE Delete(m) BY <1>6 DEF Delete
<1>7. CASE PopQuit(m) BY <1>7 DEF HangUp, PopQuit
<1>8. CASE PopLost(m) BY <1>8 DEF HangUp, PopLost
<1>9. CASE SendSkipped(m) BY <1>9 DEF SendSkipped
<1>10. CASE SmtpFails(m) BY <1>10 DEF SmtpFails
<1>11. CASE TossStart(m) BY <1>11 DEF TossStart
<1>12. CASE TossNext(m) BY <1>12 DEF TossNext
<1>13. CASE TossEnd(m) BY <1>13 DEF TossEnd
<1>14. CASE RetrieveOther(m) BY <1>14 DEF Route, RetrieveOther
<1> QED BY <1>1, <1>2, <1>3, <1>4, <1>5, <1>6, <1>7, <1>8, <1>9, <1>10, <1>11,
           <1>12, <1>13, <1>14 DEF MailerStep

LEMMA InQuietSteps ==
  ASSUME OwnTypes, NEW m \in Mailers, MailerStep(m)
  PROVE  \/ InQuiet(m)
         \/ Retrieve(m) \/ RetrieveOther(m) \/ Delete(m) \/ PopQuit(m) \/ TossStart(m)
         \/ TossNext(m) \/ TossEnd(m) \/ Finish(m)
<1> USE DEF InQuiet, OwnTypes, Goto, LoopTo, To, Onward, jobVars, inVars, runVars,
            popVars, smtpVars
<1>1. CASE ScanNext(m) BY <1>1 DEF ScanNext
<1>2. CASE MarkSent(m) BY <1>2 DEF MarkSent
<1>3. CASE StatOut(m) BY <1>3 DEF StatOut
<1>4. CASE PopConnect(m) BY <1>4 DEF PopConnect
<1>5. CASE PopFails(m) BY <1>5 DEF PopFails
<1>6. CASE RetrieveFails(m) BY <1>6 DEF RetrieveFails
<1>7. CASE PopLost(m) BY <1>7 DEF HangUp, PopLost
<1>8. CASE SendSkipped(m) BY <1>8 DEF SendSkipped
<1>9. CASE SmtpConnect(m) BY <1>9 DEF SmtpConnect
<1>10. CASE SmtpFails(m) BY <1>10 DEF SmtpFails
<1>11. CASE Accepted(m) BY <1>11 DEF Articles, Result, Accepted
<1>12. CASE Refused(m) BY <1>12 DEF Articles, Failed, Result, Refused
<1>13. CASE ConnectionLost(m) BY <1>13 DEF Articles, Failed, Result, ConnectionLost
<1>14. CASE ReplyLost(m) BY <1>14 DEF Articles, Failed, Result, ReplyLost
<1>15. CASE SendDone(m) BY <1>15 DEF SendDone
<1>16. CASE WriteTmp(m) BY <1>16 DEF AfterWrite, WriteTmp
<1>17. CASE WriteTmpFails(m) BY <1>17 DEF WriteTmpFails
<1>18. CASE RemoveOut(m) BY <1>18 DEF RemoveOut
<1>19. CASE RenameTmp(m) BY <1>19 DEF AfterWrite, RenameTmp
<1>20. CASE PurgeStart(m) BY <1>20 DEF PurgeStart
<1>21. CASE PurgeDrops(m) BY <1>21 DEF PurgeDrops
<1>22. CASE PurgeKeeps(m) BY <1>22 DEF Purging, PurgeKeeps
<1>23. CASE PurgeWrites(m) BY <1>23 DEF PurgeWrites
<1> QED BY <1>1, <1>2, <1>3, <1>4, <1>5, <1>6, <1>7, <1>8, <1>9, <1>10, <1>11,
           <1>12, <1>13, <1>14, <1>15, <1>16, <1>17, <1>18, <1>19, <1>20, <1>21,
           <1>22, <1>23 DEF MailerStep

\* Only the end of a mailer takes the lock away, or makes it idle.
LEMMA LockSteps ==
  ASSUME OwnTypes, NEW m \in Mailers, MailerStep(m), ~Finish(m)
  PROVE  pc[m] # "idle" /\ pc'[m] # "idle" /\ lock' = lock
<1> USE DEF OwnTypes, Goto, To, Onward
<1>1. CASE ScanNext(m) BY <1>1 DEF ScanNext
<1>2. CASE MarkSent(m) BY <1>2 DEF MarkSent
<1>3. CASE StatOut(m) BY <1>3 DEF StatOut
<1>4. CASE PopConnect(m) BY <1>4 DEF PopConnect
<1>5. CASE PopFails(m) BY <1>5 DEF PopFails
<1>6. CASE Retrieve(m) BY <1>6 DEF Route, Retrieve
<1>7. CASE RetrieveFails(m) BY <1>7 DEF RetrieveFails
<1>8. CASE Delete(m) BY <1>8 DEF Delete
<1>9. CASE PopQuit(m) BY <1>9 DEF HangUp, PopQuit
<1>10. CASE PopLost(m) BY <1>10 DEF HangUp, PopLost
<1>11. CASE SendSkipped(m) BY <1>11 DEF SendSkipped
<1>12. CASE SmtpConnect(m) BY <1>12 DEF SmtpConnect
<1>13. CASE SmtpFails(m) BY <1>13 DEF SmtpFails
<1>14. CASE Accepted(m) BY <1>14 DEF Articles, Result, Accepted
<1>15. CASE Refused(m) BY <1>15 DEF Articles, Failed, Result, Refused
<1>16. CASE ConnectionLost(m) BY <1>16 DEF Articles, Failed, Result, ConnectionLost
<1>17. CASE ReplyLost(m) BY <1>17 DEF Articles, Failed, Result, ReplyLost
<1>18. CASE SendDone(m) BY <1>18 DEF SendDone
<1>19. CASE WriteTmp(m) BY <1>19 DEF AfterWrite, WriteTmp
<1>20. CASE WriteTmpFails(m) BY <1>20 DEF WriteTmpFails
<1>21. CASE RemoveOut(m) BY <1>21 DEF RemoveOut
<1>22. CASE RenameTmp(m) BY <1>22 DEF AfterWrite, RenameTmp
<1>23. CASE PurgeStart(m) BY <1>23 DEF PurgeStart
<1>24. CASE PurgeDrops(m) BY <1>24 DEF Purging, PurgeDrops
<1>25. CASE PurgeKeeps(m) BY <1>25 DEF Purging, PurgeKeeps
<1>26. CASE PurgeWrites(m) BY <1>26 DEF PurgeWrites
<1>27. CASE TossStart(m) BY <1>27 DEF TossStart
<1>28. CASE TossNext(m) BY <1>28 DEF TossNext
<1>29. CASE TossEnd(m) BY <1>29 DEF TossEnd
<1>30. CASE RetrieveOther(m) BY <1>30 DEF Route, RetrieveOther
<1> QED BY <1>1, <1>2, <1>3, <1>4, <1>5, <1>6, <1>7, <1>8, <1>9, <1>10, <1>11,
           <1>12, <1>13, <1>14, <1>15, <1>16, <1>17, <1>18, <1>19, <1>20, <1>21,
           <1>22, <1>23, <1>24, <1>25, <1>26, <1>27, <1>28, <1>29, <1>30 DEF MailerStep

\* Only the scan goes on scanning.
LEMMA ScanSteps ==
  ASSUME OwnTypes, NEW m \in Mailers, MailerStep(m)
  PROVE  /\ area' = area /\ high'[m] \in {high[m], 0}
         /\ pc'[m] \notin {"scan", "mark"} \/ ScanNext(m) \/ MarkSent(m)
<1> USE DEF OwnTypes, Goto, To, Onward, jobVars, runVars, outVars
<1>1. CASE ScanNext(m) BY <1>1 DEF ScanNext
<1>2. CASE MarkSent(m) BY <1>2 DEF MarkSent
<1>3. CASE StatOut(m) BY <1>3 DEF StatOut
<1>4. CASE PopConnect(m) BY <1>4 DEF PopConnect
<1>5. CASE PopFails(m) BY <1>5 DEF PopFails
<1>6. CASE Retrieve(m) BY <1>6 DEF Route, Retrieve
<1>7. CASE RetrieveFails(m) BY <1>7 DEF RetrieveFails
<1>8. CASE Delete(m) BY <1>8 DEF Delete
<1>9. CASE PopQuit(m) BY <1>9 DEF HangUp, PopQuit
<1>10. CASE PopLost(m) BY <1>10 DEF HangUp, PopLost
<1>11. CASE SendSkipped(m) BY <1>11 DEF SendSkipped
<1>12. CASE SmtpConnect(m) BY <1>12 DEF SmtpConnect
<1>13. CASE SmtpFails(m) BY <1>13 DEF SmtpFails
<1>14. CASE Accepted(m) BY <1>14 DEF Articles, Result, Accepted
<1>15. CASE Refused(m) BY <1>15 DEF Articles, Failed, Result, Refused
<1>16. CASE ConnectionLost(m) BY <1>16 DEF Articles, Failed, Result, ConnectionLost
<1>17. CASE ReplyLost(m) BY <1>17 DEF Articles, Failed, Result, ReplyLost
<1>18. CASE SendDone(m) BY <1>18 DEF SendDone
<1>19. CASE WriteTmp(m) BY <1>19 DEF AfterWrite, WriteTmp
<1>20. CASE WriteTmpFails(m) BY <1>20 DEF WriteTmpFails
<1>21. CASE RemoveOut(m) BY <1>21 DEF RemoveOut
<1>22. CASE RenameTmp(m) BY <1>22 DEF AfterWrite, RenameTmp
<1>23. CASE PurgeStart(m) BY <1>23 DEF PurgeStart
<1>24. CASE PurgeDrops(m) BY <1>24 DEF PurgeDrops
<1>25. CASE PurgeKeeps(m) BY <1>25 DEF Purging, PurgeKeeps
<1>26. CASE PurgeWrites(m) BY <1>26 DEF PurgeWrites
<1>27. CASE TossStart(m) BY <1>27 DEF TossStart
<1>28. CASE TossNext(m) BY <1>28 DEF TossNext
<1>29. CASE TossEnd(m) BY <1>29 DEF TossEnd
<1>30. CASE Finish(m) BY <1>30 DEF Gone, Finish
<1>31. CASE RetrieveOther(m) BY <1>31 DEF Route, RetrieveOther
<1> QED BY <1>1, <1>2, <1>3, <1>4, <1>5, <1>6, <1>7, <1>8, <1>9, <1>10, <1>11,
           <1>12, <1>13, <1>14, <1>15, <1>16, <1>17, <1>18, <1>19, <1>20, <1>21,
           <1>22, <1>23, <1>24, <1>25, <1>26, <1>27, <1>28, <1>29, <1>30, <1>31 DEF
           MailerStep

-----------------------------------------------------------------------------
\* The scan.
LEMMA QueuedHas == \A q, i : i \in Queued(q) <=> Has(q, i)
BY DEF Queued, Has

LEMMA ScanStep ==
  ASSUME AllTypes, NEW m \in Mailers, ScanInv(m), MailerStep(m)
  PROVE  ScanInv(m)'
<1> USE DEF AllTypes, OwnTypes, OutTypes
<1>1. CASE ScanNext(m)
  <2>1. CASE at[m] > high[m]
    BY <1>1, <2>1 DEF ScanInv, ScanNext, To, Goto
  <2>2. CASE at[m] <= high[m] /\ at[m] \in sent
    BY <1>1, <2>2 DEF ScanInv, ScanNext, Onward, Goto, LoopTo, runVars
  <2>3. CASE at[m] <= high[m] /\ at[m] \notin sent
    <3> DEFINE a == [msg |-> at[m], tries |-> 0, tossed |-> FALSE]
    <3>1. a \in Article
      BY MailAssumption, <1>1, <2>3 DEF ScanInv, ScanNext, Article, MailAssumption
    <3>2. outq' = Append(outq, a)
      BY <1>1, <2>3 DEF ScanNext
    <3>3. /\ Len(outq) + 1 \in DOMAIN outq'
          /\ outq'[Len(outq) + 1] = a
      <4> HIDE DEF a
      <4> QED BY <3>1, <3>2, AppendProperties
    <3>4. Has(outq', at[m])
      BY <3>3 DEF Has
    <3>5. at' = at /\ high' = high /\ area' = area /\ pc'[m] = "mark"
      BY <1>1, <2>3 DEF ScanNext, To, Goto, jobVars, runVars
    <3> QED BY <1>1, <2>3, <3>4, <3>5 DEF ScanInv, ScanNext
  <2>4. at[m] \in Nat /\ high[m] \in Nat
    OBVIOUS
  <2> QED BY <2>1, <2>2, <2>3, <2>4
<1>2. CASE MarkSent(m)
  <2>1. at'[m] = at[m] + 1 /\ high' = high /\ area' = area /\ pc'[m] = "scan"
    BY <1>2 DEF MarkSent, Onward, Goto, LoopTo, runVars
  <2> QED BY <1>2, <2>1 DEF ScanInv, MarkSent
<1>3. CASE pc'[m] \notin {"scan", "mark"}
  BY <1>3 DEF ScanInv
<1> QED BY <1>1, <1>2, <1>3, ScanSteps

-----------------------------------------------------------------------------
\* The inbound queue holds inbound mail.
LEMMA InboxLemma ==
  ASSUME InTypes
  PROVE  \A j \in DOMAIN inq : inq[j] \in 1 .. NIn
BY MailAssumption DEF InTypes, MailAssumption

\* The inbound mail: what is safe stays safe, and the mailer's place in its
\* loops stays true.
LEMMA RouteKeeps ==
  ASSUME AllTypes, InMailKept, NEW m \in Mailers, NEW i \in 1 .. NIn,
         NEW leaves \in BOOLEAN, NEW posts \in BOOLEAN,
         Route(m, i, leaves, posts), crossed \subseteq crossed'
  PROVE  /\ \A j \in 1 .. NIn : InSafe(j) => InSafe(j)'
         /\ InMailKept' /\ dele' = dele /\ pc'[m] # "append"
         /\ posts => InSafe(i)'
<1> USE DEF AllTypes, OwnTypes, InTypes
<1>1. /\ UNCHANGED <<server, tossed, arrived, dele>> /\ failed \subseteq failed'
      /\ inq' \in {inq, Append(inq, i)} /\ pc'[m] \in {"pop", "dele"}
      /\ posts => inq' = Append(inq, i) \/ i \in failed'
  BY DEF Route, Goto
<1>2. DOMAIN inq \subseteq DOMAIN inq' /\ \A j \in DOMAIN inq : inq'[j] = inq[j]
  <2>1. CASE inq' = inq
    BY <2>1
  <2>2. CASE inq' = Append(inq, i)
    <3>1. DOMAIN inq = 1 .. Len(inq) /\ Len(inq) \in Nat
      OBVIOUS
    <3>2. DOMAIN Append(inq, i) = 1 .. Len(inq) + 1
          /\ \A j \in DOMAIN inq : Append(inq, i)[j] = inq[j]
      BY AppendProperties
    <3>3. 1 .. Len(inq) \subseteq 1 .. Len(inq) + 1
      BY <3>1
    <3> QED BY <2>2, <3>1, <3>2, <3>3
  <2> QED BY <1>1, <2>1, <2>2
<1>3. inq' = Append(inq, i) => \E j \in DOMAIN inq' : inq'[j] = i
  <2>1. Append(inq, i)[Len(inq) + 1] = i /\ Len(inq) + 1 \in DOMAIN Append(inq, i)
    BY AppendProperties
  <2> QED BY <2>1
<1>4. \A j \in 1 .. NIn : InSafe(j) => InSafe(j)'
  BY <1>1, <1>2 DEF InSafe
<1>5. InMailKept'
  BY <1>1, <1>2 DEF InMailKept
<1>6. posts => InSafe(i)'
  BY <1>1, <1>3 DEF InSafe
<1> QED BY <1>1, <1>4, <1>5, <1>6

LEMMA InStep ==
  ASSUME AllTypes, InMailKept, NEW m \in Mailers, InInv(m), MailerStep(m)
  PROVE  /\ \A i \in 1 .. NIn : InSafe(i) => InSafe(i)'
         /\ InInv(m)' /\ InMailKept'
<1> USE DEF AllTypes, OwnTypes, InTypes, InSafe
<1>1. CASE InQuiet(m)
  BY <1>1 DEF InQuiet, InInv, InMailKept, inVars
<1>2. CASE Retrieve(m)
  <2>1. at[m] \in 1 .. NIn
    BY <1>2 DEF Retrieve
  <2>2. crossed' = crossed
    BY <1>2 DEF Retrieve
  <2>3. PICK leaves \in BOOLEAN, posts \in BOOLEAN :
          /\ Route(m, at[m], leaves, posts)
          /\ leaves <=> at[m] \in Leave
          /\ posts <=> at[m] \notin Leave \union Unknown
    BY <1>2, RetrieveRoutes
  <2>4. PICK k \in 1 .. NIn : k = at[m]
    BY <2>1
  <2>5. /\ \A i \in 1 .. NIn : InSafe(i) => InSafe(i)'
        /\ InMailKept' /\ dele' = dele /\ pc'[m] # "append"
        /\ posts => InSafe(k)'
    <3>1. Route(m, k, leaves, posts) /\ crossed \subseteq crossed'
      BY <2>2, <2>3, <2>4
    <3> HIDE DEF InSafe, InInv, AllTypes
    <3> QED BY <3>1, RouteKeeps
  <2>6. pc'[m] = "dele" => ~leaves /\ at'[m] = k
    BY <2>3, <2>4 DEF Route, Goto, LoopTo
  <2>7. k \in Unknown => InSafe(k)'
    OBVIOUS
  <2>8. pc'[m] = "dele" => InSafe(k)'
    <3> HIDE DEF InSafe
    <3> QED BY <2>3, <2>4, <2>5, <2>6, <2>7
  <2> HIDE DEF InSafe
  <2>9. dele[m] \subseteq 1 .. NIn
    OBVIOUS
  <2>10. InInv(m)'
    BY <2>5, <2>6, <2>8, <2>9 DEF InInv
  <2> QED BY <2>5, <2>10
<1>9. CASE RetrieveOther(m)
  <2>1. at[m] \in 1 .. NIn /\ Head(late[m]) \in 1 .. NIn
    BY <1>9, MailQueueLemma DEF RetrieveOther
  <2>2. PICK leaves \in BOOLEAN, posts \in BOOLEAN :
          /\ Route(m, Head(late[m]), leaves, posts)
          /\ crossed' = IF leaves THEN crossed ELSE crossed \union {at[m]}
    BY <1>9 DEF RetrieveOther
  <2>3. /\ \A i \in 1 .. NIn : InSafe(i) => InSafe(i)'
        /\ InMailKept' /\ dele' = dele /\ pc'[m] # "append"
    BY <2>1, <2>2, RouteKeeps
  <2>4. pc'[m] = "dele" => at'[m] = at[m] /\ at[m] \in crossed'
    BY <2>2 DEF Route, Goto, LoopTo
  <2> QED BY <2>1, <2>3, <2>4 DEF InInv
<1>3. CASE Delete(m)
  <2>1. /\ UNCHANGED inVars /\ pc'[m] = "pop"
        /\ dele'[m] = dele[m] \union {at[m]} /\ InSafe(at[m])
    BY <1>3 DEF Delete, Goto, InInv
  <2> QED BY <2>1 DEF InInv, InMailKept, inVars
<1>4. CASE PopQuit(m)
  <2>1. /\ inq' = inq /\ tossed' = tossed /\ arrived' = arrived /\ dele' = dele
        /\ server' = server \ dele[m] /\ pc'[m] = "send"
        /\ failed' = failed /\ crossed' = crossed
    BY <1>4 DEF PopQuit, HangUp, Goto
  <2> QED BY <2>1 DEF InInv, InMailKept
<1>5. CASE TossStart(m)
  <2>1. UNCHANGED inVars /\ dele' = dele /\ at'[m] = 1 /\ pc'[m] # "dele"
    BY <1>5 DEF TossStart, Goto, LoopTo, popVars
  <2>2. \A j \in DOMAIN inq : ~(j < 1)
    OBVIOUS
  <2>3. InInv(m)'
    BY <2>1, <2>2 DEF InInv, inVars
  <2>4. InMailKept'
    BY <2>1 DEF InMailKept, inVars
  <2> QED BY <2>1, <2>3, <2>4 DEF inVars
<1>6. CASE TossNext(m)
  <2>1. at[m] \in DOMAIN inq /\ inq[at[m]] \in 1 .. NIn
    <3>1. at[m] \in 1 .. Len(inq)
      BY <1>6 DEF InInv, TossNext
    <3> QED BY <3>1, InboxLemma
  <2>2. /\ tossed'[inq[at[m]]] > 0 \/ inq[at[m]] \in failed'
        /\ \A i \in 1 .. NIn : tossed[i] > 0 => tossed'[i] > 0
        /\ failed \subseteq failed' /\ crossed' = crossed
    <3>1. \/ tossed' = [tossed EXCEPT ![inq[at[m]]] = @ + 1] /\ failed' = failed
          \/ tossed' = tossed /\ failed' = failed \union {inq[at[m]]}
      BY <1>6 DEF TossNext
    <3>2. crossed' = crossed
      BY <1>6 DEF TossNext
    <3>3. tossed \in [1 .. NIn -> Nat]
      OBVIOUS
    <3>4. PICK k \in 1 .. NIn : k = inq[at[m]]
      BY <2>1
    <3>5. \A i \in 1 .. NIn : tossed[i] \in Nat
      BY <3>3
    <3>6. CASE tossed' = [tossed EXCEPT ![k] = @ + 1]
      <4>1. \A i \in 1 .. NIn : tossed'[i] = IF i = k THEN tossed[k] + 1 ELSE tossed[i]
        BY <3>3, <3>6
      <4>2. tossed'[k] > 0 /\ \A i \in 1 .. NIn : tossed[i] > 0 => tossed'[i] > 0
        BY ONLY <3>5, <4>1
      <4> QED BY <3>1, <3>2, <3>4, <4>2
    <3>7. CASE tossed' = tossed /\ failed' = failed \union {k}
      BY <3>2, <3>4, <3>7
    <3> QED BY <3>1, <3>4, <3>6, <3>7
  <2>3. /\ inq' = inq /\ server' = server /\ arrived' = arrived /\ dele' = dele
        /\ at'[m] = at[m] + 1 /\ pc'[m] = "append" /\ pc[m] = "append"
    BY <1>6 DEF TossNext, Onward, Goto, LoopTo, popVars
  <2>4. \A j \in DOMAIN inq : inq[j] \in 1 .. NIn
    BY InboxLemma
  <2>5. \A j \in DOMAIN inq : j < at'[m] => tossed'[inq[j]] > 0 \/ inq[j] \in failed'
    <3> SUFFICES ASSUME NEW j \in DOMAIN inq, j < at[m] + 1
                 PROVE  tossed'[inq[j]] > 0 \/ inq[j] \in failed'
      BY <2>3
    <3>1. CASE j = at[m]
      BY <3>1, <2>2
    <3>2. CASE j < at[m]
      BY <3>2, <2>2, <2>3, <2>4 DEF InInv
    <3> QED BY <3>1, <3>2
  <2>6. InMailKept'
    BY <2>2, <2>3 DEF InMailKept
  <2>7. \A i \in 1 .. NIn : InSafe(i) => InSafe(i)'
    BY <2>2, <2>3
  <2>8. at'[m] >= 1 /\ dele[m] \subseteq 1 .. NIn
    BY <2>3 DEF InInv
  <2>9. InInv(m)'
    <3> HIDE DEF InSafe
    <3> QED BY <2>3, <2>5, <2>7, <2>8 DEF InInv
  <2> QED BY <2>6, <2>7, <2>9
<1>7. CASE TossEnd(m)
  <2>1. /\ tossed' = tossed /\ server' = server /\ arrived' = arrived /\ dele' = dele
        /\ pc'[m] = "finish" /\ failed' = failed /\ crossed' = crossed
    BY <1>7 DEF TossEnd, To, Goto, jobVars, popVars
  <2>2. \A j \in DOMAIN inq : tossed[inq[j]] > 0 \/ inq[j] \in failed
    BY <1>7 DEF TossEnd, InInv
  <2>3. \A i \in 1 .. NIn : InSafe(i) => InSafe(i)'
    BY <2>1, <2>2
  <2>4. InMailKept'
    BY <2>1, <2>2 DEF InMailKept
  <2>5. InInv(m)'
    <3>1. dele[m] \subseteq 1 .. NIn
      OBVIOUS
    <3> HIDE DEF InSafe
    <3> QED BY <2>1, <2>3, <3>1 DEF InInv
  <2> QED BY <2>3, <2>4, <2>5
<1>8. CASE Finish(m)
  <2>1. UNCHANGED inVars /\ dele'[m] = {} /\ pc'[m] = "idle"
    BY <1>8 DEF Finish, Gone, Goto
  <2> QED BY <2>1 DEF InInv, InMailKept, inVars
<1> QED BY <1>1, <1>2, <1>3, <1>4, <1>5, <1>6, <1>7, <1>8, <1>9, InQuietSteps

-----------------------------------------------------------------------------
\* The outbound mail.

\* Nothing is missing in the queue itself, nor after two steps.
LEMMA CoversLemma ==
  /\ \A q : Covers(q, q, Len(q))
  /\ \A q, o \in Seq(Article) : Covers(q, o, 0)
BY DEF Covers, Has

LEMMA CoversBoth ==
  ASSUME NEW p, NEW q \in Seq(Article), NEW o,
         Covers(p, q, Len(q)), Covers(q, o, Len(o))
  PROVE  Covers(p, o, Len(o))
BY DEF Covers, Has

\* OutDone after a step.
DoneNow(i) == delivered'[i] > 0 \/ i \in dropped'

\* A message that needs no queue any more never needs one again.
LEMMA OutGrows ==
  ASSUME AllTypes, NEW m \in Mailers, OutInv(m), MailerStep(m)
  PROVE  /\ \A i \in 1 .. NOut : delivered[i] > 0 => delivered'[i] > 0
         /\ dropped \subseteq dropped'
         /\ \A i \in 1 .. NOut : OutDone(i) => DoneNow(i)
<1> SUFFICES /\ \A i \in 1 .. NOut : delivered[i] > 0 => delivered'[i] > 0
             /\ dropped \subseteq dropped'
  BY DEF OutDone, DoneNow
<1> USE DEF AllTypes, OwnTypes, OutTypes, outVars
<1>1. CASE OutQuiet(m) BY <1>1 DEF OutQuiet
<1>2. CASE ScanNext(m) BY <1>2 DEF ScanNext
<1>3. CASE MarkSent(m) BY <1>3 DEF MarkSent
<1>4. CASE SmtpConnect(m) BY <1>4 DEF SmtpConnect
<1>5. CASE Accepted(m)
  <2>1. Current(m).msg \in 1 .. NOut
    BY <1>5, ArticleLemma DEF Articles, Current, OutInv, Accepted
  <2> QED BY <1>5, <2>1 DEF Taken, Accepted
<1>6. CASE Refused(m) BY <1>6 DEF Refused
<1>7. CASE ConnectionLost(m) BY <1>7 DEF ConnectionLost
<1>8. CASE ReplyLost(m)
  <2>1. Current(m).msg \in 1 .. NOut
    BY <1>8, ArticleLemma DEF Articles, Current, OutInv, ReplyLost
  <2> QED BY <1>8, <2>1 DEF Taken, ReplyLost
<1>9. CASE SendDone(m) BY <1>9 DEF SendDone
<1>10. CASE WriteTmp(m) BY <1>10 DEF WriteTmp
<1>11. CASE WriteTmpFails(m) BY <1>11 DEF WriteTmpFails
<1>12. CASE RemoveOut(m) BY <1>12 DEF RemoveOut
<1>13. CASE RenameTmp(m) BY <1>13 DEF RenameTmp
<1>14. CASE PurgeStart(m) BY <1>14 DEF PurgeStart
<1>15. CASE PurgeDrops(m) BY <1>15 DEF PurgeDrops
<1>16. CASE PurgeKeeps(m) BY <1>16 DEF PurgeKeeps
<1>17. CASE PurgeWrites(m) BY <1>17 DEF PurgeWrites
<1>18. CASE Finish(m) BY <1>18 DEF Finish
<1> QED BY <1>1, <1>2, <1>3, <1>4, <1>5, <1>6, <1>7, <1>8, <1>9, <1>10, <1>11,
           <1>12, <1>13, <1>14, <1>15, <1>16, <1>17, <1>18, OutQuietSteps

\* Truthful, Covers and OutMailKept after a step, the last for one mailer.
TruthfulNow(q) == \A k \in DOMAIN q : q[k].tossed => delivered'[q[k].msg] > 0
CoversNow(q, other, n) == \A k \in DOMAIN other :
  k <= n => DoneNow(other[k].msg) \/ Has(q, other[k].msg)

OutKept(m) == "rename" \in CrashAt \/ \A i \in 1 .. area :
  i \notin sent \/ Has(outq, i) \/ (pc[m] = "rename" /\ Has(tmp, i)) \/ OutDone(i)

TruthNow(m) ==
  TruthfulNow(outq') /\ TruthfulNow(tmp') /\ TruthfulNow(arts'[m]) /\ TruthfulNow(keep'[m])

CoverNow(m) ==
  /\ pc'[m] \in {"article", "write", "purge"} => CoversNow(arts'[m], outq', Len(outq'))
  /\ pc'[m] \in {"article", "purge"} => at'[m] >= 1
  /\ pc'[m] = "purge" => CoversNow(keep'[m], arts'[m], at'[m] - 1)
  /\ pc'[m] \in {"remove", "rename"} => CoversNow(tmp', outq', Len(outq'))

KeptNow(m) == "rename" \in CrashAt \/ \A i \in 1 .. area' :
  i \notin sent' \/ Has(outq', i) \/ (pc'[m] = "rename" /\ Has(tmp', i)) \/ DoneNow(i)

\* What was true of a queue stays true of it.
LEMMA StaysTrue ==
  ASSUME AllTypes, NEW m \in Mailers, OutInv(m), MailerStep(m)
  PROVE  /\ \A q \in Seq(Article) : Truthful(q) => TruthfulNow(q)
         /\ \A q, o \in Seq(Article), n \in Nat : Covers(q, o, n) => CoversNow(q, o, n)
<1>1. /\ \A i \in 1 .. NOut : delivered[i] > 0 => delivered'[i] > 0
      /\ dropped \subseteq dropped'
      /\ \A i \in 1 .. NOut : OutDone(i) => DoneNow(i)
  BY OutGrows
<1>2. \A q \in Seq(Article) : \A k \in DOMAIN q : q[k].msg \in 1 .. NOut
  BY ArticleLemma
<1>3. \A q \in Seq(Article) : Truthful(q) => TruthfulNow(q)
  BY <1>1, <1>2 DEF Truthful, TruthfulNow
<1>4. \A q, o \in Seq(Article), n \in Nat : Covers(q, o, n) => CoversNow(q, o, n)
  BY <1>1, <1>2 DEF Covers, CoversNow
<1> QED BY <1>3, <1>4

\* A queue with one more article, or with another result for one.
LEMMA LongerQueue ==
  ASSUME NEW q \in Seq(Article), NEW a \in Article
  PROVE  /\ TruthfulNow(q) /\ (a.tossed => delivered'[a.msg] > 0) => TruthfulNow(Append(q, a))
         /\ \A i : Has(q, i) => Has(Append(q, a), i)
         /\ Has(Append(q, a), a.msg)
<1> DEFINE r == Append(q, a)
<1>1. /\ DOMAIN q = 1 .. Len(q) /\ DOMAIN r = 1 .. Len(q) + 1
      /\ \A k \in DOMAIN q : r[k] = q[k]
      /\ r[Len(q) + 1] = a /\ Len(q) \in Nat
  BY AppendProperties
<1>2. \A k \in DOMAIN r : k \in DOMAIN q \/ k = Len(q) + 1
  BY <1>1
<1>3. Len(q) + 1 \in DOMAIN r /\ \A k \in DOMAIN q : k \in DOMAIN r
  BY <1>1
<1> HIDE DEF r
<1>4. TruthfulNow(q) /\ (a.tossed => delivered'[a.msg] > 0) => TruthfulNow(r)
  BY <1>1, <1>2 DEF TruthfulNow
<1>5. (\A i : Has(q, i) => Has(r, i)) /\ Has(r, a.msg)
  BY <1>1, <1>3 DEF Has
<1> QED BY <1>4, <1>5 DEF r

LEMMA ChangedQueue ==
  ASSUME NEW q \in Seq(Article), NEW k \in DOMAIN q, NEW a \in Article,
         TruthfulNow(q), a.tossed => delivered'[a.msg] > 0, a.msg = q[k].msg
  PROVE  /\ TruthfulNow([q EXCEPT ![k] = a])
         /\ \A i : Has(q, i) => Has([q EXCEPT ![k] = a], i)
BY DEF TruthfulNow, Has

\* Steps that change neither a queue nor what the mailer has read of it.
LEMMA OutQuietStep ==
  ASSUME AllTypes, NEW m \in Mailers, OutInv(m), OutKept(m),
         Truthful(outq), Truthful(tmp), MailerStep(m), OutQuiet(m)
  PROVE  TruthNow(m) /\ CoverNow(m) /\ KeptNow(m)
<1> USE StaysTrue, OutGrows DEF AllTypes, OwnTypes, OutTypes, outVars, OutQuiet, OutInv
<1>1. TruthNow(m)
  BY DEF TruthNow
<1>2. CoverNow(m)
  BY DEF CoverNow
<1>3. KeptNow(m)
  BY DEF KeptNow, OutKept, OutDone, DoneNow
<1> QED BY <1>1, <1>2, <1>3

\* The scan puts messages into the queue before it marks them.
LEMMA OutScanStep ==
  ASSUME AllTypes, NEW m \in Mailers, ScanInv(m), OutInv(m), OutKept(m),
         Truthful(outq), Truthful(tmp), MailerStep(m), ScanNext(m) \/ MarkSent(m)
  PROVE  TruthNow(m) /\ CoverNow(m) /\ KeptNow(m)
<1> USE StaysTrue DEF AllTypes, OwnTypes, OutTypes
<1>1. /\ pc[m] # "rename" /\ pc'[m] \in {"scan", "mark", "stat"}
      /\ UNCHANGED <<area, tmp, delivered, dropped, arts, keep>>
  BY DEF ScanNext, MarkSent, To, Onward, Goto, jobVars, smtpVars
<1>2. CASE outq' = outq
  <2>1. TruthNow(m)
    BY <1>1, <1>2 DEF TruthNow, OutInv
  <2>2. CoverNow(m)
    BY <1>1 DEF CoverNow
  <2>3. \A i \in sent' : i \in sent \/ Has(outq, i)
    BY DEF ScanNext, MarkSent, ScanInv
  <2>4. KeptNow(m)
    BY <1>1, <1>2, <2>3 DEF KeptNow, OutKept, OutDone, DoneNow
  <2> QED BY <2>1, <2>2, <2>4
<1>3. CASE ScanNext(m) /\ at[m] <= high[m] /\ at[m] \notin sent
  <2> DEFINE a == [msg |-> at[m], tries |-> 0, tossed |-> FALSE]
  <2>1. a \in Article /\ ~a.tossed
    BY MailAssumption, <1>3 DEF ScanInv, ScanNext, Article, MailAssumption
  <2>2. outq' = Append(outq, a) /\ sent' = sent /\ pc'[m] = "mark"
    BY <1>3 DEF ScanNext, To, Goto
  <2> HIDE DEF a
  <2>3. TruthfulNow(outq') /\ \A i : Has(outq, i) => Has(outq', i)
    BY <2>1, <2>2, LongerQueue
  <2>4. TruthNow(m)
    BY <1>1, <2>3 DEF TruthNow, OutInv
  <2>5. CoverNow(m)
    BY <2>2 DEF CoverNow
  <2>6. KeptNow(m)
    BY <1>1, <2>2, <2>3 DEF KeptNow, OutKept, OutDone, DoneNow
  <2> QED BY <2>4, <2>5, <2>6
<1> QED BY <1>2, <1>3 DEF ScanNext, MarkSent

\* The four ends of an article: the list in memory still stands for the queue.
LEMMA OutResultStep ==
  ASSUME AllTypes, NEW m \in Mailers, OutInv(m), OutKept(m),
         Truthful(outq), Truthful(tmp), MailerStep(m),
         Accepted(m) \/ Refused(m) \/ ConnectionLost(m) \/ ReplyLost(m)
  PROVE  TruthNow(m) /\ CoverNow(m) /\ KeptNow(m)
<1> USE StaysTrue, OutGrows DEF AllTypes, OwnTypes, OutTypes
<1>1. /\ pc[m] = "article" /\ pc' = pc /\ at'[m] = at[m] + 1 /\ keep' = keep
      /\ UNCHANGED <<area, sent, outq, tmp>>
  BY DEF Articles, Accepted, Refused, ConnectionLost, ReplyLost, Failed, Result, LoopTo, outVars
<1>2. at[m] \in DOMAIN arts[m] /\ Current(m) \in Article /\ Current(m) = arts[m][at[m]]
  <2>1. at[m] >= 1 /\ at[m] <= Len(arts[m])
    BY <1>1 DEF Articles, Accepted, Refused, ConnectionLost, ReplyLost, OutInv
  <2>2. at[m] \in DOMAIN arts[m]
    BY <2>1
  <2> QED BY <2>2, ArticleLemma DEF Current
<1>3. PICK a \in Article :
        /\ arts'[m] = [arts[m] EXCEPT ![at[m]] = a]
        /\ a.msg = Current(m).msg
        /\ a.tossed => delivered'[a.msg] > 0
  <2>1. CASE Accepted(m)
    <3> DEFINE a == [msg |-> Current(m).msg, tries |-> Current(m).tries, tossed |-> TRUE]
    <3>1. a \in Article
      BY <1>2, ArticleLemma
    <3>2. arts'[m] = [arts[m] EXCEPT ![at[m]] = a]
      BY <2>1 DEF Accepted, Result
    <3>3. delivered'[a.msg] > 0
      <4>1. Current(m).msg \in 1 .. NOut
        BY <1>2, ArticleLemma
      <4>2. delivered' = [delivered EXCEPT ![Current(m).msg] = @ + 1]
        BY <2>1 DEF Accepted, Taken
      <4> QED BY <4>1, <4>2
    <3> QED BY <3>1, <3>2, <3>3
  <2>2. CASE Refused(m) \/ ConnectionLost(m) \/ ReplyLost(m)
    <3> DEFINE a == [msg |-> Current(m).msg, tries |-> Current(m).tries + 1,
                     tossed |-> Current(m).tossed]
    <3>1. a \in Article
      <4>1. /\ Current(m).msg \in 1 .. NOut /\ Current(m).tries + 1 \in Nat
            /\ Current(m).tossed \in BOOLEAN
        BY <1>2, ArticleLemma
      <4> QED BY <4>1 DEF Article
    <3>2. arts'[m] = [arts[m] EXCEPT ![at[m]] = a]
      BY <2>2 DEF Refused, ConnectionLost, ReplyLost, Failed, Result
    <3>3. a.tossed => delivered'[a.msg] > 0
      BY <1>2 DEF OutInv, TruthfulNow
    <3> QED BY <3>1, <3>2, <3>3
  <2> QED BY <2>1, <2>2
<1>4. TruthfulNow(arts'[m]) /\ \A i : Has(arts[m], i) => Has(arts'[m], i)
  <2>1. TruthfulNow(arts[m])
    BY DEF OutInv
  <2>2. arts[m] \in Seq(Article)
    OBVIOUS
  <2>3. /\ TruthfulNow([arts[m] EXCEPT ![at[m]] = a])
        /\ \A i : Has(arts[m], i) => Has([arts[m] EXCEPT ![at[m]] = a], i)
    BY ONLY <1>2, <1>3, <2>1, <2>2, ChangedQueue
  <2> QED BY <1>3, <2>3
<1>5. TruthNow(m)
  BY <1>1, <1>4 DEF TruthNow, OutInv
<1>6. CoverNow(m)
  <2>1. CoversNow(arts[m], outq, Len(outq))
    <3>1. Covers(arts[m], outq, Len(outq)) /\ Len(outq) \in Nat
      BY <1>1 DEF OutInv
    <3> QED BY <3>1
  <2>2. CoversNow(arts'[m], outq, Len(outq))
    BY <1>4, <2>1 DEF CoversNow
  <2> QED BY <1>1, <2>2 DEF CoverNow, OutInv
<1>7. KeptNow(m)
  <2>1. \A i \in 1 .. area : OutDone(i) => DoneNow(i)
    <3>1. \A i \in 1 .. area : i \in 1 .. NOut
      BY MailAssumption DEF MailAssumption
    <3> QED BY <3>1
  <2> QED BY <1>1, <2>1 DEF KeptNow, OutKept
<1> QED BY <1>5, <1>6, <1>7

\* Reading the queue, and the end of sending.
LEMMA OutReadStep ==
  ASSUME AllTypes, NEW m \in Mailers, OutInv(m), OutKept(m),
         Truthful(outq), Truthful(tmp), MailerStep(m),
         SmtpConnect(m) \/ SendDone(m) \/ PurgeStart(m) \/ PurgeWrites(m) \/ Finish(m)
  PROVE  TruthNow(m) /\ CoverNow(m) /\ KeptNow(m)
<1> USE StaysTrue DEF AllTypes, OwnTypes, OutTypes
<1>1. UNCHANGED outVars /\ pc[m] # "rename"
  BY DEF SmtpConnect, SendDone, PurgeStart, PurgeWrites, Finish
<1>2. KeptNow(m)
  BY <1>1 DEF KeptNow, OutKept, outVars, OutDone, DoneNow
<1>3. CASE SmtpConnect(m) \/ PurgeStart(m)
  <2>1. /\ arts'[m] = outq /\ keep' = keep /\ at'[m] = 1
        /\ pc'[m] \in {"article", "purge"}
    BY <1>3 DEF SmtpConnect, PurgeStart, Goto, LoopTo
  <2>2. CoversNow(outq, outq, Len(outq)) /\ CoversNow(keep[m], outq, 0)
    <3>1. Covers(outq, outq, Len(outq)) /\ Len(outq) \in Nat
      BY CoversLemma
    <3>2. Covers(keep[m], outq, 0)
      BY CoversLemma
    <3> QED BY <3>1, <3>2
  <2>3. TruthNow(m)
    BY <1>1, <2>1 DEF TruthNow, OutInv, outVars
  <2> QED BY <1>1, <1>2, <2>1, <2>2, <2>3 DEF CoverNow, outVars
<1>4. CASE SendDone(m)
  <2>1. /\ pc[m] = "article" /\ pc'[m] = "write" /\ arts' = arts /\ keep' = keep
    BY <1>4 DEF SendDone, To, Goto, jobVars, smtpVars
  <2>2. CoversNow(arts[m], outq, Len(outq))
    <3>1. Covers(arts[m], outq, Len(outq)) /\ Len(outq) \in Nat
      BY <2>1 DEF OutInv
    <3> QED BY <3>1
  <2>3. TruthNow(m)
    BY <1>1, <2>1 DEF TruthNow, OutInv, outVars
  <2> QED BY <1>1, <1>2, <2>1, <2>2, <2>3 DEF CoverNow, outVars
<1>5. CASE PurgeWrites(m)
  <2>1. /\ pc[m] = "purge" /\ at[m] > Len(arts[m])
        /\ pc'[m] = "write" /\ arts'[m] = keep[m] /\ keep' = keep
    BY <1>5 DEF PurgeWrites, Goto
  <2>2. Covers(keep[m], arts[m], Len(arts[m]))
    <3>1. Covers(keep[m], arts[m], at[m] - 1)
      BY <2>1 DEF OutInv
    <3>2. \A k \in DOMAIN arts[m] : k <= at[m] - 1
      BY <2>1
    <3> QED BY <3>1, <3>2 DEF Covers
  <2>3. Covers(keep[m], outq, Len(outq)) /\ Len(outq) \in Nat
    <3>1. Covers(arts[m], outq, Len(outq)) /\ arts[m] \in Seq(Article)
      BY <2>1 DEF OutInv
    <3> QED BY ONLY <2>2, <3>1, CoversBoth, outq \in Seq(Article)
  <2>4. CoversNow(keep[m], outq, Len(outq))
    BY <2>3
  <2>5. TruthNow(m)
    BY <1>1, <2>1 DEF TruthNow, OutInv, outVars
  <2> QED BY <1>1, <1>2, <2>1, <2>4, <2>5 DEF CoverNow, outVars
<1>6. CASE Finish(m)
  <2>1. pc'[m] = "idle" /\ arts'[m] = <<>> /\ keep'[m] = <<>>
    BY <1>6 DEF Finish, Gone, Goto
  <2>2. TruthNow(m)
    <3>1. TruthfulNow(<<>>)
      BY DEF TruthfulNow
    <3>2. TruthfulNow(outq) /\ TruthfulNow(tmp)
      OBVIOUS
    <3> QED BY <1>1, <2>1, <3>1, <3>2 DEF TruthNow, outVars
  <2> QED BY <1>2, <2>1, <2>2 DEF CoverNow
<1> QED BY <1>3, <1>4, <1>5, <1>6

\* Putting the articles back: at every moment a file stands for all of them.
LEMMA OutWriteStep ==
  ASSUME AllTypes, NEW m \in Mailers, OutInv(m), OutKept(m),
         Truthful(outq), Truthful(tmp), MailerStep(m),
         WriteTmp(m) \/ WriteTmpFails(m) \/ RemoveOut(m) \/ RenameTmp(m)
  PROVE  TruthNow(m) /\ CoverNow(m) /\ KeptNow(m)
<1> USE StaysTrue DEF AllTypes, OwnTypes, OutTypes
<1>1. /\ UNCHANGED <<area, sent, delivered, dropped, arts, keep>>
      /\ pc[m] \in {"write", "remove", "rename"} /\ Len(outq) \in Nat
  BY DEF WriteTmp, WriteTmpFails, RemoveOut, RenameTmp, To, jobVars, smtpVars
<1>2. TruthfulNow(<<>>)
  BY DEF TruthfulNow
<1>3. TruthNow(m)
  <2>1. TruthfulNow(arts[m]) /\ TruthfulNow(keep[m]) /\ TruthfulNow(outq) /\ TruthfulNow(tmp)
    BY DEF OutInv
  <2>2. tmp' \in {arts[m], <<>>, tmp} /\ outq' \in {outq, <<>>, tmp}
    BY DEF WriteTmp, WriteTmpFails, RemoveOut, RenameTmp
  <2> QED BY <1>1, <1>2, <2>1, <2>2 DEF TruthNow
<1>4. \A q : Covers(q, outq, Len(outq)) =>
        \A i \in 1 .. area : Has(outq, i) => OutDone(i) \/ Has(q, i)
  <2>1. \A k \in DOMAIN outq : k <= Len(outq)
    OBVIOUS
  <2> QED BY <2>1 DEF Covers, Has
<1>5. \A i : ~Has(<<>>, i)
  BY DEF Has
<1>6. \A i : DoneNow(i) <=> OutDone(i)
  BY <1>1 DEF OutDone, DoneNow
<1>7. CASE WriteTmp(m) /\ arts[m] # <<>>
  <2>1. /\ pc[m] = "write" /\ pc'[m] = "remove" /\ tmp' = arts[m] /\ outq' = outq
    BY <1>7 DEF WriteTmp, To, Goto
  <2>2. CoversNow(arts[m], outq, Len(outq))
    <3>1. Covers(arts[m], outq, Len(outq))
      BY <2>1 DEF OutInv
    <3> QED BY <1>1, <3>1
  <2>3. CoverNow(m)
    BY <2>1, <2>2 DEF CoverNow
  <2>4. KeptNow(m)
    BY <1>1, <1>6, <2>1 DEF KeptNow, OutKept
  <2> QED BY <1>3, <2>3, <2>4
<1>8. CASE WriteTmp(m) /\ arts[m] = <<>>
  <2>1. /\ pc[m] = "write" /\ pc'[m] \in {"toss", "read"} /\ outq' = <<>>
    BY <1>8 DEF WriteTmp, AfterWrite, To, Goto
  <2>2. Covers(arts[m], outq, Len(outq))
    BY <2>1 DEF OutInv
  <2>3. KeptNow(m)
    BY <1>1, <1>4, <1>5, <1>6, <1>8, <2>1, <2>2 DEF KeptNow, OutKept
  <2> QED BY <1>3, <2>1, <2>3 DEF CoverNow
<1>9. CASE WriteTmpFails(m)
  <2>1. pc[m] = "write" /\ pc'[m] = "finish" /\ outq' = outq
    BY <1>9 DEF WriteTmpFails, To, Goto
  <2>2. KeptNow(m)
    BY <1>1, <1>6, <2>1 DEF KeptNow, OutKept
  <2> QED BY <1>3, <2>1, <2>2 DEF CoverNow
<1>10. CASE RemoveOut(m)
  <2>1. pc[m] = "remove" /\ pc'[m] = "rename" /\ outq' = <<>> /\ tmp' = tmp
    BY <1>10 DEF RemoveOut, To, Goto
  <2>2. Covers(tmp, outq, Len(outq))
    BY <2>1 DEF OutInv
  <2>3. KeptNow(m)
    BY <1>1, <1>4, <1>6, <2>1, <2>2 DEF KeptNow, OutKept
  <2>4. CoverNow(m)
    BY <2>1 DEF CoverNow, CoversNow
  <2> QED BY <1>3, <2>3, <2>4
<1>11. CASE RenameTmp(m)
  <2>1. pc[m] = "rename" /\ pc'[m] \in {"toss", "read"} /\ outq' = tmp
    BY <1>11 DEF RenameTmp, AfterWrite, To, Goto
  <2>2. Covers(tmp, outq, Len(outq))
    BY <2>1 DEF OutInv
  <2>3. KeptNow(m)
    BY <1>1, <1>4, <1>6, <2>1, <2>2 DEF KeptNow, OutKept
  <2> QED BY <1>3, <2>1, <2>3 DEF CoverNow
<1> QED BY <1>7, <1>8, <1>9, <1>10, <1>11

\* The purge drops what needs no queue any more, and keeps the rest.
LEMMA OutPurgeStep ==
  ASSUME AllTypes, NEW m \in Mailers, OutInv(m), OutKept(m),
         Truthful(outq), Truthful(tmp), MailerStep(m), PurgeDrops(m) \/ PurgeKeeps(m)
  PROVE  TruthNow(m) /\ CoverNow(m) /\ KeptNow(m)
<1> USE StaysTrue DEF AllTypes, OwnTypes, OutTypes
<1>1. /\ pc[m] = "purge" /\ pc'[m] = "purge" /\ at'[m] = at[m] + 1 /\ arts' = arts
      /\ UNCHANGED <<area, sent, outq, tmp, delivered>>
  BY DEF Purging, PurgeDrops, PurgeKeeps, Onward, Goto, LoopTo, smtpVars, outVars
<1>2. at[m] \in DOMAIN arts[m] /\ Current(m) \in Article /\ Current(m) = arts[m][at[m]]
  <2>1. at[m] >= 1 /\ at[m] <= Len(arts[m])
    BY <1>1 DEF Purging, PurgeDrops, PurgeKeeps, OutInv
  <2>2. at[m] \in DOMAIN arts[m]
    BY <2>1
  <2> QED BY <2>2, ArticleLemma DEF Current
<1>3. CoversNow(arts[m], outq, Len(outq)) /\ CoversNow(keep[m], arts[m], at[m] - 1)
  <2>1. Covers(arts[m], outq, Len(outq)) /\ Covers(keep[m], arts[m], at[m] - 1)
    BY <1>1 DEF OutInv
  <2>2. Len(outq) \in Nat /\ at[m] - 1 \in Nat
    BY <1>2
  <2> QED BY <2>1, <2>2
<1>4. \A i : OutDone(i) => DoneNow(i)
  <2>1. dropped \subseteq dropped'
    BY DEF PurgeDrops, PurgeKeeps, outVars
  <2> QED BY <1>1, <2>1 DEF OutDone, DoneNow
<1>5. KeptNow(m)
  BY <1>1, <1>4 DEF KeptNow, OutKept
<1>6. /\ TruthfulNow(keep'[m]) /\ \A i : Has(keep[m], i) => Has(keep'[m], i)
      /\ DoneNow(Current(m).msg) \/ Has(keep'[m], Current(m).msg)
  <2>1. TruthfulNow(keep[m]) /\ keep[m] \in Seq(Article)
    BY DEF OutInv
  <2>2. CASE PurgeDrops(m)
    <3>1. Current(m).tossed => delivered[Current(m).msg] > 0
      BY <1>2 DEF OutInv, Truthful
    <3>2. keep' = keep
      BY <2>2 DEF PurgeDrops, Onward, smtpVars
    <3>3. DoneNow(Current(m).msg)
      <4>1. CASE Current(m).tossed
        BY <1>1, <3>1, <4>1 DEF OutDone, DoneNow
      <4>2. CASE Exceeded(Current(m))
        BY <2>2, <4>2 DEF PurgeDrops, OutDone, DoneNow
      <4> QED BY <2>2, <4>1, <4>2 DEF PurgeDrops
    <3> QED BY <2>1, <3>2, <3>3
  <2>3. CASE PurgeKeeps(m)
    <3>1. keep'[m] = Append(keep[m], Current(m)) /\ ~Current(m).tossed
      BY <2>3 DEF PurgeKeeps
    <3> QED BY <1>2, <2>1, <3>1, LongerQueue
  <2> QED BY <2>2, <2>3
<1>7. CoversNow(keep'[m], arts[m], at[m])
  <2>1. \A k \in DOMAIN arts[m] : k <= at[m] => k <= at[m] - 1 \/ k = at[m]
    BY <1>2
  <2> SUFFICES ASSUME NEW k \in DOMAIN arts[m], k <= at[m]
               PROVE  DoneNow(arts[m][k].msg) \/ Has(keep'[m], arts[m][k].msg)
    BY <1>1 DEF CoversNow
  <2>2. CASE k = at[m]
    BY <1>2, <1>6, <2>2
  <2>3. CASE k <= at[m] - 1
    <3>1. DoneNow(arts[m][k].msg) \/ Has(keep[m], arts[m][k].msg)
      BY <1>3, <2>3 DEF CoversNow
    <3> QED BY <1>6, <3>1
  <2> QED BY <2>1, <2>2, <2>3
<1>8. TruthNow(m)
  BY <1>1, <1>6 DEF TruthNow, OutInv
<1>9. CoverNow(m)
  <2>1. at'[m] >= 1 /\ at'[m] - 1 = at[m]
    BY <1>1, <1>2
  <2> QED BY <1>1, <1>3, <1>7, <2>1 DEF CoverNow
<1> QED BY <1>5, <1>8, <1>9

-----------------------------------------------------------------------------
\* A step of the one mailer keeps its own part of the invariant.
LEMMA OutStep ==
  ASSUME AllTypes, NEW m \in Mailers, ScanInv(m), OutInv(m), OutKept(m),
         Truthful(outq), Truthful(tmp), MailerStep(m)
  PROVE  OutInv(m)' /\ OutKept(m)' /\ Truthful(outq)' /\ Truthful(tmp)'
<1>1. TruthNow(m) /\ CoverNow(m) /\ KeptNow(m)
  BY OutQuietSteps, OutQuietStep, OutScanStep, OutResultStep, OutReadStep, OutWriteStep,
     OutPurgeStep DEF AllTypes
<1>2. TruthfulNow(outq') /\ TruthfulNow(tmp') /\ TruthfulNow(arts'[m]) /\ TruthfulNow(keep'[m])
  BY <1>1 DEF TruthNow
<1>3. Truthful(outq)' /\ Truthful(tmp)' /\ Truthful(arts[m])' /\ Truthful(keep[m])'
  BY <1>2 DEF Truthful, TruthfulNow
<1>4. OutKept(m)'
  BY <1>1 DEF KeptNow, OutKept, DoneNow, OutDone
<1>5. OutInv(m)'
  <2>1. (pc[m] \in {"article", "write", "purge"} => Covers(arts[m], outq, Len(outq)))'
    BY <1>1 DEF CoverNow, CoversNow, Covers, DoneNow, OutDone
  <2>2. (pc[m] \in {"article", "purge"} => at[m] >= 1)'
    BY <1>1 DEF CoverNow
  <2>3. (pc[m] = "purge" => Covers(keep[m], arts[m], at[m] - 1))'
    BY <1>1 DEF CoverNow, CoversNow, Covers, DoneNow, OutDone
  <2>4. (pc[m] \in {"remove", "rename"} => Covers(tmp, outq, Len(outq)))'
    BY <1>1 DEF CoverNow, CoversNow, Covers, DoneNow, OutDone
  <2> QED BY <1>3, <2>1, <2>2, <2>3, <2>4 DEF OutInv
<1> QED BY <1>3, <1>4, <1>5

-----------------------------------------------------------------------------
\* The whole invariant: a step of the one mailer, the others having nothing in
\* hand.
LEMMA MailerKeeps ==
  ASSUME IInv, NEW m \in Mailers, MailerStep(m)
  PROVE  IInv'
<1>1. AllTypes /\ ScanInv(m) /\ InInv(m) /\ OutInv(m)
  BY DEF IInv, TypeOK, AllTypes, OwnTypes, OutTypes, InTypes
<1>2. pc[m] # "idle" /\ (Finish(m) \/ (pc'[m] # "idle" /\ lock' = lock))
  BY <1>1, LockSteps DEF AllTypes, Finish
<1>3. lock /\ \A n \in Mailers \ {m} : pc[n] = "idle"
  BY <1>2 DEF IInv, OneMailer
<1>4. AllTypes'
  BY <1>1, TypeStep
<1>5. \A n \in Mailers \ {m} :
        /\ pc'[n] = "idle" /\ dele'[n] = dele[n]
        /\ arts'[n] = arts[n] /\ keep'[n] = keep[n]
  BY <1>1, <1>3, Frame DEF AllTypes
<1>6. OneMailer'
  <2>1. CASE Finish(m)
    <3>1. pc'[m] = "idle"
      BY <1>1, <2>1 DEF Finish, Gone, Goto, AllTypes, OwnTypes
    <3> QED BY <1>5, <3>1 DEF OneMailer
  <2>2. CASE lock' = lock
    BY <1>3, <1>5, <2>2 DEF OneMailer
  <2> QED BY <1>2, <2>1, <2>2
<1>7. OutKept(m)
  BY <1>3, QueuedHas DEF IInv, OutMailKept, OutKept, Renaming, OutDone
<1>8. OutInv(m)' /\ OutKept(m)' /\ Truthful(outq)' /\ Truthful(tmp)'
  BY <1>1, <1>7, OutStep DEF IInv
<1>9. "rename" \in CrashAt \/ OutMailKept'
  BY <1>8, QueuedHas DEF OutMailKept, OutKept, Renaming, OutDone, Queued, Has
<1>10. (\A i \in 1 .. NIn : InSafe(i) => InSafe(i)') /\ InInv(m)' /\ InMailKept'
  BY <1>1, InStep DEF IInv
<1>11. ScanInv(m)'
  BY <1>1, ScanStep
<1>12. ASSUME NEW n \in Mailers \ {m}
       PROVE  ScanInv(n)' /\ InInv(n)' /\ OutInv(n)'
  <2>1. pc'[n] = "idle" /\ dele'[n] = dele[n] /\ arts'[n] = arts[n] /\ keep'[n] = keep[n]
    BY <1>5
  <2>2. ScanInv(n)'
    BY <2>1 DEF ScanInv
  <2>3. InInv(n)'
    <3>1. dele[n] \subseteq 1 .. NIn /\ \A i \in dele[n] : InSafe(i)
      BY <1>1 DEF IInv, InInv, AllTypes, OwnTypes
    <3>2. \A i \in dele[n] : InSafe(i)'
      BY <1>10, <3>1
    <3> QED BY <2>1, <3>2 DEF InInv
  <2>4. OutInv(n)'
    <3>1. Truthful(arts[n]) /\ Truthful(keep[n])
      BY DEF IInv, OutInv
    <3>2. arts[n] \in Seq(Article) /\ keep[n] \in Seq(Article)
      BY <1>1 DEF AllTypes, OwnTypes
    <3>3. TruthfulNow(arts[n]) /\ TruthfulNow(keep[n])
      BY <1>1, <3>1, <3>2, StaysTrue
    <3>4. Truthful(arts[n])' /\ Truthful(keep[n])'
      BY <2>1, <3>3 DEF Truthful, TruthfulNow
    <3> QED BY <2>1, <3>4 DEF OutInv
  <2> QED BY <2>2, <2>3, <2>4
<1>13. TypeOK'
  BY <1>4 DEF TypeOK, AllTypes, OwnTypes, OutTypes, InTypes
<1>14. \A n \in Mailers : (ScanInv(n) /\ InInv(n) /\ OutInv(n))'
  BY <1>8, <1>10, <1>11, <1>12
<1> QED BY <1>6, <1>8, <1>9, <1>10, <1>13, <1>14 DEF IInv

\* A mailer starts with empty hands and the high message number of the area;
\* it dies with empty hands, and the lock stays.
LEMMA StartKeeps ==
  ASSUME IInv, NEW m \in Mailers, Start(m)
  PROVE  IInv'
<1>1. AllTypes
  BY DEF IInv, TypeOK, AllTypes, OwnTypes, OutTypes, InTypes
<1>2. \A n \in Mailers : pc[n] = "idle"
  BY DEF IInv, OneMailer, Start
<1>3. /\ pc'[m] \in {"scan", "stat"} /\ at'[m] = 1 /\ high'[m] = area
      /\ dele' = dele /\ arts' = arts /\ keep' = keep /\ lock' = TRUE
      /\ UNCHANGED <<outVars, inVars, faults>>
  BY <1>1 DEF Start, Goto, LoopTo, popVars, smtpVars, AllTypes, OwnTypes
<1>4. \A n \in Mailers \ {m} : pc'[n] = "idle"
  BY <1>1, <1>2, Frame DEF AllTypes
<1>5. AllTypes'
  <2>1. pc' \in [Mailers -> Steps] /\ at' \in [Mailers -> Nat] /\ high' \in [Mailers -> 0 .. NOut]
    BY <1>1 DEF AllTypes, OwnTypes, OutTypes, Start, Goto, LoopTo, Steps
  <2> QED BY <1>1, <1>3, <2>1 DEF AllTypes, OwnTypes, OutTypes, InTypes, outVars, inVars,
        Start, popVars, smtpVars
<1>6. TypeOK'
  BY <1>5 DEF TypeOK, AllTypes, OwnTypes, OutTypes, InTypes
<1>7. OneMailer'
  BY <1>3, <1>4 DEF OneMailer
<1>8. ("rename" \in CrashAt \/ OutMailKept') /\ InMailKept'
  BY <1>2, <1>3 DEF IInv, OutMailKept, InMailKept, Renaming, outVars, inVars
<1>9. Truthful(outq)' /\ Truthful(tmp)'
  BY <1>3 DEF IInv, Truthful, outVars
<1>10. ASSUME NEW n \in Mailers
       PROVE  ScanInv(n)' /\ InInv(n)' /\ OutInv(n)'
  <2>1. pc'[n] \in {"scan", "stat", "idle"}
        /\ (pc'[n] = "scan" => at'[n] >= 1 /\ high'[n] <= area')
    BY <1>1, <1>3, <1>4 DEF AllTypes, OutTypes, outVars
  <2>2. ScanInv(n)'
    BY <2>1 DEF ScanInv
  <2>3. InInv(n)'
    BY <1>3, <2>1 DEF IInv, InInv, InSafe, inVars
  <2>4. OutInv(n)'
    BY <1>3, <2>1 DEF IInv, OutInv, Truthful, outVars
  <2> QED BY <2>2, <2>3, <2>4
<1> QED BY <1>6, <1>7, <1>8, <1>9, <1>10 DEF IInv

LEMMA CrashKeeps ==
  ASSUME IInv, NEW m \in Mailers, Crash(m)
  PROVE  IInv'
<1>1. AllTypes
  BY DEF IInv, TypeOK, AllTypes, OwnTypes, OutTypes, InTypes
<1>2. /\ pc'[m] = "idle" /\ dele'[m] = {} /\ arts'[m] = <<>> /\ keep'[m] = <<>>
      /\ UNCHANGED <<lock, outVars, inVars>>
  BY <1>1 DEF Crash, Gone, Goto, AllTypes, OwnTypes
<1>3. \A n \in Mailers \ {m} : pc'[n] = pc[n] /\ at'[n] = at[n] /\ high'[n] = high[n]
        /\ dele'[n] = dele[n] /\ arts'[n] = arts[n] /\ keep'[n] = keep[n]
  BY <1>1, Frame DEF AllTypes
<1>4. TypeOK'
  <2>1. OwnTypes' /\ faults' \in 0 .. MaxFaults
    BY <1>1, GoneTypes, FaultType DEF Crash, AllTypes
  <2> QED BY <1>1, <1>2, <2>1 DEF TypeOK, AllTypes, OwnTypes, OutTypes, InTypes, outVars, inVars
<1>5. OneMailer'
  BY <1>2, <1>3 DEF IInv, OneMailer
<1>6. \A n \in Mailers :
        pc[n] = "rename" => "rename" \in CrashAt \/ pc'[n] = "rename"
  BY <1>2, <1>3 DEF Crash
<1>7. ("rename" \in CrashAt \/ OutMailKept') /\ InMailKept'
  BY <1>2, <1>6 DEF IInv, OutMailKept, InMailKept, Renaming, outVars, inVars
<1>8. Truthful(outq)' /\ Truthful(tmp)'
  BY <1>2 DEF IInv, Truthful, outVars
<1>9. ASSUME NEW n \in Mailers \ {m}
      PROVE  ScanInv(n)' /\ InInv(n)' /\ OutInv(n)'
  BY <1>2, <1>3 DEF IInv, ScanInv, InInv, OutInv, Truthful, Covers, Has, OutDone, InSafe,
     outVars, inVars
<1>10. ScanInv(m)' /\ InInv(m)' /\ OutInv(m)'
  BY <1>2 DEF ScanInv, InInv, OutInv, Truthful
<1> QED BY <1>4, <1>5, <1>7, <1>8, <1>9, <1>10 DEF IInv

\* The users, the senders and the operator.
LEMMA WorldKeeps ==
  ASSUME IInv, UserPosts \/ OperatorUnlocks \/ \E i \in 1 .. NIn : MailArrives(i)
  PROVE  IInv'
<1>1. UNCHANGED <<pc, jobVars, sent, outq, tmp, delivered, dropped, inq, tossed, failed,
                  crossed, faults>>
  BY DEF UserPosts, OperatorUnlocks, MailArrives, outVars, inVars
<1>2. area \in 0 .. NOut /\ area' \in {area, area + 1} /\ area' \in 0 .. NOut
  BY MailAssumption DEF MailAssumption, IInv, TypeOK, UserPosts, OperatorUnlocks, MailArrives, outVars
<1>3. /\ server \subseteq server' /\ server' \subseteq arrived' /\ arrived' \subseteq 1 .. NIn
      /\ \A i \in arrived' : i \in arrived \/ i \in server'
  BY DEF IInv, TypeOK, UserPosts, OperatorUnlocks, MailArrives, inVars
<1>4. lock' = lock \/ \A m \in Mailers : pc[m] = "idle"
  BY DEF UserPosts, OperatorUnlocks, MailArrives
<1>5. TypeOK'
  <2>1. lock' \in BOOLEAN
    BY DEF IInv, TypeOK, UserPosts, OperatorUnlocks, MailArrives
  <2>2. sent \subseteq 1 .. area'
    BY <1>2 DEF IInv, TypeOK
  <2> QED BY <1>1, <1>2, <1>3, <2>1, <2>2 DEF IInv, TypeOK, jobVars, runVars, popVars, smtpVars
<1>6. OneMailer'
  BY <1>1, <1>4 DEF IInv, OneMailer
<1>7. "rename" \in CrashAt \/ OutMailKept'
  <2>1. \A i \in 1 .. area' : i \in 1 .. area \/ i \notin sent
    BY <1>2 DEF IInv, TypeOK
  <2> QED BY <1>1, <2>1 DEF IInv, OutMailKept, Renaming
<1>8. InMailKept'
  BY <1>1, <1>3 DEF IInv, InMailKept
<1>9. Truthful(outq)' /\ Truthful(tmp)'
  BY <1>1 DEF IInv, Truthful
<1>10. ASSUME NEW m \in Mailers
       PROVE  ScanInv(m)' /\ InInv(m)' /\ OutInv(m)'
  <2>1. ScanInv(m)'
    <3>1. high[m] <= area => high[m] <= area'
      BY <1>2 DEF IInv, TypeOK
    <3> QED BY <1>1, <3>1 DEF IInv, ScanInv, Has, jobVars, runVars
  <2>2. InInv(m)'
    BY <1>1 DEF IInv, InInv, InSafe, jobVars, popVars
  <2>3. OutInv(m)'
    BY <1>1 DEF IInv, OutInv, Truthful, Covers, Has, OutDone, jobVars, smtpVars
  <2> QED BY <2>1, <2>2, <2>3
<1> QED BY <1>5, <1>6, <1>7, <1>8, <1>9, <1>10 DEF IInv

LEMMA InitIInv == Init => IInv
<1> SUFFICES ASSUME Init PROVE IInv
  OBVIOUS
<1> USE DEF Init
<1>1. TypeOK
  <2>1. OwnTypes
    BY MailAssumption, ArticleLemma, MailQueueLemma DEF MailAssumption, OwnTypes, Steps
  <2>2. OutTypes
    BY MailAssumption, ArticleLemma DEF MailAssumption, OutTypes
  <2>3. InTypes
    <3>1. inq \in Seq(1 .. NIn)
      BY MailQueueLemma
    <3> QED BY <3>1, MailAssumption DEF MailAssumption, InTypes
  <2>4. faults \in 0 .. MaxFaults
    BY MailAssumption DEF MailAssumption
  <2> QED BY <2>1, <2>2, <2>3, <2>4 DEF TypeOK, OwnTypes, OutTypes, InTypes
<1>2. OneMailer /\ OutMailKept /\ InMailKept
  BY DEF OneMailer, OutMailKept, InMailKept
<1>3. Truthful(<<>>)
  BY DEF Truthful
<1>4. \A m \in Mailers : ScanInv(m) /\ InInv(m) /\ OutInv(m)
  BY <1>3 DEF ScanInv, InInv, OutInv
<1> QED BY <1>1, <1>2, <1>3, <1>4 DEF IInv

-----------------------------------------------------------------------------
\* IInv holds wherever the mailers may die.
THEOREM Inductive == Spec => []IInv
<1>1. Init => IInv
  BY InitIInv
<1>2. IInv /\ [Next]_vars => IInv'
  <2> SUFFICES ASSUME IInv, [Next]_vars PROVE IInv'
    OBVIOUS
  <2>1. CASE \E m \in Mailers : Start(m) \/ MailerStep(m) \/ Crash(m)
    BY <2>1, StartKeeps, MailerKeeps, CrashKeeps
  <2>2. CASE UserPosts \/ OperatorUnlocks \/ \E i \in 1 .. NIn : MailArrives(i)
    BY <2>2, WorldKeeps
  <2>3. CASE UNCHANGED vars
    <3> USE <2>3 DEF vars, jobVars, runVars, popVars, smtpVars, outVars, inVars, IInv
    <3>1. TypeOK' /\ OneMailer'
      BY DEF TypeOK, OneMailer
    <3>2. InMailKept' /\ ("rename" \in CrashAt \/ OutMailKept')
      BY DEF InMailKept, OutMailKept, Renaming, Queued
    <3>3. Truthful(outq)' /\ Truthful(tmp)'
      BY DEF Truthful
    <3>4. \A m \in Mailers : ScanInv(m)' /\ InInv(m)'
      BY DEF ScanInv, InInv, Has, InSafe
    <3>5. \A m \in Mailers : OutInv(m)'
      BY DEF OutInv, Truthful, Covers, Has, OutDone
    <3> QED BY <3>1, <3>2, <3>3, <3>4, <3>5
  <2> QED BY <2>1, <2>2, <2>3 DEF Next
<1> QED BY <1>1, <1>2, PTL DEF Spec

\* The variables keep their types, whatever the mailers and servers do.
THEOREM TypeInvariant == Spec => []TypeOK
<1>1. IInv => TypeOK
  BY DEF IInv
<1> QED BY <1>1, Inductive, PTL

\* The lock file lets one mailer work at a time (RunMailer), also after a crash.
THEOREM LockExcludes == Spec => []OneMailer
<1>1. IInv => OneMailer
  BY DEF IInv
<1> QED BY <1>1, Inductive, PTL

\* Inbound mail is on the server, in email_in.ele or in the message base
\* (collectPOP3, ProcessNewArticles), wherever elemail dies and whatever fails
\* on the connection, unless an append or a toss failed for it or the text of
\* other mail was read in its place.
THEOREM InboundIsKept == Spec => []InMailKept
<1>1. IInv => InMailKept
  BY DEF IInv
<1> QED BY <1>1, Inductive, PTL

\* Posted mail is in the area, in emailout.ele, at the SMTP server or out of
\* tries (ScanMsgArea, sendSMTP, PurgeSentBase), if elemail does not die between
\* the Remove and the Rename of rewriteNewsFile.
THEOREM OutboundIsKept ==
  ASSUME "rename" \notin CrashAt
  PROVE  Spec => []OutMailKept
<1>1. IInv => OutMailKept
  BY DEF IInv
<1> QED BY <1>1, Inductive, PTL

-----------------------------------------------------------------------------
\* Without a fault nothing is sent or tossed twice.

\* The results in q are true, its articles are different messages, all with the
\* Sent bit; none of q is tossed.
Honest(q) == \A k \in DOMAIN q : q[k].tossed <=> delivered[q[k].msg] > 0
Distinct(q) == \A j, k \in DOMAIN q : q[j].msg = q[k].msg => j = k
Marked(q) == \A k \in DOMAIN q : q[k].msg \in sent
Good(q) == Honest(q) /\ Distinct(q) /\ Marked(q)
Unsent(q) == \A k \in DOMAIN q : ~q[k].tossed

\* The mailer has read the queue file and is not done with putting it back.
Handling == {"article", "write", "remove", "rename", "read", "purge"}
Purged == {"write", "remove", "rename", "toss", "append", "finish"}

\* The queue file holds no sent article but while a mailer handles it; then the
\* mailer's copy knows which ones are sent.
OutOnce(m) ==
  /\ purge[m] => pc[m] \in Purged
  /\ purge[m] \/ pc[m] = "purge" \/ keep[m] = <<>>
  /\ pc[m] \notin Handling => Honest(outq) /\ Unsent(outq)
  /\ \A k \in DOMAIN outq :
       outq[k].msg \in sent \/ (pc[m] = "mark" /\ outq[k].msg = at[m])
  /\ pc[m] \in {"article", "write", "purge"} => Good(arts[m])
  /\ pc[m] \in {"remove", "rename"} => Good(tmp)
  /\ pc[m] = "read" => Honest(outq)
  /\ pc[m] = "article" => \A k \in DOMAIN arts[m] : k >= at[m] => ~arts[m][k].tossed
  /\ pc[m] = "purge" => /\ Good(keep[m]) /\ Unsent(keep[m])
                        /\ \A k \in DOMAIN keep[m], j \in DOMAIN arts[m] :
                             j >= at[m] => keep[m][k].msg # arts[m][j].msg
  /\ purge[m] /\ pc[m] = "write" => Unsent(arts[m])
  /\ purge[m] /\ pc[m] \in {"remove", "rename"} => Unsent(tmp)

OutBase ==
  /\ Distinct(outq)
  /\ \A i \in 1 .. NOut : delivered[i] <= 1 /\ (delivered[i] > 0 => i \in sent)

\* Mail nobody has taken from the server yet.
New(i) == tossed[i] = 0 /\ \A j \in DOMAIN inq : inq[j] # i

\* What is on the server is new but for what the mailer is about to delete
\* there; what is in the inbound queue is not tossed before its turn.  All that
\* as long as no mail was read for another.
InOnce(m) == crossed = {} =>
  /\ \A j \in DOMAIN inq : tossed[inq[j]] = 0 \/ (pc[m] = "append" /\ j < at[m])
  /\ \A i \in server : i \in dele[m] \/ (pc[m] = "dele" /\ at[m] = i) \/ New(i)
  /\ pc[m] \in {"idle", "scan", "mark", "stat", "get"} => dele[m] = {}
  /\ pc[m] = "dele" => at[m] \in server
  /\ pc[m] \in {"pop", "dele"} => list[m] \subseteq server /\ \A i \in dele[m] : i < at[m]
  /\ pc[m] \notin {"pop", "dele"} => dele[m] \cap server = {}
  /\ dele[m] \subseteq arrived

InBase == crossed = {} =>
  /\ \A j, k \in DOMAIN inq : inq[j] = inq[k] => j = k
  /\ \A i \in 1 .. NIn : tossed[i] <= 1 /\ (i \notin arrived => New(i))

Resting == \A m \in Mailers : pc[m] = "idle" => dele[m] = {} /\ keep[m] = <<>> /\ ~purge[m]

\* The mailer at work, or any mailer if none is.
AtWork(m) == \A n \in Mailers \ {m} : pc[n] = "idle"

OnceInv == faults = 0 =>
  /\ OutBase /\ InBase /\ Resting
  /\ \A m \in Mailers : AtWork(m) => OutOnce(m) /\ InOnce(m)

-----------------------------------------------------------------------------
\* The same of the next state.
HonestNow(q) == \A k \in DOMAIN q : q[k].tossed <=> delivered'[q[k].msg] > 0
MarkedNow(q) == \A k \in DOMAIN q : q[k].msg \in sent'
GoodNow(q) == HonestNow(q) /\ Distinct(q) /\ MarkedNow(q)

OutOnceNow(m) ==
  /\ purge'[m] => pc'[m] \in Purged
  /\ purge'[m] \/ pc'[m] = "purge" \/ keep'[m] = <<>>
  /\ pc'[m] \notin Handling => HonestNow(outq') /\ Unsent(outq')
  /\ \A k \in DOMAIN outq' :
       outq'[k].msg \in sent' \/ (pc'[m] = "mark" /\ outq'[k].msg = at'[m])
  /\ pc'[m] \in {"article", "write", "purge"} => GoodNow(arts'[m])
  /\ pc'[m] \in {"remove", "rename"} => GoodNow(tmp')
  /\ pc'[m] = "read" => HonestNow(outq')
  /\ pc'[m] = "article" => \A k \in DOMAIN arts'[m] : k >= at'[m] => ~arts'[m][k].tossed
  /\ pc'[m] = "purge" => /\ GoodNow(keep'[m]) /\ Unsent(keep'[m])
                         /\ \A k \in DOMAIN keep'[m], j \in DOMAIN arts'[m] :
                              j >= at'[m] => keep'[m][k].msg # arts'[m][j].msg
  /\ purge'[m] /\ pc'[m] = "write" => Unsent(arts'[m])
  /\ purge'[m] /\ pc'[m] \in {"remove", "rename"} => Unsent(tmp')

OutBaseNow ==
  /\ Distinct(outq')
  /\ \A i \in 1 .. NOut : delivered'[i] <= 1 /\ (delivered'[i] > 0 => i \in sent')

\* What is true of a queue stays true if nothing more is delivered.
LEMMA OnceStays ==
  ASSUME delivered' = delivered, sent \subseteq sent'
  PROVE  \A q : (Honest(q) => HonestNow(q)) /\ (Marked(q) => MarkedNow(q))
                /\ (Good(q) => GoodNow(q))
BY DEF Honest, HonestNow, Marked, MarkedNow, Good, GoodNow

\* An empty queue.
LEMMA EmptyGood == HonestNow(<<>>) /\ Distinct(<<>>) /\ MarkedNow(<<>>) /\ Unsent(<<>>)
BY DEF HonestNow, Distinct, MarkedNow, Unsent

\* Steps without any queue in hand.
Aside(m) ==
  /\ UNCHANGED <<outVars, arts, keep, purge>>
  /\ pc[m] \notin Handling \cup {"mark"} /\ pc'[m] \notin Handling \cup {"mark"}
  /\ pc[m] \in Purged => pc'[m] \in Purged

LEMMA AsideSteps ==
  ASSUME OwnTypes, NEW m \in Mailers, MailerStep(m), faults' = faults, faults = 0
  PROVE  \/ Aside(m)
         \/ ScanNext(m) \/ MarkSent(m) \/ SmtpConnect(m) \/ Accepted(m)
         \/ Refused(m) \/ ConnectionLost(m) \/ SendDone(m)
         \/ WriteTmp(m) \/ RemoveOut(m)
         \/ RenameTmp(m) \/ PurgeStart(m) \/ PurgeDrops(m)
         \/ PurgeKeeps(m) \/ PurgeWrites(m) \/ Finish(m)
<1> USE DEF Aside, Handling, Purged, OwnTypes, Goto, LoopTo, To, Onward, jobVars, outVars,
            runVars, popVars, smtpVars
<1>1. CASE StatOut(m) BY <1>1 DEF StatOut
<1>2. CASE PopConnect(m) BY <1>2 DEF PopConnect
<1>3. CASE PopFails(m) BY <1>3 DEF PopFails
<1>4. CASE Retrieve(m) BY <1>4 DEF Route, Retrieve
<1>5. CASE RetrieveFails(m) BY <1>5 DEF RetrieveFails
<1>6. CASE Delete(m) BY <1>6 DEF Delete
<1>7. CASE PopQuit(m) BY <1>7 DEF HangUp, PopQuit
<1>8. CASE SendSkipped(m) BY <1>8 DEF SendSkipped
<1>9. CASE SmtpFails(m) BY <1>9 DEF SmtpFails
<1>10. CASE TossStart(m) BY <1>10 DEF TossStart
<1>11. CASE TossNext(m) BY <1>11 DEF TossNext
<1>12. CASE TossEnd(m) BY <1>12 DEF TossEnd
<1>14. CASE RetrieveOther(m) BY <1>14 DEF Route, RetrieveOther
<1>13. ~PopLost(m) /\ ~ReplyLost(m) /\ ~WriteTmpFails(m)
  BY DEF PopLost, ReplyLost, WriteTmpFails, Fault
<1> QED BY <1>1, <1>2, <1>3, <1>4, <1>5, <1>6, <1>7, <1>8, <1>9, <1>10, <1>11,
           <1>12, <1>13, <1>14 DEF MailerStep

LEMMA AsideOnce ==
  ASSUME AllTypes, NEW m \in Mailers, OutOnce(m), OutBase, Aside(m)
  PROVE  OutOnceNow(m) /\ OutBaseNow
<1> USE DEF Aside, outVars, Handling
<1>1. OutBaseNow
  BY DEF OutBase, OutBaseNow
<1>2. Honest(outq) => HonestNow(outq)
  BY OnceStays
<1>3. OutOnceNow(m)
  BY <1>2 DEF OutOnce, OutOnceNow, Purged
<1> QED BY <1>1, <1>3

\* The scan queues no message twice, for it marks what it queued.
LEMMA ScanOnce ==
  ASSUME AllTypes, NEW m \in Mailers, OutOnce(m), OutBase, ScanInv(m),
         ScanNext(m) \/ MarkSent(m)
  PROVE  OutOnceNow(m) /\ OutBaseNow
<1> USE DEF AllTypes, OwnTypes, OutTypes
<1>1. /\ pc[m] \in {"scan", "mark"} /\ pc'[m] \in {"scan", "mark", "stat"}
      /\ UNCHANGED <<tmp, delivered, arts, keep, purge>> /\ sent \subseteq sent'
  BY DEF ScanNext, MarkSent, To, Onward, Goto, jobVars, smtpVars
<1>2. Honest(outq) /\ Unsent(outq) /\ HonestNow(outq) /\ ~purge[m] /\ keep[m] = <<>>
  <2>1. Honest(outq) /\ Unsent(outq) /\ ~purge[m] /\ keep[m] = <<>>
    BY <1>1 DEF OutOnce, Handling, Purged
  <2> QED BY <1>1, <2>1, OnceStays
<1>3. \A i \in 1 .. NOut : delivered'[i] <= 1 /\ (delivered'[i] > 0 => i \in sent')
  BY <1>1 DEF OutBase
<1>4. CASE outq' = outq
  <2>1. \A k \in DOMAIN outq :
          outq[k].msg \in sent' \/ (pc'[m] = "mark" /\ outq[k].msg = at'[m])
    <3>1. CASE MarkSent(m)
      BY <3>1 DEF OutOnce, MarkSent
    <3>2. CASE ScanNext(m)
      BY <1>1, <3>2 DEF OutOnce, ScanNext
    <3> QED BY <3>1, <3>2
  <2> QED BY <1>1, <1>2, <1>3, <1>4, <2>1 DEF OutOnceNow, OutBaseNow, OutBase
<1>5. CASE ScanNext(m) /\ at[m] <= high[m] /\ at[m] \notin sent
  <2> DEFINE a == [msg |-> at[m], tries |-> 0, tossed |-> FALSE]
  <2>1. a \in Article /\ a.msg = at[m] /\ ~a.tossed /\ at[m] \in 1 .. NOut
    BY MailAssumption, <1>5 DEF ScanInv, ScanNext, Article, MailAssumption
  <2>2. /\ outq' = Append(outq, a) /\ sent' = sent /\ pc'[m] = "mark" /\ pc[m] = "scan"
        /\ at'[m] = at[m]
    BY <1>5 DEF ScanNext, To, Goto, jobVars
  <2> HIDE DEF a
  <2>3. /\ DOMAIN outq' = 1 .. Len(outq) + 1 /\ DOMAIN outq = 1 .. Len(outq)
        /\ outq'[Len(outq) + 1] = a /\ \A k \in DOMAIN outq : outq'[k] = outq[k]
        /\ Len(outq) \in Nat
    BY <2>1, <2>2, AppendProperties
  <2>4. \A k \in DOMAIN outq' : k \in DOMAIN outq \/ k = Len(outq) + 1
    BY ONLY <2>3
  <2>5. delivered'[a.msg] = 0
    BY <1>1, <1>5, <2>1 DEF OutBase
  <2>6. \A k \in DOMAIN outq : outq[k].msg \in sent
    BY <2>2 DEF OutOnce
  <2>7. HonestNow(outq') /\ Unsent(outq')
    <3>1. ~(delivered'[a.msg] > 0)
      BY <2>5
    <3> QED BY <1>2, <2>1, <2>3, <2>4, <3>1 DEF HonestNow, Unsent
  <2>8. Distinct(outq')
    <3>1. \A k \in DOMAIN outq : outq[k].msg # a.msg
      BY <1>5, <2>1, <2>6
    <3>2. Distinct(outq)
      BY DEF OutBase
    <3> QED BY <2>3, <2>4, <3>1, <3>2 DEF Distinct
  <2>9. \A k \in DOMAIN outq' : outq'[k].msg \in sent' \/ outq'[k].msg = at'[m]
    BY <2>1, <2>2, <2>3, <2>4, <2>6
  <2> QED BY <1>1, <1>2, <1>3, <2>2, <2>7, <2>8, <2>9 DEF OutOnceNow, OutBaseNow
<1> QED BY <1>4, <1>5 DEF ScanNext, MarkSent

\* Reading the queue to send it, and the end of sending.
LEMMA SendOnce ==
  ASSUME AllTypes, NEW m \in Mailers, OutOnce(m), OutBase, SmtpConnect(m) \/ SendDone(m)
  PROVE  OutOnceNow(m) /\ OutBaseNow
<1> USE DEF AllTypes, OwnTypes, OutTypes
<1>1. /\ UNCHANGED <<outVars, purge, keep>>
      /\ pc[m] \in {"send", "article"} /\ pc'[m] \in {"article", "write"}
  BY DEF SmtpConnect, SendDone, To, Goto, jobVars, smtpVars, outVars
<1>2. ~purge[m] /\ keep[m] = <<>>
  BY <1>1 DEF OutOnce, Purged
<1>3. OutBaseNow
  BY <1>1 DEF OutBase, OutBaseNow, outVars
<1>4. \A k \in DOMAIN outq : outq[k].msg \in sent
  BY <1>1 DEF OutOnce
<1>5. CASE SmtpConnect(m)
  <2>1. /\ pc'[m] = "article" /\ arts'[m] = outq /\ pc[m] = "send"
    BY <1>5 DEF SmtpConnect, Goto
  <2>2. Honest(outq) /\ Unsent(outq)
    BY <2>1 DEF OutOnce, Handling
  <2>3. GoodNow(outq)
    <3>1. Good(outq)
      BY <1>4, <2>2 DEF Good, Marked, OutBase
    <3> QED BY <1>1, <3>1, OnceStays DEF outVars
  <2> QED BY <1>1, <1>2, <1>3, <1>4, <2>1, <2>2, <2>3 DEF OutOnceNow, outVars, Unsent, Handling
<1>6. CASE SendDone(m)
  <2>1. /\ pc'[m] = "write" /\ arts' = arts /\ pc[m] = "article"
    BY <1>6 DEF SendDone, To, Goto, jobVars, smtpVars
  <2>2. GoodNow(arts[m])
    <3>1. Good(arts[m])
      BY <2>1 DEF OutOnce
    <3> QED BY <1>1, <3>1, OnceStays DEF outVars
  <2> QED BY <1>1, <1>2, <1>3, <1>4, <2>1, <2>2 DEF OutOnceNow, outVars, Handling
<1> QED BY <1>5, <1>6

\* An article is handed over only while it is not sent, and then marked.
LEMMA ResultOnce ==
  ASSUME AllTypes, NEW m \in Mailers, OutOnce(m), OutBase, OutInv(m),
         Accepted(m) \/ Refused(m) \/ ConnectionLost(m)
  PROVE  OutOnceNow(m) /\ OutBaseNow
<1> USE DEF AllTypes, OwnTypes, OutTypes
<1>1. /\ pc[m] = "article" /\ pc' = pc /\ at'[m] = at[m] + 1
      /\ UNCHANGED <<sent, outq, tmp, keep, purge>>
  BY DEF Articles, Accepted, Refused, ConnectionLost, Failed, Result, LoopTo, outVars
<1>2. ~purge[m] /\ keep[m] = <<>> /\ Good(arts[m])
  BY <1>1 DEF OutOnce, Purged
<1>3. \A k \in DOMAIN outq : outq[k].msg \in sent
  BY <1>1 DEF OutOnce
<1>4. at[m] \in DOMAIN arts[m] /\ Current(m) \in Article /\ Current(m) = arts[m][at[m]]
  <2>1. at[m] >= 1 /\ at[m] <= Len(arts[m])
    BY <1>1 DEF Articles, Accepted, Refused, ConnectionLost, OutInv
  <2>2. at[m] \in DOMAIN arts[m]
    BY <2>1
  <2> QED BY <2>2, ArticleLemma DEF Current
<1>5. Current(m).msg \in 1 .. NOut /\ ~Current(m).tossed
      /\ delivered[Current(m).msg] = 0 /\ Current(m).msg \in sent
  <2>1. Current(m).msg \in 1 .. NOut /\ ~Current(m).tossed
    BY <1>1, <1>4, ArticleLemma DEF OutOnce
  <2>2. ~(delivered[Current(m).msg] > 0) /\ Current(m).msg \in sent
    BY <1>2, <1>4, <2>1 DEF Good, Honest, Marked
  <2> QED BY <2>1, <2>2
<1>6. PICK a \in Article :
        /\ arts'[m] = [arts[m] EXCEPT ![at[m]] = a]
        /\ a.msg = Current(m).msg
        /\ \/ a.tossed /\ delivered' = [delivered EXCEPT ![a.msg] = @ + 1]
           \/ ~a.tossed /\ delivered' = delivered
  <2>1. CASE Accepted(m)
    <3> DEFINE a == [msg |-> Current(m).msg, tries |-> Current(m).tries, tossed |-> TRUE]
    <3>1. a \in Article
      BY <1>4, ArticleLemma
    <3>2. arts'[m] = [arts[m] EXCEPT ![at[m]] = a]
      BY <2>1 DEF Accepted, Result
    <3>3. delivered' = [delivered EXCEPT ![a.msg] = @ + 1]
      BY <2>1 DEF Accepted, Taken
    <3> QED BY <3>1, <3>2, <3>3
  <2>2. CASE Refused(m) \/ ConnectionLost(m)
    <3> DEFINE a == [msg |-> Current(m).msg, tries |-> Current(m).tries + 1,
                     tossed |-> Current(m).tossed]
    <3>1. a \in Article
      <4>1. /\ Current(m).msg \in 1 .. NOut /\ Current(m).tries + 1 \in Nat
            /\ Current(m).tossed \in BOOLEAN
        BY <1>4, ArticleLemma
      <4> QED BY <4>1 DEF Article
    <3>2. arts'[m] = [arts[m] EXCEPT ![at[m]] = a]
      BY <2>2 DEF Refused, ConnectionLost, Failed, Result
    <3>3. ~a.tossed /\ delivered' = delivered
      BY <1>5, <2>2 DEF Refused, ConnectionLost, outVars
    <3> QED BY <3>1, <3>2, <3>3
  <2> QED BY <2>1, <2>2
<1>7. \A i \in 1 .. NOut : delivered'[i] = IF a.tossed /\ i = a.msg THEN 1 ELSE delivered[i]
  <2>1. CASE ~a.tossed
    BY <1>6, <2>1
  <2>2. CASE a.tossed
    <3>1. delivered' = [delivered EXCEPT ![a.msg] = @ + 1] /\ delivered[a.msg] = 0
      BY <1>5, <1>6, <2>2
    <3>2. delivered \in [1 .. NOut -> Nat]
      OBVIOUS
    <3> QED BY ONLY <2>2, <3>1, <3>2
  <2> QED BY <2>1, <2>2
<1>8. \A i \in 1 .. NOut : delivered'[i] <= 1 /\ (delivered'[i] > 0 => i \in sent')
  BY <1>1, <1>5, <1>6, <1>7 DEF OutBase
<1>9. /\ DOMAIN arts'[m] = DOMAIN arts[m] /\ arts'[m][at[m]] = a
      /\ \A k \in DOMAIN arts[m] : k # at[m] => arts'[m][k] = arts[m][k]
      /\ \A k \in DOMAIN arts[m] : arts'[m][k].msg = arts[m][k].msg
  BY <1>4, <1>6
<1>10. HonestNow(arts'[m])
  <2> SUFFICES ASSUME NEW k \in DOMAIN arts[m]
               PROVE  arts'[m][k].tossed <=> delivered'[arts'[m][k].msg] > 0
    BY <1>9 DEF HonestNow
  <2>1. CASE k = at[m]
    <3>1. a.tossed <=> delivered'[a.msg] > 0
      <4>1. ~a.tossed => delivered'[a.msg] = 0
        BY <1>5, <1>6
      <4>2. a.tossed => delivered'[a.msg] = 1
        BY <1>5, <1>6, <1>7
      <4> QED BY <4>1, <4>2
    <3> QED BY <1>9, <2>1, <3>1
  <2>2. CASE k # at[m]
    <3>1. arts[m][k].msg # a.msg /\ arts[m][k].msg \in 1 .. NOut
      BY <1>2, <1>4, <1>6, <2>2, ArticleLemma DEF Good, Distinct
    <3>2. delivered'[arts[m][k].msg] = delivered[arts[m][k].msg]
      BY <1>7, <3>1
    <3>3. arts[m][k].tossed <=> delivered[arts[m][k].msg] > 0
      BY <1>2 DEF Good, Honest
    <3> QED BY <1>9, <2>2, <3>2, <3>3
  <2> QED BY <2>1, <2>2
<1>11. Distinct(arts'[m]) /\ MarkedNow(arts'[m])
  BY <1>1, <1>2, <1>9 DEF Good, Distinct, Marked, MarkedNow
<1>12. \A k \in DOMAIN arts'[m] : k >= at'[m] => ~arts'[m][k].tossed
  <2> SUFFICES ASSUME NEW k \in DOMAIN arts[m], k >= at[m] + 1
               PROVE  ~arts'[m][k].tossed
    BY <1>1, <1>9
  <2>1. k # at[m] /\ k >= at[m] /\ ~arts[m][k].tossed
    BY <1>1 DEF OutOnce
  <2> QED BY <1>9, <2>1
<1>13. OutBaseNow
  BY <1>1, <1>8 DEF OutBaseNow, OutBase
<1> QED BY <1>1, <1>2, <1>3, <1>10, <1>11, <1>12, <1>13 DEF OutOnceNow, GoodNow, Handling

\* The queue file is replaced by the copy with the results.
LEMMA WriteOnce ==
  ASSUME AllTypes, NEW m \in Mailers, OutOnce(m), OutBase,
         WriteTmp(m) \/ RemoveOut(m) \/ RenameTmp(m)
  PROVE  OutOnceNow(m) /\ OutBaseNow
<1> USE DEF AllTypes, OwnTypes, OutTypes
<1>1. /\ UNCHANGED <<sent, delivered, arts, keep, purge>>
      /\ pc[m] \in {"write", "remove", "rename"}
  BY DEF WriteTmp, RemoveOut, RenameTmp, To, jobVars, smtpVars
<1>2. \A i \in 1 .. NOut : delivered'[i] <= 1 /\ (delivered'[i] > 0 => i \in sent')
  BY <1>1 DEF OutBase
<1>3. /\ \A k \in DOMAIN outq : outq[k].msg \in sent
      /\ purge[m] \/ keep[m] = <<>>
  BY <1>1 DEF OutOnce
<1>4. CASE WriteTmp(m) /\ arts[m] # <<>>
  <2>1. pc[m] = "write" /\ pc'[m] = "remove" /\ tmp' = arts[m] /\ outq' = outq
    BY <1>4 DEF WriteTmp, To, Goto
  <2>2. GoodNow(arts[m]) /\ (purge[m] => Unsent(arts[m]))
    <3>1. Good(arts[m]) /\ (purge[m] => Unsent(arts[m]))
      BY <2>1 DEF OutOnce
    <3> QED BY <1>1, <3>1, OnceStays
  <2> QED BY <1>1, <1>2, <1>3, <2>1, <2>2 DEF OutOnceNow, OutBaseNow, OutBase, Handling, Purged
<1>5. CASE WriteTmp(m) /\ arts[m] = <<>>
  <2>1. /\ outq' = <<>> /\ pc'[m] = IF purge[m] THEN "toss" ELSE "read"
    BY <1>5 DEF WriteTmp, AfterWrite, To, Goto
  <2>2. HonestNow(outq') /\ Unsent(outq') /\ Distinct(outq') /\ DOMAIN outq' = {}
    BY <2>1, EmptyGood
  <2> QED BY <1>1, <1>2, <1>3, <2>1, <2>2 DEF OutOnceNow, OutBaseNow, Handling, Purged
<1>6. CASE RemoveOut(m)
  <2>1. pc[m] = "remove" /\ pc'[m] = "rename" /\ outq' = <<>> /\ tmp' = tmp
    BY <1>6 DEF RemoveOut, To, Goto
  <2>2. GoodNow(tmp) /\ (purge[m] => Unsent(tmp))
    <3>1. Good(tmp) /\ (purge[m] => Unsent(tmp))
      BY <2>1 DEF OutOnce
    <3> QED BY <1>1, <3>1, OnceStays
  <2>3. Distinct(outq') /\ DOMAIN outq' = {}
    BY <2>1, EmptyGood
  <2> QED BY <1>1, <1>2, <1>3, <2>1, <2>2, <2>3 DEF OutOnceNow, OutBaseNow, Handling, Purged
<1>7. CASE RenameTmp(m)
  <2>1. pc[m] = "rename" /\ outq' = tmp /\ pc'[m] = IF purge[m] THEN "toss" ELSE "read"
    BY <1>7 DEF RenameTmp, AfterWrite, To, Goto
  <2>2. GoodNow(tmp) /\ (purge[m] => Unsent(tmp))
    <3>1. Good(tmp) /\ (purge[m] => Unsent(tmp))
      BY <2>1 DEF OutOnce
    <3> QED BY <1>1, <3>1, OnceStays
  <2>3. \A k \in DOMAIN outq' : outq'[k].msg \in sent'
    BY <2>1, <2>2 DEF GoodNow, MarkedNow
  <2> QED BY <1>1, <1>2, <1>3, <2>1, <2>2, <2>3 DEF OutOnceNow, OutBaseNow, GoodNow, Handling, Purged
<1> QED BY <1>4, <1>5, <1>6, <1>7

\* The purge reads the queue back and keeps what is not sent.
LEMMA PurgeOnce ==
  ASSUME AllTypes, NEW m \in Mailers, OutOnce(m), OutBase, OutInv(m),
         PurgeStart(m) \/ PurgeDrops(m) \/ PurgeKeeps(m) \/ PurgeWrites(m)
  PROVE  OutOnceNow(m) /\ OutBaseNow
<1> USE DEF AllTypes, OwnTypes, OutTypes
<1>1. /\ UNCHANGED <<sent, delivered, outq, tmp>>
      /\ pc[m] \in {"read", "purge"} /\ pc'[m] \in {"purge", "write"}
  BY DEF PurgeStart, PurgeDrops, PurgeKeeps, PurgeWrites, Purging, Onward, Goto, outVars
<1>2. OutBaseNow
  BY <1>1 DEF OutBase, OutBaseNow
<1>3. /\ \A k \in DOMAIN outq : outq[k].msg \in sent
      /\ ~purge[m]
  BY <1>1 DEF OutOnce, Purged
<1>4. CASE PurgeStart(m)
  <2>1. /\ pc[m] = "read" /\ pc'[m] = "purge" /\ arts'[m] = outq
        /\ keep' = keep /\ purge' = purge
    BY <1>4 DEF PurgeStart, Goto
  <2>2. Honest(outq) /\ keep[m] = <<>>
    BY <1>3, <2>1 DEF OutOnce
  <2>3. GoodNow(outq)
    <3>1. Good(outq)
      BY <1>3, <2>2 DEF Good, Marked, OutBase
    <3> QED BY <1>1, <3>1, OnceStays
  <2>4. GoodNow(keep'[m]) /\ Unsent(keep'[m]) /\ DOMAIN keep'[m] = {}
    BY <2>1, <2>2, EmptyGood DEF GoodNow
  <2> QED BY <1>1, <1>2, <1>3, <2>1, <2>3, <2>4 DEF OutOnceNow, Handling
<1>5. CASE PurgeWrites(m)
  <2>1. /\ pc[m] = "purge" /\ pc'[m] = "write" /\ arts'[m] = keep[m] /\ purge'[m]
    BY <1>5 DEF PurgeWrites, Goto
  <2>2. GoodNow(keep[m]) /\ Unsent(keep[m])
    <3>1. Good(keep[m]) /\ Unsent(keep[m])
      BY <2>1 DEF OutOnce
    <3> QED BY <1>1, <3>1, OnceStays
  <2> QED BY <1>1, <1>2, <1>3, <2>1, <2>2 DEF OutOnceNow, Handling, Purged
<1>6. CASE PurgeDrops(m) \/ PurgeKeeps(m)
  <2>1. /\ pc[m] = "purge" /\ pc'[m] = "purge" /\ arts' = arts /\ purge' = purge
        /\ at'[m] = at[m] + 1
    BY <1>6 DEF PurgeDrops, PurgeKeeps, Purging, Onward, Goto, LoopTo, smtpVars
  <2>2. /\ Good(arts[m]) /\ GoodNow(arts[m]) /\ Good(keep[m]) /\ Unsent(keep[m])
        /\ \A k \in DOMAIN keep[m], j \in DOMAIN arts[m] :
             j >= at[m] => keep[m][k].msg # arts[m][j].msg
    <3>1. /\ Good(arts[m]) /\ Good(keep[m]) /\ Unsent(keep[m])
          /\ \A k \in DOMAIN keep[m], j \in DOMAIN arts[m] :
             j >= at[m] => keep[m][k].msg # arts[m][j].msg
      BY <2>1 DEF OutOnce
    <3> QED BY <1>1, <3>1, OnceStays
  <2>3. at[m] \in DOMAIN arts[m] /\ Current(m) \in Article /\ Current(m) = arts[m][at[m]]
    <3>1. at[m] >= 1 /\ at[m] <= Len(arts[m])
      BY <1>6, <2>1 DEF Purging, PurgeDrops, PurgeKeeps, OutInv
    <3>2. at[m] \in DOMAIN arts[m]
      BY <3>1
    <3> QED BY <3>2, ArticleLemma DEF Current
  <2>4. \A j \in DOMAIN arts[m] : j >= at[m] + 1 => j >= at[m] /\ j # at[m]
    OBVIOUS
  <2>5. /\ GoodNow(keep'[m]) /\ Unsent(keep'[m])
        /\ \A k \in DOMAIN keep'[m], j \in DOMAIN arts[m] :
             j >= at[m] + 1 => keep'[m][k].msg # arts[m][j].msg
    <3>1. CASE PurgeDrops(m)
      <4>1. keep' = keep
        BY <3>1 DEF PurgeDrops, Onward, smtpVars
      <4>2. GoodNow(keep[m])
        BY <1>1, <2>2, OnceStays
      <4> QED BY <2>2, <2>4, <4>1, <4>2
    <3>2. CASE PurgeKeeps(m)
      <4>1. keep'[m] = Append(keep[m], Current(m)) /\ ~Current(m).tossed
        BY <3>2 DEF PurgeKeeps
      <4>2. /\ DOMAIN keep'[m] = 1 .. Len(keep[m]) + 1 /\ DOMAIN keep[m] = 1 .. Len(keep[m])
            /\ keep'[m][Len(keep[m]) + 1] = Current(m)
            /\ \A k \in DOMAIN keep[m] : keep'[m][k] = keep[m][k]
            /\ Len(keep[m]) \in Nat
        BY <2>3, <4>1, AppendProperties
      <4>3. \A k \in DOMAIN keep'[m] : k \in DOMAIN keep[m] \/ k = Len(keep[m]) + 1
        BY <4>2
      <4>4. Unsent(keep'[m])
        BY <2>2, <4>1, <4>2, <4>3 DEF Unsent
      <4>5. HonestNow(keep'[m]) /\ MarkedNow(keep'[m])
        BY <1>1, <2>2, <2>3, <4>2, <4>3 DEF Good, Honest, HonestNow, Marked, MarkedNow
      <4>6. \A k \in DOMAIN keep[m] : keep[m][k].msg # Current(m).msg
        <5>1. at[m] >= at[m]
          OBVIOUS
        <5> QED BY ONLY <2>2, <2>3, <5>1
      <4>7. Distinct(keep'[m])
        <5>1. Distinct(keep[m])
          BY <2>2 DEF Good
        <5> QED BY ONLY <4>2, <4>3, <4>6, <5>1 DEF Distinct
      <4>8. \A j \in DOMAIN arts[m] : j >= at[m] + 1 => Current(m).msg # arts[m][j].msg
        BY <2>2, <2>3, <2>4 DEF Good, Distinct
      <4>9. ASSUME NEW k \in DOMAIN keep'[m], NEW j \in DOMAIN arts[m], j >= at[m] + 1
            PROVE  keep'[m][k].msg # arts[m][j].msg
        BY <2>2, <2>4, <4>2, <4>3, <4>8, <4>9
      <4> QED BY <4>4, <4>5, <4>7, <4>9 DEF GoodNow
    <3> QED BY <1>6, <3>1, <3>2
  <2> QED BY <1>1, <1>2, <1>3, <2>1, <2>2, <2>5 DEF OutOnceNow, Handling
<1> QED BY <1>4, <1>5, <1>6

-----------------------------------------------------------------------------
\* The inbound mail.
NewNow(i) == tossed'[i] = 0 /\ \A j \in DOMAIN inq' : inq'[j] # i

InOnceNow(m) == crossed' = {} =>
  /\ \A j \in DOMAIN inq' : tossed'[inq'[j]] = 0 \/ (pc'[m] = "append" /\ j < at'[m])
  /\ \A i \in server' : i \in dele'[m] \/ (pc'[m] = "dele" /\ at'[m] = i) \/ NewNow(i)
  /\ pc'[m] \in {"idle", "scan", "mark", "stat", "get"} => dele'[m] = {}
  /\ pc'[m] = "dele" => at'[m] \in server'
  /\ pc'[m] \in {"pop", "dele"} => list'[m] \subseteq server' /\ \A i \in dele'[m] : i < at'[m]
  /\ pc'[m] \notin {"pop", "dele"} => dele'[m] \cap server' = {}
  /\ dele'[m] \subseteq arrived'

InBaseNow == crossed' = {} =>
  /\ \A j, k \in DOMAIN inq' : inq'[j] = inq'[k] => j = k
  /\ \A i \in 1 .. NIn : tossed'[i] <= 1 /\ (i \notin arrived' => NewNow(i))

\* Steps that have nothing to do with the inbound mail.
Elsewhere(m) ==
  /\ UNCHANGED <<inVars, dele>>
  /\ pc[m] \notin {"pop", "dele", "append"} /\ pc'[m] \notin {"pop", "dele", "append"}
  /\ pc'[m] \in {"idle", "scan", "mark", "stat", "get"} =>
       pc[m] \in {"scan", "mark", "stat", "get"}

LEMMA ElsewhereSteps ==
  ASSUME OwnTypes, NEW m \in Mailers, MailerStep(m), faults' = faults, faults = 0
  PROVE  \/ Elsewhere(m)
         \/ PopConnect(m) \/ Retrieve(m) \/ RetrieveOther(m) \/ RetrieveFails(m)
         \/ Delete(m) \/ PopQuit(m)
         \/ TossStart(m) \/ TossNext(m) \/ TossEnd(m) \/ Finish(m)
<1> USE DEF Elsewhere, OwnTypes, Goto, LoopTo, To, Onward, jobVars, inVars, runVars,
            popVars, smtpVars
<1>1. CASE ScanNext(m) BY <1>1 DEF ScanNext
<1>2. CASE MarkSent(m) BY <1>2 DEF MarkSent
<1>3. CASE StatOut(m) BY <1>3 DEF StatOut
<1>4. CASE PopFails(m) BY <1>4 DEF PopFails
<1>5. CASE SendSkipped(m) BY <1>5 DEF SendSkipped
<1>6. CASE SmtpConnect(m) BY <1>6 DEF SmtpConnect
<1>7. CASE SmtpFails(m) BY <1>7 DEF SmtpFails
<1>8. CASE Accepted(m) BY <1>8 DEF Articles, Result, Accepted
<1>9. CASE Refused(m) BY <1>9 DEF Articles, Failed, Result, Refused
<1>10. CASE ConnectionLost(m) BY <1>10 DEF Articles, Failed, Result, ConnectionLost
<1>11. CASE SendDone(m) BY <1>11 DEF SendDone
<1>12. CASE WriteTmp(m) BY <1>12 DEF AfterWrite, WriteTmp
<1>13. CASE RemoveOut(m) BY <1>13 DEF RemoveOut
<1>14. CASE RenameTmp(m) BY <1>14 DEF AfterWrite, RenameTmp
<1>15. CASE PurgeStart(m) BY <1>15 DEF PurgeStart
<1>16. CASE PurgeDrops(m) BY <1>16 DEF Purging, PurgeDrops
<1>17. CASE PurgeKeeps(m) BY <1>17 DEF Purging, PurgeKeeps
<1>18. CASE PurgeWrites(m) BY <1>18 DEF PurgeWrites
<1>19. ~PopLost(m) /\ ~ReplyLost(m) /\ ~WriteTmpFails(m)
  BY DEF PopLost, ReplyLost, WriteTmpFails, Fault
<1> QED BY <1>1, <1>2, <1>3, <1>4, <1>5, <1>6, <1>7, <1>8, <1>9, <1>10, <1>11, <1>12,
           <1>13, <1>14, <1>15, <1>16, <1>17, <1>18, <1>19 DEF MailerStep

\* What was read for other mail is never forgotten.
LEMMA CrossedStays ==
  ASSUME OwnTypes, NEW m \in Mailers, MailerStep(m)
  PROVE  crossed \subseteq crossed'
<1>1. CASE InQuiet(m) BY <1>1 DEF InQuiet, inVars
<1>2. CASE Retrieve(m) BY <1>2 DEF Retrieve
<1>3. CASE RetrieveOther(m) BY <1>3 DEF RetrieveOther
<1>4. CASE Delete(m) \/ PopQuit(m) \/ TossStart(m)
  BY <1>4 DEF Delete, PopQuit, TossStart, inVars
<1>5. CASE TossNext(m) \/ TossEnd(m) \/ Finish(m)
  BY <1>5 DEF TossNext, TossEnd, Finish, inVars
<1> QED BY <1>1, <1>2, <1>3, <1>4, <1>5, InQuietSteps

\* A message is taken from the server once, for it is deleted there before the
\* mailer ends, and tossed once, for the queue is removed after its last one.
LEMMA InOnceStep ==
  ASSUME AllTypes, NEW m \in Mailers, InInv(m), InOnce(m), InBase, MailerStep(m), ~Finish(m),
         faults' = faults, faults = 0
  PROVE  InOnceNow(m) /\ InBaseNow
<1> USE DEF AllTypes, OwnTypes, InTypes
<1> SUFFICES ASSUME crossed' = {}
             PROVE  InOnceNow(m) /\ InBaseNow
  BY DEF InOnceNow, InBaseNow
<1>0. crossed = {}
  BY CrossedStays
<1>1. CASE Elsewhere(m)
  BY <1>0, <1>1 DEF Elsewhere, InOnce, InOnceNow, InBase, InBaseNow, New, NewNow, inVars
<1>2. CASE PopConnect(m)
  <2>1. /\ UNCHANGED <<inVars, dele>> /\ list'[m] = server /\ at'[m] = 1
        /\ pc[m] = "get" /\ pc'[m] = "pop"
    BY <1>2 DEF PopConnect, Goto, LoopTo, inVars
  <2> QED BY <1>0, <2>1 DEF InOnce, InOnceNow, InBase, InBaseNow, New, NewNow, inVars
<1>3. CASE Retrieve(m)
  <2>1. /\ pc[m] = "pop" /\ at[m] \in list[m] /\ at[m] \in server /\ at[m] \in 1 .. NIn
        /\ UNCHANGED <<server, tossed, arrived, dele, list>>
    BY <1>0, <1>3 DEF Retrieve, Route, InOnce
  <2>2. \/ pc'[m] = "pop" /\ at'[m] = at[m] + 1 /\ inq' = inq
        \/ pc'[m] = "dele" /\ at'[m] = at[m] /\ inq' \in {inq, Append(inq, at[m])}
    BY <1>3 DEF Retrieve, Route, Goto, LoopTo
  <2>3. at[m] \notin dele[m] /\ New(at[m])
    BY <1>0, <2>1 DEF InOnce
  <2>4. \A i \in dele[m] : i \in 1 .. NIn /\ i < at[m] /\ i < at[m] + 1
    BY <1>0, <2>1 DEF InOnce
  <2>5. CASE inq' = inq
    BY <1>0, <2>1, <2>2, <2>4, <2>5 DEF InOnce, InOnceNow, InBase, InBaseNow, New, NewNow
  <2>6. CASE inq' = Append(inq, at[m]) /\ pc'[m] = "dele" /\ at'[m] = at[m]
    <3>1. /\ DOMAIN inq' = 1 .. Len(inq) + 1 /\ DOMAIN inq = 1 .. Len(inq)
          /\ inq'[Len(inq) + 1] = at[m] /\ \A k \in DOMAIN inq : inq'[k] = inq[k]
          /\ Len(inq) \in Nat
      BY <2>1, <2>6, AppendProperties
    <3>2. \A k \in DOMAIN inq' : k \in DOMAIN inq \/ k = Len(inq) + 1
      BY <3>1
    <3>3. \A k \in DOMAIN inq : inq[k] # at[m] /\ tossed[inq[k]] = 0
      BY <1>0, <2>1, <2>3 DEF New, InOnce
    <3>4. \A i \in 1 .. NIn : i # at[m] /\ New(i) => NewNow(i)
      BY <2>1, <3>1, <3>2 DEF New, NewNow
    <3>5. \A j, k \in DOMAIN inq' : inq'[j] = inq'[k] => j = k
      <4>1. \A j, k \in DOMAIN inq : inq[j] = inq[k] => j = k
        BY <1>0 DEF InBase
      <4> QED BY ONLY <3>1, <3>2, <3>3, <4>1
    <3>6. InBaseNow
      <4>1. \A i \in 1 .. NIn : tossed'[i] <= 1 /\ (i \notin arrived' => NewNow(i))
        BY <1>0, <2>1, <3>4 DEF InBase
      <4> QED BY <3>5, <4>1 DEF InBaseNow
    <3>7. \A j \in DOMAIN inq' : tossed'[inq'[j]] = 0
      BY <2>1, <2>3, <3>1, <3>2, <3>3 DEF New
    <3>8. \A i \in server' : i \in dele'[m] \/ at'[m] = i \/ NewNow(i)
      BY <1>0, <2>1, <2>6, <3>4 DEF InOnce
    <3> QED BY <1>0, <2>1, <2>4, <2>6, <3>6, <3>7, <3>8 DEF InOnceNow, InOnce
  <2> QED BY <2>2, <2>5, <2>6
<1>10. CASE RetrieveOther(m)
  <2>1. /\ pc[m] = "pop" /\ pc'[m] = "pop" /\ at'[m] = at[m] + 1 /\ inq' = inq
        /\ UNCHANGED <<server, tossed, arrived, dele, list>>
    BY <1>10 DEF RetrieveOther, Route, Goto, LoopTo
  <2>2. \A i \in dele[m] : i \in 1 .. NIn /\ i < at[m] + 1
    BY <1>0, <2>1 DEF InOnce
  <2> QED BY <1>0, <2>1, <2>2 DEF InOnce, InOnceNow, InBase, InBaseNow, New, NewNow
<1>4. CASE RetrieveFails(m)
  <2>1. /\ UNCHANGED <<inVars, dele, list>> /\ at'[m] = at[m] + 1
        /\ pc[m] = "pop" /\ pc'[m] = "pop"
    BY <1>4 DEF RetrieveFails, Goto, LoopTo
  <2>2. \A i \in dele[m] : i < at[m] + 1
    BY <1>0, <2>1 DEF InOnce
  <2> QED BY <1>0, <2>1, <2>2 DEF InOnce, InOnceNow, InBase, InBaseNow, New, NewNow, inVars
<1>5. CASE Delete(m)
  <2>1. /\ UNCHANGED <<inVars, list>> /\ at'[m] = at[m] + 1
        /\ pc[m] = "dele" /\ pc'[m] = "pop" /\ dele'[m] = dele[m] \cup {at[m]}
    BY <1>5 DEF Delete, Goto, LoopTo
  <2>2. /\ \A i \in dele'[m] : i < at[m] + 1
        /\ at[m] \in server /\ list[m] \subseteq server
    BY <1>0, <2>1 DEF InOnce
  <2>3. dele'[m] \subseteq arrived
    BY <1>0, <2>1, <2>2 DEF InOnce, InBase, New
  <2>4. InBaseNow /\ \A i \in server : i \in dele'[m] \/ New(i)
    BY <1>0, <2>1 DEF InOnce, InBase, InBaseNow, New, NewNow, inVars
  <2> QED BY <1>0, <2>1, <2>2, <2>3, <2>4 DEF InOnce, InOnceNow, New, NewNow, inVars
<1>6. CASE PopQuit(m)
  <2>1. /\ inq' = inq /\ tossed' = tossed /\ arrived' = arrived /\ dele' = dele
        /\ server' = server \ dele[m] /\ pc[m] = "pop" /\ pc'[m] = "send"
    BY <1>6 DEF PopQuit, HangUp, Goto
  <2> QED BY <1>0, <2>1 DEF InOnce, InOnceNow, InBase, InBaseNow, New, NewNow
<1>7. CASE TossStart(m)
  <2>1. /\ UNCHANGED <<inVars, dele>> /\ pc[m] = "toss" /\ pc'[m] \in {"finish", "append"}
    BY <1>7 DEF TossStart, Goto, popVars
  <2> QED BY <1>0, <2>1 DEF InOnce, InOnceNow, InBase, InBaseNow, New, NewNow, inVars
<1>11. CASE TossNext(m) /\ UNCHANGED tossed
  <2>1. /\ UNCHANGED <<server, inq, arrived, dele>> /\ at'[m] = at[m] + 1
        /\ pc[m] = "append" /\ pc'[m] = "append" /\ tossed' = tossed
    BY <1>11 DEF TossNext, Onward, Goto, LoopTo, popVars
  <2>2. \A j \in DOMAIN inq : j \in Nat /\ (tossed[inq[j]] = 0 \/ j < at[m] + 1)
    BY <1>0, <2>1 DEF InOnce
  <2>3. InBaseNow /\ \A i : New(i) => NewNow(i)
    BY <1>0, <2>1 DEF InBase, InBaseNow, New, NewNow
  <2>4. /\ \A i \in server : i \in dele[m] \/ NewNow(i)
        /\ dele[m] \cap server = {} /\ dele[m] \subseteq arrived
    BY <1>0, <2>1, <2>3 DEF InOnce
  <2> QED BY <2>1, <2>2, <2>3, <2>4 DEF InOnceNow
<1>8. CASE TossNext(m) /\ tossed' = [tossed EXCEPT ![inq[at[m]]] = @ + 1]
  <2>1. /\ UNCHANGED <<server, inq, arrived, dele>> /\ at'[m] = at[m] + 1
        /\ pc[m] = "append" /\ pc'[m] = "append"
        /\ tossed' = [tossed EXCEPT ![inq[at[m]]] = @ + 1]
    BY <1>8 DEF TossNext, Onward, Goto, LoopTo, popVars
  <2>2. at[m] \in DOMAIN inq /\ inq[at[m]] \in 1 .. NIn
    <3>1. at[m] \in 1 .. Len(inq)
      BY <1>8 DEF InInv, TossNext
    <3> QED BY <3>1, InboxLemma
  <2>3. tossed[inq[at[m]]] = 0
    BY <1>0, <2>2 DEF InOnce
  <2>4. \A i \in 1 .. NIn : tossed'[i] = IF i = inq[at[m]] THEN 1 ELSE tossed[i]
    BY <2>1, <2>2, <2>3
  <2>5. \A i \in 1 .. NIn : New(i) => NewNow(i)
    BY <2>1, <2>2, <2>4 DEF New, NewNow
  <2>6. InBaseNow
    <3>1. \A i \in 1 .. NIn : tossed'[i] <= 1
      <4>1. \A i \in 1 .. NIn : tossed[i] <= 1
        BY <1>0 DEF InBase
      <4> QED BY ONLY <2>4, <4>1
    <3> QED BY <1>0, <2>1, <2>5, <3>1 DEF InBase, InBaseNow
  <2>7. \A j \in DOMAIN inq : tossed'[inq[j]] = 0 \/ j < at[m] + 1
    <3> SUFFICES ASSUME NEW j \in DOMAIN inq, ~(j < at[m] + 1)
                 PROVE  tossed'[inq[j]] = 0
      OBVIOUS
    <3>1. j # at[m] /\ ~(j < at[m]) /\ inq[j] \in 1 .. NIn
      BY InboxLemma
    <3>2. inq[j] # inq[at[m]] /\ tossed[inq[j]] = 0
      BY <1>0, <2>2, <3>1 DEF InBase, InOnce
    <3> QED BY <2>4, <3>1, <3>2
  <2>8. \A i \in server : i \in dele[m] \/ NewNow(i)
    BY <1>0, <2>1, <2>5 DEF InOnce
  <2>9. dele[m] \cap server = {} /\ dele[m] \subseteq arrived
    BY <1>0, <2>1 DEF InOnce
  <2> QED BY <1>0, <2>1, <2>6, <2>7, <2>8, <2>9 DEF InOnceNow
<1>9. CASE TossEnd(m)
  <2>1. /\ tossed' = tossed /\ server' = server /\ arrived' = arrived /\ dele' = dele
        /\ pc[m] = "append" /\ pc'[m] = "finish" /\ inq' = <<>> /\ DOMAIN inq' = {}
    BY <1>9 DEF TossEnd, To, Goto, jobVars, popVars
  <2>2. \A i : New(i) => NewNow(i)
    BY <2>1 DEF New, NewNow
  <2> QED BY <1>0, <2>1, <2>2 DEF InOnce, InOnceNow, InBase, InBaseNow
<1>12. TossNext(m) => \/ UNCHANGED tossed
                       \/ tossed' = [tossed EXCEPT ![inq[at[m]]] = @ + 1]
  BY DEF TossNext
<1> QED BY <1>1, <1>2, <1>3, <1>4, <1>5, <1>6, <1>7, <1>8, <1>9, <1>10, <1>11, <1>12,
           ElsewhereSteps

-----------------------------------------------------------------------------
\* From the next state's formulas to the primed invariant, for one mailer.
LEMMA NowOut ==
  ASSUME NEW m \in Mailers
  PROVE  OutOnceNow(m) /\ OutBaseNow => OutOnce(m)' /\ OutBase'
BY DEF OutOnceNow, OutBaseNow, GoodNow, HonestNow, MarkedNow, OutOnce, OutBase, Good, Honest,
       Marked, Distinct, Unsent

LEMMA NowIn ==
  ASSUME NEW m \in Mailers
  PROVE  InOnceNow(m) /\ InBaseNow => InOnce(m)' /\ InBase'
BY DEF InOnceNow, InBaseNow, NewNow, InOnce, InBase, New

\* Faults are never forgotten, and nobody else's purge is touched.
LEMMA FaultSteps ==
  ASSUME AllTypes, NEW m \in Mailers, MailerStep(m)
  PROVE  /\ faults' = faults \/ faults' = faults + 1
         /\ \A n \in Mailers \ {m} : purge'[n] = purge[n]
<1> USE DEF AllTypes, OwnTypes, Fault, To, Onward, Failed, Result, Gone, jobVars, smtpVars
<1>1. CASE ScanNext(m) \/ MarkSent(m) \/ StatOut(m) BY <1>1 DEF ScanNext, MarkSent, StatOut
<1>2. CASE \/ PopConnect(m) \/ PopFails(m) \/ Retrieve(m) \/ RetrieveOther(m)
           \/ RetrieveFails(m)
  BY <1>2 DEF PopConnect, PopFails, Route, Retrieve, RetrieveOther, RetrieveFails
<1>3. CASE Delete(m) \/ PopQuit(m) \/ PopLost(m)
  BY <1>3 DEF Delete, HangUp, PopQuit, PopLost
<1>4. CASE SendSkipped(m) \/ SmtpConnect(m) \/ SmtpFails(m) \/ SendDone(m)
  BY <1>4 DEF SendSkipped, SmtpConnect, SmtpFails, SendDone
<1>5. CASE Accepted(m) \/ Refused(m) \/ ConnectionLost(m) \/ ReplyLost(m)
  BY <1>5 DEF Accepted, Refused, ConnectionLost, ReplyLost
<1>6. CASE WriteTmp(m) \/ WriteTmpFails(m) \/ RemoveOut(m) \/ RenameTmp(m)
  BY <1>6 DEF WriteTmp, WriteTmpFails, RemoveOut, RenameTmp
<1>7. CASE PurgeStart(m) \/ PurgeDrops(m) \/ PurgeKeeps(m) \/ PurgeWrites(m)
  BY <1>7 DEF PurgeStart, PurgeDrops, PurgeKeeps, PurgeWrites
<1>8. CASE TossStart(m) \/ TossNext(m) \/ TossEnd(m) \/ Finish(m)
  BY <1>8 DEF TossStart, TossNext, TossEnd, Finish
<1> QED BY <1>1, <1>2, <1>3, <1>4, <1>5, <1>6, <1>7, <1>8 DEF MailerStep

\* A step of a mailer that is not its end.
LEMMA OnceWorks ==
  ASSUME IInv, OnceInv, NEW m \in Mailers, MailerStep(m), ~Finish(m)
  PROVE  OnceInv'
<1>1. AllTypes /\ ScanInv(m) /\ InInv(m) /\ OutInv(m)
  BY DEF IInv, TypeOK, AllTypes, OwnTypes, OutTypes, InTypes
<1>2. pc[m] # "idle" /\ pc'[m] # "idle"
  BY <1>1, LockSteps DEF AllTypes
<1>3. \A n \in Mailers \ {m} : pc[n] = "idle"
  BY <1>2 DEF IInv, OneMailer
<1> SUFFICES ASSUME faults' = 0
             PROVE  /\ OutBase' /\ InBase' /\ Resting'
                    /\ \A n \in Mailers : AtWork(n)' => OutOnce(n)' /\ InOnce(n)'
  BY DEF OnceInv
<1>4. faults = 0 /\ faults' = faults
  BY <1>1, FaultSteps DEF AllTypes
<1>5. OutOnce(m) /\ InOnce(m) /\ OutBase /\ InBase /\ Resting
  BY <1>3, <1>4 DEF OnceInv, AtWork
<1>6. OutOnceNow(m) /\ OutBaseNow
  BY <1>1, <1>4, <1>5, AsideSteps, AsideOnce, ScanOnce, SendOnce, ResultOnce, WriteOnce,
     PurgeOnce DEF AllTypes
<1>7. InOnceNow(m) /\ InBaseNow
  BY <1>1, <1>4, <1>5, InOnceStep
<1>8. OutOnce(m)' /\ OutBase' /\ InOnce(m)' /\ InBase'
  BY <1>6, <1>7, NowOut, NowIn
<1>9. Resting'
  <2>1. \A n \in Mailers \ {m} :
          dele'[n] = dele[n] /\ keep'[n] = keep[n] /\ purge'[n] = purge[n]
    BY <1>1, Frame, FaultSteps DEF AllTypes
  <2> QED BY <1>2, <1>3, <1>5, <2>1 DEF Resting
<1>10. \A n \in Mailers \ {m} : ~AtWork(n)'
  BY <1>2 DEF AtWork
<1> QED BY <1>8, <1>9, <1>10

\* Its end: it leaves nothing behind, and nobody is at work.
LEMMA OnceEnds ==
  ASSUME IInv, OnceInv, NEW m \in Mailers, Finish(m)
  PROVE  OnceInv'
<1>1. AllTypes /\ MailerStep(m)
  BY DEF IInv, TypeOK, AllTypes, OwnTypes, OutTypes, InTypes, MailerStep
<1>2. /\ pc[m] = "finish" /\ pc'[m] = "idle" /\ UNCHANGED <<outVars, inVars, faults>>
      /\ dele'[m] = {} /\ keep'[m] = <<>> /\ ~purge'[m]
  BY <1>1 DEF Finish, Gone, Goto, AllTypes, OwnTypes
<1>3. \A n \in Mailers \ {m} : pc[n] = "idle"
  BY <1>2 DEF IInv, OneMailer
<1>4. \A n \in Mailers \ {m} : /\ pc'[n] = "idle" /\ dele'[n] = dele[n]
                               /\ keep'[n] = keep[n] /\ purge'[n] = purge[n]
  BY <1>1, <1>3, Frame, FaultSteps DEF AllTypes
<1> SUFFICES ASSUME faults = 0
             PROVE  /\ OutBase' /\ InBase' /\ Resting'
                    /\ \A n \in Mailers : OutOnce(n)' /\ InOnce(n)'
  BY <1>2 DEF OnceInv
<1>5. OutOnce(m) /\ InOnce(m) /\ OutBase /\ InBase /\ Resting
  BY <1>3 DEF OnceInv, AtWork
<1>6. OutBase' /\ InBase'
  BY <1>2, <1>5 DEF OutBase, InBase, Distinct, New, outVars, inVars
<1>7. Resting'
  BY <1>2, <1>3, <1>4, <1>5 DEF Resting
<1>8. /\ Honest(outq) /\ Unsent(outq) /\ \A k \in DOMAIN outq : outq[k].msg \in sent
  BY <1>2, <1>5 DEF OutOnce, Handling
<1>9. crossed = {} => /\ \A j \in DOMAIN inq : tossed[inq[j]] = 0
                      /\ \A i \in server : New(i)
  BY <1>2, <1>5 DEF InOnce
<1>10. ASSUME NEW n \in Mailers
       PROVE  pc'[n] = "idle" /\ dele'[n] = {} /\ keep'[n] = <<>> /\ ~purge'[n]
  BY <1>2, <1>3, <1>4, <1>5 DEF Resting
<1>11. ASSUME NEW n \in Mailers
       PROVE  OutOnce(n)'
  BY <1>2, <1>8, <1>10 DEF OutOnce, Honest, Unsent, outVars
<1>12. ASSUME NEW n \in Mailers
       PROVE  InOnce(n)'
  BY <1>2, <1>9, <1>10 DEF InOnce, New, inVars
<1> QED BY <1>6, <1>7, <1>11, <1>12

\* A mailer starts when none is at work.
LEMMA OnceStarts ==
  ASSUME IInv, OnceInv, NEW m \in Mailers, Start(m)
  PROVE  OnceInv'
<1>1. AllTypes
  BY DEF IInv, TypeOK, AllTypes, OwnTypes, OutTypes, InTypes
<1>2. \A n \in Mailers : pc[n] = "idle"
  BY DEF IInv, OneMailer, Start
<1>3. /\ pc'[m] \in {"scan", "stat"}
      /\ UNCHANGED <<outVars, inVars, faults, dele, list, keep, purge>>
  BY <1>1 DEF Start, Goto, popVars, smtpVars, AllTypes, OwnTypes
<1> SUFFICES ASSUME faults = 0
             PROVE  /\ OutBase' /\ InBase' /\ Resting'
                    /\ \A n \in Mailers : AtWork(n)' => OutOnce(n)' /\ InOnce(n)'
  BY <1>3 DEF OnceInv
<1>4. OutOnce(m) /\ InOnce(m) /\ OutBase /\ InBase /\ Resting
  BY <1>2 DEF OnceInv, AtWork
<1>5. OutBase' /\ InBase' /\ Resting'
  BY <1>2, <1>3, <1>4 DEF OutBase, InBase, Resting, Distinct, New, outVars, inVars
<1>6. \A n \in Mailers \ {m} : ~AtWork(n)'
  BY <1>3 DEF AtWork
<1>7. OutOnce(m)'
  <2>1. ~purge[m] /\ keep[m] = <<>>
    BY <1>2, <1>4 DEF Resting
  <2>2. Honest(outq) /\ Unsent(outq) /\ \A k \in DOMAIN outq : outq[k].msg \in sent
    BY <1>2, <1>4 DEF OutOnce, Handling
  <2> QED BY <1>3, <2>1, <2>2 DEF OutOnce, Honest, Unsent, outVars
<1>8. InOnce(m)'
  <2>1. dele[m] = {}
    BY <1>2, <1>4 DEF Resting
  <2>2. crossed = {} => /\ \A j \in DOMAIN inq : tossed[inq[j]] = 0
                        /\ \A i \in server : New(i)
    BY <1>2, <1>4, <2>1 DEF InOnce
  <2> QED BY <1>3, <2>1, <2>2 DEF InOnce, New, inVars
<1> QED BY <1>5, <1>6, <1>7, <1>8

\* New mail is new, whatever the mailer is doing.
LEMMA OnceArrives ==
  ASSUME IInv, OnceInv, NEW i \in 1 .. NIn, MailArrives(i)
  PROVE  OnceInv'
<1>1. /\ i \notin arrived /\ server' = server \cup {i} /\ arrived' = arrived \cup {i}
      /\ UNCHANGED <<pc, jobVars, outVars, inq, tossed, crossed, faults>>
  BY DEF MailArrives
<1> SUFFICES ASSUME faults = 0
             PROVE  /\ OutBase' /\ InBase' /\ Resting'
                    /\ \A n \in Mailers : AtWork(n)' => OutOnce(n)' /\ InOnce(n)'
  BY <1>1 DEF OnceInv
<1>2. OutBase /\ InBase /\ Resting /\ (crossed = {} => New(i))
  BY <1>1 DEF OnceInv, InBase
<1>3. OutBase' /\ Resting'
  BY <1>1, <1>2 DEF OutBase, Resting, Distinct, outVars, jobVars, popVars, smtpVars
<1>4. InBase'
  BY <1>1, <1>2 DEF InBase, New
<1>5. ASSUME NEW n \in Mailers, AtWork(n)'
      PROVE  OutOnce(n)' /\ InOnce(n)'
  <2>1. OutOnce(n) /\ InOnce(n)
    <3>1. AtWork(n)
      BY <1>1, <1>5 DEF AtWork
    <3> QED BY <3>1 DEF OnceInv
  <2>2. OutOnce(n)'
    BY <1>1, <2>1 DEF OutOnce, Good, Honest, Marked, Distinct, Unsent, outVars, jobVars, smtpVars
  <2>3. crossed = {} => i \notin dele[n] /\ dele[n] \subseteq arrived'
    BY <1>1, <2>1 DEF InOnce
  <2>4. InOnce(n)'
    BY <1>1, <1>2, <2>1, <2>3 DEF InOnce, New, jobVars, popVars
  <2> QED BY <2>2, <2>4
<1> QED BY <1>3, <1>4, <1>5

\* Nothing else touches the mail of the mailers.
LEMMA OnceElse ==
  ASSUME IInv, OnceInv,
         UNCHANGED <<pc, jobVars, sent, outq, tmp, delivered, inVars, faults>>
  PROVE  OnceInv'
<1> USE DEF jobVars, popVars, smtpVars, inVars
<1> SUFFICES ASSUME faults = 0
             PROVE  /\ OutBase' /\ InBase' /\ Resting'
                    /\ \A n \in Mailers : AtWork(n)' => OutOnce(n)' /\ InOnce(n)'
  BY DEF OnceInv
<1>1. OutBase' /\ InBase' /\ Resting'
  BY DEF OnceInv, OutBase, InBase, Resting, Distinct, New
<1>2. ASSUME NEW n \in Mailers, AtWork(n)'
      PROVE  OutOnce(n)' /\ InOnce(n)'
  <2>1. OutOnce(n) /\ InOnce(n)
    BY <1>2 DEF AtWork, OnceInv
  <2>2. OutOnce(n)'
    BY <2>1 DEF OutOnce, Good, Honest, Marked, Distinct, Unsent
  <2>3. InOnce(n)'
    BY <2>1 DEF InOnce, New
  <2> QED BY <2>2, <2>3
<1> QED BY <1>1, <1>2

LEMMA InitOnce == Init => OnceInv
<1> SUFFICES ASSUME Init PROVE OnceInv
  OBVIOUS
<1> USE DEF Init
<1>1. OutBase
  BY DEF OutBase, Distinct
<1>2. InBase
  BY DEF InBase, New
<1>3. Resting
  BY DEF Resting
<1>4. \A m \in Mailers : OutOnce(m)
  BY DEF OutOnce, Honest, Unsent, Handling
<1>5. \A m \in Mailers : InOnce(m)
  BY DEF InOnce
<1> QED BY <1>1, <1>2, <1>3, <1>4, <1>5 DEF OnceInv

\* OnceInv holds as long as there was no fault.
THEOREM OnceInductive == Spec => []OnceInv
<1>1. Init => OnceInv
  BY InitOnce
<1>2. IInv /\ OnceInv /\ [Next]_vars => OnceInv'
  <2> SUFFICES ASSUME IInv, OnceInv, [Next]_vars PROVE OnceInv'
    OBVIOUS
  <2>1. ASSUME NEW m \in Mailers, Start(m) \/ MailerStep(m)
        PROVE  OnceInv'
    BY <2>1, OnceStarts, OnceWorks, OnceEnds
  <2>2. ASSUME NEW m \in Mailers, Crash(m)
        PROVE  OnceInv'
    <3>1. faults' # 0
      BY <2>2 DEF Crash, Fault, IInv, TypeOK
    <3> QED BY <3>1 DEF OnceInv
  <2>3. ASSUME NEW i \in 1 .. NIn, MailArrives(i)
        PROVE  OnceInv'
    BY <2>3, OnceArrives
  <2>4. CASE UserPosts \/ OperatorUnlocks \/ UNCHANGED vars
    BY <2>4, OnceElse DEF UserPosts, OperatorUnlocks, vars, outVars
  <2> QED BY <2>1, <2>2, <2>3, <2>4 DEF Next
<1> QED BY <1>1, <1>2, Inductive, PTL DEF Spec

\* Nothing is sent or tossed twice unless a process died, a reply was lost, QUIT
\* did not get through or a rewrite of the queue failed (SetSent, ArtTossed, DELE
\* and the removal of the inbound queue); nothing is tossed twice then unless
\* mail was read for other mail.
THEOREM SentOnce == Spec => []OnceWithoutFaults
<1>1. OnceInv => OnceWithoutFaults
  BY DEF OnceInv, OutBase, InBase, OnceWithoutFaults
<1> QED BY <1>1, OnceInductive, PTL

=============================================================================
