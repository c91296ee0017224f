------------------------------- MODULE JamBase --------------------------------
(***************************************************************************)
(* One JAM message base (internal/mail/jam_rw.go, jam.go): its text (.jdt),*)
(* header (.jhr) and index (.jdx) files and the base number in .jhd, and   *)
(* the processes that use it with no lock at all: posters in AppendMsg,    *)
(* markers in jamChangeAttr (SetReceived, SetSent, ClearFAttach) and       *)
(* readers in ReadMsg and NextActive.                                      *)
(*                                                                         *)
(* A file is a sequence of records; an offset in the code is a position    *)
(* here.  Records of one file all count as equally long, so that a write   *)
(* at an offset another poster took replaces that poster's record.  Every  *)
(* Stat and write of a poster is a step of its own; a search of the index  *)
(* (jamFindMsg, NextActive) counts as one step with the read of the header *)
(* it stops at, and the writes and reads that follow it are steps again.   *)
(***************************************************************************)
EXTENDS Integers, Sequences, FiniteSets

CONSTANTS Posters, Markers, Readers,
          OldBases,   \* the bases to start from: [base, nums], where nums[i]
                      \* is a message number, -1 for a deleted header and 0
                      \* for an index entry that points nowhere
          MaxPosts,   \* bound: the bodies 1 .. MaxPosts are posted
          MaxMarks    \* bound on the marks made

ASSUME BaseAssumption ==
  /\ \A b \in OldBases : /\ b.base \in Nat
                         /\ b.nums \in Seq(Nat \union {-1})
                         /\ b.base = 0 => b.nums = <<>>
  /\ MaxPosts \in Nat
  /\ MaxMarks \in Nat

VARIABLES jdt,      \* .jdt: the body each text record holds, 0 for junk
          jhr,      \* .jhr: the headers
          jdx,      \* .jdx: the position in jhr of each message, 0 for none
          jhdBase,  \* .jhd: BaseMsgNum, 0 while there is no .jhd
          post,     \* post[p]: the AppendMsg call poster p is in
          mark,     \* mark[m]: the jamChangeAttr call marker m is in
          read,     \* read[r]: the ReadMsg or NextActive call reader r is in
          made,     \* history: the bodies posters came with so far
          told,     \* history: the numbers AppendMsg returned, and their bodies
          marked    \* history: the marks whose call returned

vars == <<jdt, jhr, jdx, jhdBase, post, mark, read, made, told, marked>>
files == <<jdt, jhr, jdx, jhdBase>>

Bits == {"deleted", "rcvd", "sent", "fattach"}
Header == [num : Nat, text : Nat, attr : SUBSET Bits]
JunkHeader == [num |-> 0, text |-> 0, attr |-> {"deleted"}]

\* What a marker wants of a header: SetReceived, SetSent, ClearFAttach.
MarkOps == {"rcvd", "sent", "unattach"}

Apply(op, attr) == IF op = "unattach" THEN attr \ {"fattach"} ELSE attr \union {op}
Applied(op, attr) == Apply(op, attr) = attr

NoPost == [pc |-> "idle", num |-> 0, body |-> 0, text |-> 0, loc |-> 0,
           at |-> 0, attr |-> {}]
NoMark == [pc |-> "idle", op |-> "rcvd", num |-> 0, goal |-> 0, at |-> 0, attr |-> {}]
NoRead == [pc |-> "idle", num |-> 0, text |-> 0, body |-> 0]

Init ==
  /\ \E b \in OldBases :
       LET n == Len(b.nums) IN
       /\ jdt = [i \in 1 .. n |-> MaxPosts + i]
       /\ jhr = [i \in 1 .. n |->
                   IF b.nums[i] <= 0 THEN [JunkHeader EXCEPT !.text = i]
                   ELSE [num |-> b.nums[i], text |-> i, attr |-> {"fattach"}]]
       /\ jdx = [i \in 1 .. n |-> IF b.nums[i] = 0 THEN 0 ELSE i]
       /\ jhdBase = b.base
  /\ post = [p \in Posters |-> NoPost]
  /\ mark = [m \in Markers |-> NoMark]
  /\ read = [r \in Readers |-> NoRead]
  /\ made = 0
  /\ told = {}
  /\ marked = {}

-----------------------------------------------------------------------------
\* The helpers of jam_rw.go.

\* jamBaseMsg: the stored base number, 1 without one.
BaseMsg == IF jhdBase < 1 THEN 1 ELSE jhdBase

\* File.WriteAt at an offset Stat gave before: behind the end or over a record.
WriteAt(file, at, rec) ==
  IF at = Len(file) + 1 THEN Append(file, rec) ELSE [file EXCEPT ![at] = rec]

\* The message a slot of the index leads to, if it is there and not deleted.
Active(i) ==
  /\ i \in DOMAIN jdx
  /\ jdx[i] \in DOMAIN jhr
  /\ "deleted" \notin jhr[jdx[i]].attr

\* Its number: the header's, or the slot's if the header has none.
NumberAt(i) == IF jhr[jdx[i]].num > 0 THEN jhr[jdx[i]].num ELSE BaseMsg + i - 1

\* Mutant: the header's number is not compared.
MatchesAny(i, num) == Active(i)

\* jamFindMsg's match.
Matches(i, num) == Active(i) /\ NumberAt(i) = num

First(S) == CHOOSE i \in S : \A j \in S : i <= j
Last(S) == CHOOSE i \in S : \A j \in S : i >= j

\* Mutant: the index is scanned without a look at the direct slot.
FindByScan(num) ==
  LET found == {i \in DOMAIN jdx : Matches(i, num)}
  IN IF found = {} THEN 0 ELSE First(found)

\* jamFindMsg: the slot of message num, 0 if there is none.  The slot that num
\* has in a base numbered without gaps is tried before the scan.
FindMsg(num) ==
  LET direct == num - BaseMsg + 1
      found == {i \in DOMAIN jdx : Matches(i, num)}
  IN IF Matches(direct, num) THEN direct
     ELSE IF found = {} THEN 0 ELSE First(found)

\* NextActive: the slot it stops at, 0 for none.
NextSlot(asked, forward) ==
  LET from == IF asked < 1 THEN 1 ELSE asked
      start == from - BaseMsg + 1
      inside == start \in DOMAIN jdx
      ahead == {i \in DOMAIN jdx : Active(i) /\ NumberAt(i) >= from}
      behind == {i \in DOMAIN jdx : Active(i) /\ (from <= 1 \/ NumberAt(i) <= from)}
      near == IF forward THEN {i \in ahead : ~inside \/ i >= start}
              ELSE {i \in behind : ~inside \/ i <= start}
  IN IF forward
       THEN IF near # {} THEN First(near) ELSE IF ahead # {} THEN First(ahead) ELSE 0
       ELSE IF near # {} THEN Last(near) ELSE 0

\* The body a header's text offset leads to, 0 for none.
BodyOf(text) == IF text \in DOMAIN jdt THEN jdt[text] ELSE 0

-----------------------------------------------------------------------------
\* AppendMsg.

\* The number is taken from the size of the index before anything is written.
\* Every message has files attached, for ClearFAttach to have something to do.
BeginAppend(p) ==
  /\ post[p].pc = "idle"
  /\ made < MaxPosts
  /\ made' = made + 1
  /\ post' = [post EXCEPT ![p] =
                [NoPost EXCEPT !.pc = "stattext", !.num = BaseMsg + Len(jdx),
                               !.body = made + 1, !.attr = {"fattach"}]]
  /\ UNCHANGED <<files, mark, read, told, marked>>

\* A Stat gives the offset of the write that follows.
StatEnd(p, pc, file, next) ==
  /\ post[p].pc = pc
  /\ post' = [post EXCEPT ![p].pc = next, ![p].at = Len(file) + 1]
  /\ UNCHANGED <<files, mark, read, made, told, marked>>

\* Mutant: the header is written without its text.
StatTextOnly(p) == StatEnd(p, "stattext", jdt, "stathdr")

StatText(p) == StatEnd(p, "stattext", jdt, "writetext")

WriteText(p) ==
  /\ post[p].pc = "writetext"
  /\ jdt' = WriteAt(jdt, post[p].at, post[p].body)
  /\ post' = [post EXCEPT ![p].pc = "stathdr", ![p].text = post[p].at]
  /\ UNCHANGED <<jhr, jdx, jhdBase, mark, read, made, told, marked>>

StatHdr(p) == StatEnd(p, "stathdr", jhr, "writehdr")

WriteHdr(p) ==
  /\ post[p].pc = "writehdr"
  /\ jhr' = WriteAt(jhr, post[p].at,
                    [num |-> post[p].num, text |-> post[p].text, attr |-> post[p].attr])
  /\ post' = [post EXCEPT ![p].pc = "statidx", ![p].loc = post[p].at]
  /\ UNCHANGED <<jdt, jdx, jhdBase, mark, read, made, told, marked>>

StatIdx(p) == StatEnd(p, "statidx", jdx, "writeidx")

\* The message is public from here on.
WriteIdx(p) ==
  /\ post[p].pc = "writeidx"
  /\ jdx' = WriteAt(jdx, post[p].at, post[p].loc)
  /\ post' = [post EXCEPT ![p].pc = "writejhd"]
  /\ UNCHANGED <<jdt, jhr, jhdBase, mark, read, made, told, marked>>

\* Mutant: the number returned is computed anew from the grown index.
WriteJhdRecounts(p) ==
  /\ post[p].pc = "writejhd"
  /\ jhdBase' \in {jhdBase, BaseMsg}
  /\ told' = told \union {[num |-> BaseMsg + Len(jdx), body |-> post[p].body]}
  /\ post' = [post EXCEPT ![p] = NoPost]
  /\ UNCHANGED <<jdt, jhr, jdx, mark, read, made, marked>>

\* Stats and jamEnsureJhd (the message count and modification counter it writes
\* are not modelled), which ignores its errors; then the number is returned.
WriteJhd(p) ==
  /\ post[p].pc = "writejhd"
  /\ jhdBase' \in {jhdBase, BaseMsg}
  /\ told' = told \union {[num |-> post[p].num, body |-> post[p].body]}
  /\ post' = [post EXCEPT ![p] = NoPost]
  /\ UNCHANGED <<jdt, jhr, jdx, mark, read, made, marked>>

\* A write fails and AppendMsg returns the error, or the process dies: what
\* was written stays, the record under way perhaps in part.  An index record
\* is 8 bytes, a disk takes it whole or not.
AbortAppend(p) ==
  /\ post[p].pc # "idle"
  /\ \E torn \in BOOLEAN :
       /\ jdt' = IF torn /\ post[p].pc = "writetext"
                   THEN WriteAt(jdt, post[p].at, 0) ELSE jdt
       /\ jhr' = IF torn /\ post[p].pc = "writehdr"
                   THEN WriteAt(jhr, post[p].at, JunkHeader) ELSE jhr
  /\ post' = [post EXCEPT ![p] = NoPost]
  /\ UNCHANGED <<jdx, jhdBase, mark, read, made, told, marked>>

-----------------------------------------------------------------------------
\* jamChangeAttr, for a message its caller found in the base before.

\* The mailbox scan (CollectYours), the mailer's scan (ReadJAM) or the message
\* reader came upon a message: its number is all that is kept of it.
PickMessage(m, i, op) ==
  /\ mark[m].pc = "idle"
  /\ Cardinality(marked) < MaxMarks
  /\ Active(i)
  /\ ~Applied(op, jhr[jdx[i]].attr)
  /\ mark' = [mark EXCEPT ![m] = [NoMark EXCEPT !.pc = "find", !.op = op,
                                    !.num = NumberAt(i), !.goal = jdx[i]]]
  /\ UNCHANGED <<files, post, read, made, told, marked>>

\* The header is looked up again and its attribute word read.
ReadAttr(m) ==
  /\ mark[m].pc = "find"
  /\ LET i == FindMsg(mark[m].num) IN
     mark' = [mark EXCEPT ![m] =
                IF i = 0 THEN NoMark
                ELSE [@ EXCEPT !.pc = "write", !.at = jdx[i],
                               !.attr = jhr[jdx[i]].attr]]
  /\ UNCHANGED <<files, post, read, made, told, marked>>

\* Mutant: only the new bit is written.
WriteBit(m) ==
  /\ mark[m].pc = "write"
  /\ jhr' = [jhr EXCEPT ![mark[m].at].attr = Apply(mark[m].op, {})]
  /\ marked' = marked \union {[at |-> mark[m].at, op |-> mark[m].op]}
  /\ mark' = [mark EXCEPT ![m] = NoMark]
  /\ UNCHANGED <<jdt, jdx, jhdBase, post, read, made, told>>

WriteAttr(m) ==
  /\ mark[m].pc = "write"
  /\ jhr' = [jhr EXCEPT ![mark[m].at].attr = Apply(mark[m].op, mark[m].attr)]
  /\ marked' = marked \union {[at |-> mark[m].at, op |-> mark[m].op]}
  /\ mark' = [mark EXCEPT ![m] = NoMark]
  /\ UNCHANGED <<jdt, jdx, jhdBase, post, read, made, told>>

-----------------------------------------------------------------------------
\* ReadMsg and NextActive: the header first, then the text it names.

ReadHeader(r, i) ==
  /\ read[r].pc = "idle"
  /\ i # 0
  /\ read' = [read EXCEPT ![r] = [NoRead EXCEPT !.pc = "text", !.num = NumberAt(i),
                                    !.text = jhr[jdx[i]].text]]
  /\ UNCHANGED <<files, post, mark, made, told, marked>>

ReadMsg(r, num) == ReadHeader(r, FindMsg(num))
NextActive(r, from, forward) == ReadHeader(r, NextSlot(from, forward))

ReadText(r) ==
  /\ read[r].pc = "text"
  /\ read' = [read EXCEPT ![r].pc = "got", ![r].body = BodyOf(read[r].text)]
  /\ UNCHANGED <<files, post, mark, made, told, marked>>

ShowArticle(r) ==
  /\ read[r].pc = "got"
  /\ read' = [read EXCEPT ![r] = NoRead]
  /\ UNCHANGED <<files, post, mark, made, told, marked>>

-----------------------------------------------------------------------------
\* The numbers a reader may ask for.
Numbers == BaseMsg - 1 .. BaseMsg + Len(jdx) + 1

PosterStep(p) ==
  \/ BeginAppend(p) \/ StatText(p) \/ WriteText(p) \/ StatHdr(p) \/ WriteHdr(p)
  \/ StatIdx(p) \/ WriteIdx(p) \/ WriteJhd(p) \/ AbortAppend(p)

MarkerStep(m) ==
  \/ \E i \in DOMAIN jdx, op \in MarkOps : PickMessage(m, i, op)
  \/ ReadAttr(m) \/ WriteAttr(m)

ReaderStep(r) ==
  \/ \E num \in Numbers : ReadMsg(r, num)
  \/ \E from \in Numbers, forward \in BOOLEAN : NextActive(r, from, forward)
  \/ ReadText(r) \/ ShowArticle(r)

Next ==
  \/ \E p \in Posters : PosterStep(p)
  \/ \E m \in Markers : MarkerStep(m)
  \/ \E r \in Readers : ReaderStep(r)

Spec == Init /\ [][Next]_vars

-----------------------------------------------------------------------------
\* Properties.

\* The body of the message in a slot.
BodyAt(i) == BodyOf(jhr[jdx[i]].text)

\* The number AppendMsg returned finds the message it was returned for, from
\* then on, also in a base whose older messages carry a hub's numbers and next
\* to failed posts (AppendMsg's order of writes, jamFindMsg).
PostedReadable == \A t \in told :
  FindMsg(t.num) # 0 /\ BodyAt(FindMsg(t.num)) = t.body

\* A reader is handed the whole text of a message that carries the number it is
\* shown with, never a header whose text is not there yet (articleAt).
ReadersSeeWhole == \A r \in Readers : read[r].pc = "got" =>
  \E i \in DOMAIN jdx : /\ Active(i) /\ NumberAt(i) = read[r].num
                        /\ read[r].body # 0 /\ BodyAt(i) = read[r].body

\* Two messages with one number: a hub's number met a local one.
Ambiguous(num) == \E i, j \in DOMAIN jdx :
  i # j /\ Active(i) /\ Active(j) /\ NumberAt(i) = num /\ NumberAt(j) = num

\* A mark lands on the header its caller had in mind although only its number
\* was kept and the base grew since, unless that number became ambiguous
\* (SetReceived, SetSent and ClearFAttach by way of jamFindMsg).
MarkHitsTarget == \A m \in Markers :
  /\ mark[m].pc = "find" => FindMsg(mark[m].num) # 0
  /\ mark[m].pc = "write" => mark[m].at = mark[m].goal \/ Ambiguous(mark[m].num)

\* A mark once made is there for good: the posts appended after it and the
\* other marks leave it alone (jamChangeAttr with one marker at work).
MarksStick == \A k \in marked : Applied(k.op, jhr[k.at].attr)

\* The refinement: whatever happens to the four files, the base is a board on
\* which whole messages appear one after the other under the numbers told.
BoardBar == [i \in DOMAIN jdx |-> IF jdx[i] = 0 THEN 0 ELSE BodyAt(i)]
Board == INSTANCE MessageBoard
           WITH Bodies <- 1 .. MaxPosts, first <- BaseMsg, board <- BoardBar
IsABoard == Board!BoardSpec
=============================================================================
