---------------------------- MODULE JamBaseProofs -----------------------------
(***************************************************************************)
(* For any old bases, markers, readers and bounds, and one poster: what    *)
(* AppendMsg returned leads to the message for good, readers see whole     *)
(* messages, marks land where they should, and the four files are a board  *)
(* as MessageBoard describes it.  Two posters break this (finding 2).      *)
(***************************************************************************)
EXTENDS JamBase, SequenceTheorems, WellFoundedInduction, TLAPS

OnePoster == \A p, q \in Posters : p = q
OneMarker == \A m, n \in Markers : m = n

AppendPcs == {"idle", "stattext", "writetext", "stathdr", "writehdr", "statidx",
              "writeidx", "writejhd"}
PostCalls == [pc : AppendPcs, num : Nat, body : Nat, text : Nat, loc : Nat, at : Nat,
              attr : SUBSET Bits]
MarkCalls == [pc : {"idle", "find", "write"}, op : MarkOps, num : Nat, goal : Nat, at : Nat,
              attr : SUBSET Bits]
ReadCalls == [pc : {"idle", "text", "got"}, num : Nat, text : Nat, body : Nat]

TypeOK ==
  /\ jdt \in Seq(Nat) /\ jhr \in Seq(Header) /\ jdx \in Seq(Nat) /\ jhdBase \in Nat
  /\ post \in [Posters -> PostCalls]
  /\ mark \in [Markers -> MarkCalls]
  /\ read \in [Readers -> ReadCalls]
  /\ made \in 0 .. MaxPosts
  /\ told \in SUBSET [num : Nat, body : Nat]
  /\ marked \in SUBSET [at : Nat, op : MarkOps]

\* Offsets point at what is there, a header that is not deleted has its text, and the bodies
\* in use are those of the old messages and those posted so far.
FilesInv ==
  /\ \A i \in DOMAIN jdx : jdx[i] <= Len(jhr)
  /\ \A k \in DOMAIN jhr : jhr[k].text <= Len(jdt)
  /\ \A k \in DOMAIN jhr : "deleted" \notin jhr[k].attr => BodyOf(jhr[k].text) # 0
  /\ \A k \in DOMAIN jdt : jdt[k] <= made \/ jdt[k] > MaxPosts

\* A message with this number that is not deleted, by its header.
Numbered(num, at) == \E i \in DOMAIN jdx : Active(i) /\ NumberAt(i) = num /\ jdx[i] = at

\* A call of AppendMsg knows where the files end, what it has written is there,
\* and its body is not on the board before its index record is.
PostInv(p) ==
  LET c == post[p]
      n == Len(jdx)
  IN /\ c.pc # "idle" => c.body = made /\ made > 0 /\ "deleted" \notin c.attr
     /\ c.pc \notin {"idle", "writejhd"} =>
          /\ c.num = BaseMsg + n
          /\ \A i \in DOMAIN jdx : BoardBar[i] # c.body
     /\ c.pc = "writetext" => c.at = Len(jdt) + 1
     /\ c.pc = "writehdr" => c.at = Len(jhr) + 1
     /\ c.pc = "writeidx" => c.at = Len(jdx) + 1
     /\ c.pc \in {"stathdr", "writehdr"} => c.text \in DOMAIN jdt /\ jdt[c.text] = c.body
     /\ c.pc \in {"statidx", "writeidx"} =>
          /\ c.loc \in DOMAIN jhr
          /\ jhr[c.loc].num = c.num /\ "deleted" \notin jhr[c.loc].attr
          /\ BodyOf(jhr[c.loc].text) = c.body
     /\ c.pc = "writejhd" => n > 0 /\ c.num = BaseMsg + n - 1 /\ Active(n) /\ NumberAt(n) = c.num
                                   /\ BodyAt(n) = c.body

\* A number that was returned is that of its slot.
ToldInv == \A t \in told :
  LET i == t.num - BaseMsg + 1
  IN Active(i) /\ NumberAt(i) = t.num /\ BodyAt(i) = t.body

\* What a reader has of a message is still there.
ReadInv(r) ==
  /\ read[r].pc = "text" =>
       \E i \in DOMAIN jdx : /\ Active(i) /\ NumberAt(i) = read[r].num
                             /\ jhr[jdx[i]].text = read[r].text
  /\ read[r].pc = "got" =>
       \E i \in DOMAIN jdx : /\ Active(i) /\ NumberAt(i) = read[r].num
                             /\ read[r].body # 0 /\ BodyAt(i) = read[r].body

\* The header that was meant and the one that was found have the number.
MarkInv(m) ==
  LET k == mark[m] IN
  /\ k.pc # "idle" => Numbered(k.num, k.goal)
  /\ k.pc = "write" => Numbered(k.num, k.at) /\ "deleted" \notin k.attr

IInv ==
  /\ TypeOK /\ FilesInv /\ ToldInv
  /\ \A p \in Posters : PostInv(p)
  /\ \A r \in Readers : ReadInv(r)
  /\ \A m \in Markers : MarkInv(m)

\* With one marker what it read of a header is what the header says.
StickInv ==
  /\ \A m \in Markers : mark[m].pc = "write" => jhr[mark[m].at].attr = mark[m].attr
  /\ \A k \in marked : k.at \in DOMAIN jhr /\ Applied(k.op, jhr[k.at].attr)

-----------------------------------------------------------------------------
\* A nonempty set of numbers has a least one, hence one bounded above has a greatest.
LEMMA LeastNat ==
  ASSUME NEW S \in SUBSET Nat, S # {}
  PROVE  \E n \in S : \A m \in S : n <= m
<1> DEFINE R == OpToRel(<, Nat)
<1>1. PICK n \in S : \A m \in S : ~(<<m, n>> \in R)
  BY NatLessThanWellFounded, WFMin
<1>2. ASSUME NEW m \in S PROVE ~(m < n)
  <2>1. m \in Nat /\ n \in Nat
    OBVIOUS
  <2>2. <<m, n>> \in Nat \X Nat /\ <<m, n>>[1] = m /\ <<m, n>>[2] = n
    BY <2>1
  <2>. QED BY <1>1, <1>2, <2>2, Zenon DEF OpToRel
<1> HIDE DEF R
<1>. QED BY <1>2

LEMMA FirstLemma ==
  ASSUME NEW S \in SUBSET Nat, S # {}
  PROVE  First(S) \in S
<1>1. \E n \in S : \A m \in S : n <= m
  BY LeastNat
<1>. QED BY <1>1, Zenon DEF First

LEMMA LastLemma ==
  ASSUME NEW n \in Nat, NEW S \in SUBSET (1 .. n), S # {}
  PROVE  Last(S) \in S
<1> DEFINE T == {n - i : i \in S}
<1>1. T \in SUBSET Nat /\ T # {}
  <2>1. \A i \in S : n - i \in Nat
    OBVIOUS
  <2>2. PICK i \in S : TRUE
    OBVIOUS
  <2>3. n - i \in T
    OBVIOUS
  <2>. QED BY <2>1, <2>3
<1>2. PICK k \in T : \A m \in T : k <= m
  BY <1>1, LeastNat
<1>3. PICK i \in S : k = n - i
  BY <1>2
<1>4. \A j \in S : i >= j
  <2> TAKE j \in S
  <2>1. n - j \in T
    OBVIOUS
  <2>. QED BY <1>2, <1>3, <2>1
<1>. QED BY <1>4, Zenon DEF Last

\* jamFindMsg and NextActive stop at a message that is there; jamFindMsg at
\* one with the number asked for, if there is any.
LEMMA FindLemma ==
  ASSUME TypeOK, NEW num
  PROVE  /\ FindMsg(num) # 0 => Matches(FindMsg(num), num)
         /\ \A i : Matches(i, num) => FindMsg(num) # 0
<1> DEFINE found == {i \in DOMAIN jdx : Matches(i, num)}
<1>1. DOMAIN jdx = 1 .. Len(jdx) /\ Len(jdx) \in Nat
  BY DEF TypeOK
<1>2. found # {} => First(found) \in found
  <2>1. found \in SUBSET Nat
    BY <1>1
  <2> HIDE DEF found
  <2>. QED BY <2>1, FirstLemma
<1>3. \A i : Matches(i, num) => i \in DOMAIN jdx
  BY DEF Matches, Active
<1>4. FindMsg(num) = IF Matches(num - BaseMsg + 1, num) THEN num - BaseMsg + 1
                     ELSE IF found = {} THEN 0 ELSE First(found)
  BY DEF FindMsg
<1> HIDE DEF found
<1>5. found # {} => Matches(First(found), num) /\ First(found) # 0
  BY <1>1, <1>2 DEF found
<1>6. \A i : Matches(i, num) => found # {} /\ i # 0
  BY <1>1, <1>3 DEF found
<1>. QED BY <1>4, <1>5, <1>6

LEMMA NextLemma ==
  ASSUME TypeOK, NEW asked, NEW forward \in BOOLEAN
  PROVE  NextSlot(asked, forward) # 0 => Active(NextSlot(asked, forward))
<1> DEFINE from == IF asked < 1 THEN 1 ELSE asked
           start == from - BaseMsg + 1
           inside == start \in DOMAIN jdx
           ahead == {i \in DOMAIN jdx : Active(i) /\ NumberAt(i) >= from}
           behind == {i \in DOMAIN jdx : Active(i) /\ (from <= 1 \/ NumberAt(i) <= from)}
           near == IF forward THEN {i \in ahead : ~inside \/ i >= start}
                   ELSE {i \in behind : ~inside \/ i <= start}
<1>1. DOMAIN jdx = 1 .. Len(jdx) /\ Len(jdx) \in Nat
  BY DEF TypeOK
<1>2. /\ near \in SUBSET (1 .. Len(jdx)) /\ \A i \in near : Active(i)
      /\ ahead \in SUBSET (1 .. Len(jdx)) /\ \A i \in ahead : Active(i)
  BY <1>1
<1>3. NextSlot(asked, forward) = IF forward
         THEN IF near # {} THEN First(near) ELSE IF ahead # {} THEN First(ahead) ELSE 0
         ELSE IF near # {} THEN Last(near) ELSE 0
  BY DEF NextSlot
<1> HIDE DEF near, ahead
<1>4. \A S \in SUBSET (1 .. Len(jdx)) : S # {} => First(S) \in S /\ Last(S) \in S
  <2> SUFFICES ASSUME NEW S \in SUBSET (1 .. Len(jdx)), S # {}
               PROVE  First(S) \in S /\ Last(S) \in S
    OBVIOUS
  <2>1. S \in SUBSET Nat
    BY <1>1
  <2>. QED BY <1>1, <2>1, FirstLemma, LastLemma
<1>5. /\ near # {} => First(near) \in near /\ Last(near) \in near
      /\ ahead # {} => First(ahead) \in ahead
  BY <1>2, <1>4
<1>. QED BY <1>2, <1>3, <1>5

\* Numbers are positive.
LEMMA BaseLemma ==
  ASSUME TypeOK
  PROVE  BaseMsg \in Nat \ {0}
BY DEF TypeOK, BaseMsg

LEMMA NumberLemma ==
  ASSUME TypeOK, NEW i, Active(i)
  PROVE  /\ i \in 1 .. Len(jdx) /\ jdx[i] \in 1 .. Len(jhr)
         /\ jhr[jdx[i]] \in Header
         /\ NumberAt(i) \in Nat \ {0}
<1>1. i \in 1 .. Len(jdx) /\ jdx[i] \in 1 .. Len(jhr) /\ jhr[jdx[i]] \in Header
  BY DEF Active, TypeOK
<1>2. jhr[jdx[i]].num \in Nat
  BY <1>1 DEF Header
<1>. QED BY <1>1, <1>2, BaseLemma DEF NumberAt

-----------------------------------------------------------------------------
\* What every step does to the files: they grow, a header keeps its number and
\* its text and is not deleted, and the numbering stays.
Grows ==
  /\ BaseMsg' = BaseMsg
  /\ Len(jdt) <= Len(jdt') /\ \A k \in DOMAIN jdt : jdt'[k] = jdt[k]
  /\ Len(jdx) <= Len(jdx') /\ \A i \in DOMAIN jdx : jdx'[i] = jdx[i]
  /\ Len(jhr) <= Len(jhr')
  /\ \A k \in DOMAIN jhr : /\ jhr'[k].num = jhr[k].num /\ jhr'[k].text = jhr[k].text
                           /\ "deleted" \in jhr'[k].attr <=> "deleted" \in jhr[k].attr

LEMMA BodyKept ==
  ASSUME TypeOK, TypeOK', FilesInv, Grows, NEW k \in DOMAIN jhr
  PROVE  /\ k \in DOMAIN jhr'
         /\ BodyOf(jhr[k].text) = IF jhr'[k].text \in DOMAIN jdt'
                                    THEN jdt'[jhr'[k].text] ELSE 0
<1>1. k \in 1 .. Len(jhr) /\ DOMAIN jhr' = 1 .. Len(jhr') /\ jhr[k] \in Header
  BY DEF TypeOK
<1>2. jhr'[k].text = jhr[k].text /\ jhr[k].text \in Nat /\ jhr[k].text <= Len(jdt)
  BY <1>1 DEF Grows, FilesInv, Header
<1>3. DOMAIN jdt = 1 .. Len(jdt) /\ DOMAIN jdt' = 1 .. Len(jdt') /\ Len(jdt) \in Nat
      /\ Len(jdt') \in Nat /\ Len(jhr) \in Nat /\ Len(jhr') \in Nat
  BY DEF TypeOK
<1>4. jhr[k].text \in DOMAIN jdt' <=> jhr[k].text \in DOMAIN jdt
  BY <1>2, <1>3 DEF Grows
<1>5. k \in DOMAIN jhr'
  BY <1>1, <1>3 DEF Grows
<1>6. jhr[k].text \in DOMAIN jdt => jdt'[jhr[k].text] = jdt[jhr[k].text]
  BY DEF Grows
<1>. QED BY <1>2, <1>4, <1>5, <1>6 DEF BodyOf

\* A message that is there stays there, with its number and its body.
LEMMA ActiveKept ==
  ASSUME TypeOK, TypeOK', FilesInv, Grows, NEW i, Active(i)
  PROVE  /\ i \in DOMAIN jdx /\ i \in DOMAIN jdx' /\ jdx'[i] = jdx[i]
         /\ jdx[i] \in DOMAIN jhr /\ jdx[i] \in DOMAIN jhr'
         /\ Active(i)'
         /\ NumberAt(i)' = NumberAt(i)
         /\ jhr'[jdx'[i]].text = jhr[jdx[i]].text
         /\ BodyAt(i)' = BodyAt(i)
<1>1. i \in DOMAIN jdx /\ jdx[i] \in DOMAIN jhr
  BY DEF Active
<1>2. DOMAIN jdx = 1 .. Len(jdx) /\ DOMAIN jdx' = 1 .. Len(jdx')
      /\ Len(jdx) \in Nat /\ Len(jdx') \in Nat
  BY DEF TypeOK
<1>3. i \in DOMAIN jdx /\ i \in DOMAIN jdx' /\ jdx'[i] = jdx[i]
  BY <1>1, <1>2 DEF Grows
<1>4. /\ jdx[i] \in DOMAIN jhr'
      /\ BodyOf(jhr[jdx[i]].text) = IF jhr'[jdx[i]].text \in DOMAIN jdt'
                                      THEN jdt'[jhr'[jdx[i]].text] ELSE 0
  BY <1>1, BodyKept
<1>5. /\ jhr'[jdx[i]].num = jhr[jdx[i]].num /\ jhr'[jdx[i]].text = jhr[jdx[i]].text
      /\ "deleted" \notin jhr'[jdx[i]].attr
  BY <1>1 DEF Grows, Active
<1>6. Active(i)'
  BY <1>3, <1>4, <1>5 DEF Active
<1>7. NumberAt(i)' = NumberAt(i)
  BY <1>3, <1>5 DEF NumberAt, Grows
<1>8. BodyAt(i)' = IF jhr'[jdx[i]].text \in DOMAIN jdt' THEN jdt'[jhr'[jdx[i]].text] ELSE 0
  BY <1>3 DEF BodyAt, BodyOf
<1>. QED BY <1>1, <1>3, <1>4, <1>5, <1>6, <1>7, <1>8 DEF BodyAt

\* The board keeps what it has.
LEMMA BoardKept ==
  ASSUME TypeOK, TypeOK', FilesInv, Grows
  PROVE  \A i \in DOMAIN jdx : i \in DOMAIN jdx' /\ BoardBar'[i] = BoardBar[i]
<1> SUFFICES ASSUME NEW i \in DOMAIN jdx
             PROVE  i \in DOMAIN jdx' /\ BoardBar'[i] = BoardBar[i]
  OBVIOUS
<1>1. DOMAIN jdx = 1 .. Len(jdx) /\ DOMAIN jdx' = 1 .. Len(jdx')
      /\ Len(jdx) \in Nat /\ Len(jdx') \in Nat
  BY DEF TypeOK
<1>2. i \in DOMAIN jdx' /\ jdx'[i] = jdx[i] /\ jdx[i] \in Nat
  <2>1. Len(jdx) <= Len(jdx') /\ jdx'[i] = jdx[i]
    BY DEF Grows
  <2>2. jdx[i] \in Nat
    BY DEF TypeOK
  <2>. QED BY <1>1, <2>1, <2>2
<1>3. /\ BoardBar[i] = IF jdx[i] = 0 THEN 0 ELSE BodyAt(i)
      /\ BoardBar'[i] = IF jdx[i] = 0 THEN 0 ELSE BodyAt(i)'
  BY <1>2 DEF BoardBar
<1>4. CASE jdx[i] = 0
  BY <1>2, <1>3, <1>4
<1>5. CASE jdx[i] # 0
  <2>1. jdx[i] \in DOMAIN jhr
    BY <1>2, <1>5 DEF TypeOK, FilesInv
  <2>2. BodyAt(i) = IF jhr'[jdx[i]].text \in DOMAIN jdt' THEN jdt'[jhr'[jdx[i]].text] ELSE 0
    BY <2>1, BodyKept DEF BodyAt
  <2>3. BodyAt(i)' = IF jhr'[jdx[i]].text \in DOMAIN jdt' THEN jdt'[jhr'[jdx[i]].text] ELSE 0
    BY <1>2 DEF BodyAt, BodyOf
  <2>. QED BY <1>2, <1>3, <1>5, <2>2, <2>3
<1>. QED BY <1>4, <1>5

\* The parts of the invariant that speak of what a call has found survive every
\* step that leaves that call alone.
LEMMA ToldKept ==
  ASSUME TypeOK, TypeOK', FilesInv, Grows, ToldInv, NEW t \in told,
         NEW i, i = t.num - BaseMsg + 1
  PROVE  Active(i)' /\ NumberAt(i)' = t.num /\ BodyAt(i)' = t.body
<1>1. Active(i) /\ NumberAt(i) = t.num /\ BodyAt(i) = t.body
  BY DEF ToldInv
<1>. QED BY <1>1, ActiveKept

LEMMA ToldFrame ==
  ASSUME TypeOK, TypeOK', FilesInv, Grows, ToldInv, told' = told
  PROVE  ToldInv'
BY ToldKept DEF ToldInv, Grows

LEMMA ReadFrame ==
  ASSUME TypeOK, TypeOK', FilesInv, Grows, NEW r, ReadInv(r), read'[r] = read[r]
  PROVE  ReadInv(r)'
<1>1. CASE read[r].pc = "text"
  <2>1. PICK i \in DOMAIN jdx : /\ Active(i) /\ NumberAt(i) = read[r].num
                                /\ jhr[jdx[i]].text = read[r].text
    BY <1>1 DEF ReadInv
  <2>2. i \in DOMAIN jdx' /\ Active(i)' /\ NumberAt(i)' = read[r].num
        /\ jhr'[jdx'[i]].text = read[r].text
    BY <2>1, ActiveKept
  <2>. QED BY <1>1, <2>2 DEF ReadInv
<1>2. CASE read[r].pc = "got"
  <2>1. PICK i \in DOMAIN jdx : /\ Active(i) /\ NumberAt(i) = read[r].num
                                /\ read[r].body # 0 /\ BodyAt(i) = read[r].body
    BY <1>2 DEF ReadInv
  <2>2. i \in DOMAIN jdx' /\ Active(i)' /\ NumberAt(i)' = read[r].num /\ BodyAt(i)' = read[r].body
    BY <2>1, ActiveKept
  <2>. QED BY <1>2, <2>1, <2>2 DEF ReadInv
<1>. QED BY <1>1, <1>2 DEF ReadInv

LEMMA NumberedKept ==
  ASSUME TypeOK, TypeOK', FilesInv, Grows, NEW num, NEW at, Numbered(num, at)
  PROVE  Numbered(num, at)'
<1>1. PICK i \in DOMAIN jdx : Active(i) /\ NumberAt(i) = num /\ jdx[i] = at
  BY DEF Numbered
<1>2. i \in DOMAIN jdx' /\ Active(i)' /\ NumberAt(i)' = num /\ jdx'[i] = at
  BY <1>1, ActiveKept
<1>. QED BY <1>2 DEF Numbered

LEMMA MarkFrame ==
  ASSUME TypeOK, TypeOK', FilesInv, Grows, NEW m, MarkInv(m), mark'[m] = mark[m]
  PROVE  MarkInv(m)'
<1>1. \A num, at : Numbered(num, at) => Numbered(num, at)'
  BY NumberedKept
<1>. QED BY <1>1 DEF MarkInv

\* A call of AppendMsg that waits while others work on what is there.
LEMMA PostFrame ==
  ASSUME TypeOK, TypeOK', FilesInv, Grows, made' = made,
         Len(jdt') = Len(jdt), Len(jhr') = Len(jhr), jdx' = jdx,
         NEW p \in Posters, PostInv(p), post'[p] = post[p]
  PROVE  PostInv(p)'
<1> DEFINE c == post[p]
<1>1. \A i \in DOMAIN jdx : i \in DOMAIN jdx' /\ BoardBar'[i] = BoardBar[i]
  BY BoardKept
<1>2. /\ c.pc # "idle" => c.body = made' /\ made' > 0 /\ "deleted" \notin c.attr
      /\ c.pc \notin {"idle", "writejhd"} =>
           /\ c.num = BaseMsg' + Len(jdx')
           /\ \A i \in DOMAIN jdx' : BoardBar'[i] # c.body
      /\ c.pc = "writetext" => c.at = Len(jdt') + 1
      /\ c.pc = "writehdr" => c.at = Len(jhr') + 1
      /\ c.pc = "writeidx" => c.at = Len(jdx') + 1
  BY <1>1 DEF PostInv, Grows
<1>3. c.pc \in {"stathdr", "writehdr"} => c.text \in DOMAIN jdt' /\ jdt'[c.text] = c.body
  <2>1. DOMAIN jdt = 1 .. Len(jdt) /\ DOMAIN jdt' = 1 .. Len(jdt')
    BY DEF TypeOK
  <2>. QED BY <2>1 DEF PostInv, Grows
<1>4. c.pc \in {"statidx", "writeidx"} =>
        /\ c.loc \in DOMAIN jhr'
        /\ jhr'[c.loc].num = c.num /\ "deleted" \notin jhr'[c.loc].attr
        /\ (IF jhr'[c.loc].text \in DOMAIN jdt' THEN jdt'[jhr'[c.loc].text] ELSE 0) = c.body
  <2> SUFFICES ASSUME c.pc \in {"statidx", "writeidx"}, NEW k, k = c.loc
               PROVE  /\ k \in DOMAIN jhr'
                      /\ jhr'[k].num = c.num /\ "deleted" \notin jhr'[k].attr
                      /\ (IF jhr'[k].text \in DOMAIN jdt' THEN jdt'[jhr'[k].text] ELSE 0) = c.body
    OBVIOUS
  <2>1. /\ k \in DOMAIN jhr
        /\ jhr[k].num = c.num /\ "deleted" \notin jhr[k].attr
        /\ BodyOf(jhr[k].text) = c.body
    BY DEF PostInv
  <2>2. /\ k \in DOMAIN jhr'
        /\ BodyOf(jhr[k].text) = IF jhr'[k].text \in DOMAIN jdt'
                                   THEN jdt'[jhr'[k].text] ELSE 0
    BY <2>1, BodyKept
  <2>. QED BY <2>1, <2>2 DEF Grows
<1>5. c.pc = "writejhd" => /\ Len(jdx) > 0 /\ c.num = BaseMsg' + Len(jdx) - 1
                           /\ \A n : n = Len(jdx) => Active(n)' /\ NumberAt(n)' = c.num
                                                     /\ BodyAt(n)' = c.body
  <2> SUFFICES ASSUME c.pc = "writejhd", NEW n, n = Len(jdx)
               PROVE  /\ n > 0 /\ c.num = BaseMsg' + n - 1
                      /\ Active(n)' /\ NumberAt(n)' = c.num /\ BodyAt(n)' = c.body
    BY DEF PostInv, Grows
  <2>1. /\ n > 0 /\ c.num = BaseMsg + n - 1
        /\ Active(n) /\ NumberAt(n) = c.num /\ BodyAt(n) = c.body
    BY DEF PostInv
  <2>. QED BY <2>1, ActiveKept DEF Grows
<1>. QED BY <1>2, <1>3, <1>4, <1>5 DEF PostInv, BodyOf

-----------------------------------------------------------------------------
\* The invariant of all but the posters, for every step in which the files grow.
Rest == ToldInv /\ (\A r \in Readers : ReadInv(r)) /\ (\A m \in Markers : MarkInv(m))

LEMMA RestFrame ==
  ASSUME TypeOK, TypeOK', FilesInv, Grows, Rest, UNCHANGED <<told, read, mark>>
  PROVE  Rest'
<1>1. ToldInv'
  BY ToldFrame DEF Rest
<1>2. \A r \in Readers : ReadInv(r)'
  BY ReadFrame DEF Rest
<1>3. \A m \in Markers : MarkInv(m)'
  BY MarkFrame DEF Rest
<1>. QED BY <1>1, <1>2, <1>3 DEF Rest

\* BeginAppend, the Stats and the shows leave the files alone.
LEMMA GrowsStill ==
  ASSUME TypeOK, UNCHANGED <<jdt, jhr, jdx, BaseMsg>>
  PROVE  Grows
BY DEF Grows, TypeOK

LEMMA Sizes ==
  ASSUME TypeOK
  PROVE  /\ Len(jdt) \in Nat /\ Len(jhr) \in Nat /\ Len(jdx) \in Nat
         /\ DOMAIN jdt = 1 .. Len(jdt) /\ DOMAIN jhr = 1 .. Len(jhr) /\ DOMAIN jdx = 1 .. Len(jdx)
         /\ BaseMsg \in Nat \ {0} /\ made \in Nat /\ made <= MaxPosts
BY BaseLemma, BaseAssumption DEF TypeOK

LEMMA PostSet ==
  ASSUME TypeOK, NEW p \in Posters, NEW c \in PostCalls, post' = [post EXCEPT ![p] = c]
  PROVE  post'[p] = c /\ post' \in [Posters -> PostCalls]
BY DEF TypeOK

LEMMA BeginStep ==
  ASSUME OnePoster, TypeOK, FilesInv, NEW p \in Posters, PostInv(p), BeginAppend(p)
  PROVE  TypeOK' /\ Grows /\ FilesInv' /\ \A q \in Posters : PostInv(q)'
<1> DEFINE c == [NoPost EXCEPT !.pc = "stattext", !.num = BaseMsg + Len(jdx),
                               !.body = made + 1, !.attr = {"fattach"}]
<1>1. /\ made < MaxPosts /\ made' = made + 1 /\ post' = [post EXCEPT ![p] = c]
      /\ UNCHANGED <<jdt, jhr, jdx, jhdBase, mark, read, told, marked>>
  BY DEF BeginAppend, files
<1>2. /\ c \in PostCalls /\ c.pc = "stattext" /\ c.num = BaseMsg + Len(jdx)
      /\ c.body = made + 1 /\ c.attr = {"fattach"}
  <2>1. BaseMsg + Len(jdx) \in Nat /\ made + 1 \in Nat
    BY Sizes
  <2>2. "stattext" \in AppendPcs /\ {"fattach"} \in SUBSET Bits
    BY DEF AppendPcs, Bits
  <2>. QED BY <2>1, <2>2 DEF PostCalls, NoPost
<1>3. BaseMsg' = BaseMsg
  BY <1>1 DEF BaseMsg
<1>4. Grows
  BY <1>1, <1>3, GrowsStill
<1> HIDE DEF c
<1>5. post'[p] = c /\ post' \in [Posters -> PostCalls]
  BY <1>1, <1>2, PostSet
<1>6. TypeOK'
  <2>1. made' \in 0 .. MaxPosts
    BY <1>1, Sizes, BaseAssumption
  <2>. QED BY <1>1, <1>5, <2>1 DEF TypeOK
<1>7. FilesInv'
  BY <1>1, Sizes DEF FilesInv, BodyOf, TypeOK
<1>8. ASSUME NEW i \in DOMAIN jdx PROVE BoardBar[i] # made + 1
  <2>1. BoardBar[i] = 0 \/ \E k \in DOMAIN jdt : BoardBar[i] = jdt[k]
    <3>1. BoardBar[i] = IF jdx[i] = 0 THEN 0 ELSE BodyAt(i)
      BY DEF BoardBar
    <3>2. BodyAt(i) = 0 \/ \E k \in DOMAIN jdt : BodyAt(i) = jdt[k]
      <4> DEFINE k == jhr[jdx[i]].text
      <4>1. BodyAt(i) = IF k \in DOMAIN jdt THEN jdt[k] ELSE 0
        BY DEF BodyAt, BodyOf
      <4> HIDE DEF k
      <4>. QED BY <4>1
    <3>. QED BY <3>1, <3>2
  <2>2. \A k \in DOMAIN jdt : jdt[k] # made + 1
    <3>1. ASSUME NEW k \in DOMAIN jdt PROVE jdt[k] # made + 1
      <4>1. jdt[k] <= made \/ jdt[k] > MaxPosts
        BY DEF FilesInv
      <4>2. jdt[k] \in Nat
        BY DEF TypeOK
      <4>. QED BY <1>1, <4>1, <4>2, Sizes, BaseAssumption
    <3>. QED BY <3>1
  <2>. QED BY <2>1, <2>2, Sizes
<1>9. BoardBar' = BoardBar
  BY <1>1 DEF BoardBar, BodyAt, BodyOf
<1>10. PostInv(p)'
  BY <1>1, <1>2, <1>3, <1>5, <1>8, <1>9, Sizes DEF PostInv
<1>. QED BY <1>4, <1>6, <1>7, <1>10 DEF OnePoster

\* What a Stat or a failed write does to its own call.
LEMMA StillStep ==
  ASSUME TypeOK, FilesInv, UNCHANGED <<jdt, jhr, jdx, jhdBase, made>>
  PROVE  /\ Grows /\ FilesInv' /\ BoardBar' = BoardBar /\ BaseMsg' = BaseMsg
         /\ \A i : Active(i)' = Active(i) /\ NumberAt(i)' = NumberAt(i) /\ BodyAt(i)' = BodyAt(i)
<1>1. BaseMsg' = BaseMsg
  BY DEF BaseMsg
<1>2. Grows
  BY <1>1, GrowsStill
<1>3. FilesInv'
  BY DEF FilesInv, BodyOf
<1>4. BoardBar' = BoardBar
  BY DEF BoardBar, BodyAt, BodyOf
<1>5. \A i : Active(i)' = Active(i) /\ NumberAt(i)' = NumberAt(i) /\ BodyAt(i)' = BodyAt(i)
  BY <1>1 DEF Active, NumberAt, BodyAt, BodyOf
<1>. QED BY <1>1, <1>2, <1>3, <1>4, <1>5

\* What the files' invariant says of a header stays true of it.
LEMMA HeadersKept ==
  ASSUME TypeOK, TypeOK', FilesInv, Grows
  PROVE  \A k \in DOMAIN jhr : /\ jhr'[k].text <= Len(jdt')
                               /\ "deleted" \notin jhr'[k].attr => BodyOf(jhr[k].text)' # 0
<1> SUFFICES ASSUME NEW k \in DOMAIN jhr
             PROVE  /\ jhr'[k].text <= Len(jdt')
                    /\ "deleted" \notin jhr'[k].attr => BodyOf(jhr[k].text)' # 0
  OBVIOUS
<1>1. /\ jhr'[k].text = jhr[k].text /\ jhr[k] \in Header /\ jhr[k].text <= Len(jdt)
      /\ "deleted" \notin jhr'[k].attr => BodyOf(jhr[k].text) # 0
  <2>1. jhr[k] \in Header
    BY DEF TypeOK
  <2>. QED BY <2>1 DEF Grows, FilesInv
<1>2. jhr[k].text \in Nat
  BY <1>1 DEF Header
<1>3. jhr'[k].text <= Len(jdt')
  <2>1. Len(jdt) \in Nat /\ Len(jdt') \in Nat
    BY DEF TypeOK
  <2>. QED BY <1>1, <1>2, <2>1 DEF Grows
<1>4. BodyOf(jhr[k].text) = IF jhr'[k].text \in DOMAIN jdt' THEN jdt'[jhr'[k].text] ELSE 0
  BY BodyKept
<1>. QED BY <1>1, <1>3, <1>4 DEF BodyOf

LEMMA StatStep ==
  ASSUME OnePoster, TypeOK, FilesInv, NEW p \in Posters, PostInv(p),
         StatText(p) \/ StatHdr(p) \/ StatIdx(p)
  PROVE  TypeOK' /\ Grows /\ FilesInv' /\ \A q \in Posters : PostInv(q)'
<1>1. UNCHANGED <<jdt, jhr, jdx, jhdBase, mark, read, made, told, marked>>
  BY DEF StatText, StatHdr, StatIdx, StatEnd, files
<1>2. Len(jdt) + 1 \in Nat /\ Len(jhr) + 1 \in Nat /\ Len(jdx) + 1 \in Nat
  BY Sizes
<1>3. "writetext" \in AppendPcs /\ "writehdr" \in AppendPcs /\ "writeidx" \in AppendPcs
  BY DEF AppendPcs
<1>4. /\ Grows /\ FilesInv' /\ BoardBar' = BoardBar /\ BaseMsg' = BaseMsg
  BY <1>1, StillStep
<1>9. post \in [Posters -> PostCalls]
  BY DEF TypeOK
<1>5. CASE StatText(p)
  <2>1. post[p].pc = "stattext"
        /\ post' = [post EXCEPT ![p].pc = "writetext", ![p].at = Len(jdt) + 1]
    BY <1>5 DEF StatText, StatEnd
  <2>2. /\ post' \in [Posters -> PostCalls]
        /\ post'[p].pc = "writetext" /\ post'[p].at = Len(jdt) + 1
        /\ post'[p].num = post[p].num /\ post'[p].body = post[p].body
        /\ post'[p].attr = post[p].attr
    BY <1>2, <1>3, <1>9, <2>1 DEF PostCalls
  <2>3. TypeOK'
    BY <1>1, <2>2 DEF TypeOK
  <2>4. PostInv(p)'
    BY <1>1, <1>4, <2>1, <2>2 DEF PostInv, BodyOf
  <2>. QED BY <1>4, <2>3, <2>4 DEF OnePoster
<1>6. CASE StatHdr(p)
  <2>1. post[p].pc = "stathdr"
        /\ post' = [post EXCEPT ![p].pc = "writehdr", ![p].at = Len(jhr) + 1]
    BY <1>6 DEF StatHdr, StatEnd
  <2>2. /\ post' \in [Posters -> PostCalls]
        /\ post'[p].pc = "writehdr" /\ post'[p].at = Len(jhr) + 1
        /\ post'[p].num = post[p].num /\ post'[p].body = post[p].body
        /\ post'[p].text = post[p].text /\ post'[p].attr = post[p].attr
    BY <1>2, <1>3, <1>9, <2>1 DEF PostCalls
  <2>3. TypeOK'
    BY <1>1, <2>2 DEF TypeOK
  <2>4. PostInv(p)'
    BY <1>1, <1>4, <2>1, <2>2 DEF PostInv, BodyOf
  <2>. QED BY <1>4, <2>3, <2>4 DEF OnePoster
<1>7. CASE StatIdx(p)
  <2>1. post[p].pc = "statidx"
        /\ post' = [post EXCEPT ![p].pc = "writeidx", ![p].at = Len(jdx) + 1]
    BY <1>7 DEF StatIdx, StatEnd
  <2>2. /\ post' \in [Posters -> PostCalls]
        /\ post'[p].pc = "writeidx" /\ post'[p].at = Len(jdx) + 1
        /\ post'[p].num = post[p].num /\ post'[p].body = post[p].body
        /\ post'[p].loc = post[p].loc /\ post'[p].attr = post[p].attr
    BY <1>2, <1>3, <1>9, <2>1 DEF PostCalls
  <2>3. TypeOK'
    BY <1>1, <2>2 DEF TypeOK
  <2>4. PostInv(p)'
    BY <1>1, <1>4, <2>1, <2>2 DEF PostInv, BodyOf
  <2>. QED BY <1>4, <2>3, <2>4 DEF OnePoster
<1>. QED BY <1>5, <1>6, <1>7

\* Text, header and index record go behind the ends the Stats before them found.
LEMMA TextStep ==
  ASSUME OnePoster, TypeOK, FilesInv, NEW p \in Posters, PostInv(p), WriteText(p)
  PROVE  TypeOK' /\ Grows /\ FilesInv' /\ \A q \in Posters : PostInv(q)'
<1>0. PICK at : at = Len(jdt) + 1
  OBVIOUS
<1>1. /\ post[p].pc = "writetext" /\ post[p].at = at /\ post[p].num = BaseMsg + Len(jdx)
      /\ post[p].body = made /\ made > 0 /\ "deleted" \notin post[p].attr
      /\ \A i \in DOMAIN jdx : BoardBar[i] # made
      /\ jdt' = WriteAt(jdt, at, post[p].body)
      /\ post' = [post EXCEPT ![p].pc = "stathdr", ![p].text = at]
      /\ UNCHANGED <<jhr, jdx, jhdBase, mark, read, made, told, marked>>
  BY <1>0 DEF WriteText, PostInv
<1>2. jdt \in Seq(Nat) /\ made \in Nat /\ at \in Nat
  BY <1>0, Sizes DEF TypeOK
<1>3. /\ jdt' \in Seq(Nat) /\ Len(jdt') = at /\ jdt'[at] = made
      /\ \A k \in DOMAIN jdt : jdt'[k] = jdt[k]
  <2>1. jdt' = Append(jdt, made)
    BY <1>0, <1>1 DEF WriteAt
  <2>. QED BY <1>0, <1>2, <2>1, Sizes
<1>4. /\ post' \in [Posters -> PostCalls] /\ post'[p].pc = "stathdr" /\ post'[p].text = at
      /\ post'[p].num = post[p].num /\ post'[p].body = post[p].body
      /\ post'[p].attr = post[p].attr
  <2>1. post \in [Posters -> PostCalls] /\ "stathdr" \in AppendPcs
    BY DEF TypeOK, AppendPcs
  <2>. QED BY <1>1, <1>2, <2>1 DEF PostCalls
<1>5. TypeOK'
  BY <1>1, <1>3, <1>4 DEF TypeOK
<1>6. BaseMsg' = BaseMsg
  BY <1>1 DEF BaseMsg
<1>7. Grows
  BY <1>0, <1>1, <1>3, <1>6, Sizes DEF Grows
<1>8. FilesInv'
  <2>1. ASSUME NEW k \in DOMAIN jdt' PROVE jdt'[k] <= made' \/ jdt'[k] > MaxPosts
    <3>1. k \in DOMAIN jdt \/ k = at
      BY <1>0, <1>3, Sizes
    <3>. QED BY <1>1, <1>2, <1>3, <3>1 DEF FilesInv
  <2>. QED BY <1>1, <1>5, <1>7, <2>1, HeadersKept DEF FilesInv
<1>9. \A i \in DOMAIN jdx : BoardBar'[i] = BoardBar[i]
  BY <1>5, <1>7, BoardKept
<1>10. at \in DOMAIN jdt'
  BY <1>0, <1>2, <1>3, <1>5, Sizes
<1>11. PostInv(p)'
  BY <1>1, <1>3, <1>4, <1>6, <1>9, <1>10 DEF PostInv
<1>. QED BY <1>5, <1>7, <1>8, <1>11 DEF OnePoster

LEMMA HdrStep ==
  ASSUME OnePoster, TypeOK, FilesInv, NEW p \in Posters, PostInv(p), WriteHdr(p)
  PROVE  TypeOK' /\ Grows /\ FilesInv' /\ \A q \in Posters : PostInv(q)'
<1>0. PICK at : at = Len(jhr) + 1
  OBVIOUS
<1> DEFINE h == [num |-> post[p].num, text |-> post[p].text, attr |-> post[p].attr]
<1>1. /\ post[p].pc = "writehdr" /\ post[p].at = at /\ post[p].num = BaseMsg + Len(jdx)
      /\ post[p].body = made /\ made > 0 /\ "deleted" \notin post[p].attr
      /\ post[p].text \in DOMAIN jdt /\ jdt[post[p].text] = made
      /\ \A i \in DOMAIN jdx : BoardBar[i] # made
      /\ jhr' = WriteAt(jhr, at, h)
      /\ post' = [post EXCEPT ![p].pc = "statidx", ![p].loc = at]
      /\ UNCHANGED <<jdt, jdx, jhdBase, mark, read, made, told, marked>>
  BY <1>0 DEF WriteHdr, PostInv
<1>2. post \in [Posters -> PostCalls] /\ jhr \in Seq(Header) /\ at \in Nat
  BY <1>0, Sizes DEF TypeOK
<1>3. h \in Header /\ h.num = post[p].num /\ h.text = post[p].text /\ h.attr = post[p].attr
  BY <1>2 DEF Header, PostCalls
<1> HIDE DEF h
<1>4. /\ jhr' \in Seq(Header) /\ Len(jhr') = at /\ jhr'[at] = h
      /\ \A k \in DOMAIN jhr : jhr'[k] = jhr[k]
  <2>1. jhr' = Append(jhr, h)
    BY <1>0, <1>1 DEF WriteAt
  <2>. QED BY <1>0, <1>2, <1>3, <2>1, Sizes
<1>5. /\ post' \in [Posters -> PostCalls] /\ post'[p].pc = "statidx" /\ post'[p].loc = at
      /\ post'[p].num = post[p].num /\ post'[p].body = post[p].body
      /\ post'[p].attr = post[p].attr
  <2>1. "statidx" \in AppendPcs
    BY DEF AppendPcs
  <2>. QED BY <1>1, <1>2, <2>1 DEF PostCalls
<1>6. TypeOK'
  BY <1>1, <1>4, <1>5 DEF TypeOK
<1>7. BaseMsg' = BaseMsg
  BY <1>1 DEF BaseMsg
<1>8. Grows
  BY <1>0, <1>1, <1>4, <1>7, Sizes DEF Grows
<1>9. at \in DOMAIN jhr' /\ DOMAIN jhr' = DOMAIN jhr \union {at}
  BY <1>0, <1>2, <1>4, Sizes
<1>10. /\ jhr'[at].text <= Len(jdt') /\ jhr'[at].text \in DOMAIN jdt'
       /\ jdt'[jhr'[at].text] = made
  BY <1>1, <1>3, <1>4, Sizes
<1>11. FilesInv'
  <2>1. \A k \in DOMAIN jhr' : /\ jhr'[k].text <= Len(jdt')
                               /\ "deleted" \notin jhr'[k].attr => BodyOf(jhr[k].text)' # 0
    <3>1. jhr'[at].text <= Len(jdt') /\ BodyOf(jhr[at].text)' # 0
      BY <1>1, <1>10 DEF BodyOf
    <3>. QED BY <1>6, <1>8, <1>9, <3>1, HeadersKept
  <2>2. \A i \in DOMAIN jdx' : jdx'[i] <= Len(jhr')
    <3> SUFFICES ASSUME NEW i \in DOMAIN jdx PROVE jdx[i] <= Len(jhr')
      BY <1>1
    <3>1. jdx[i] \in Nat /\ jdx[i] <= Len(jhr)
      BY DEF TypeOK, FilesInv
    <3>. QED BY <1>0, <1>4, <3>1, Sizes
  <2>. QED BY <1>1, <2>1, <2>2 DEF FilesInv
<1>12. \A i \in DOMAIN jdx : BoardBar'[i] = BoardBar[i]
  BY <1>6, <1>8, BoardKept
<1>13. BodyOf(jhr[at].text)' = made
  BY <1>10 DEF BodyOf
<1>14. PostInv(p)'
  <2>1. \A k : k = post'[p].loc => BodyOf(jhr[k].text)' = made
    BY <1>5, <1>13
  <2>. QED BY <1>1, <1>3, <1>4, <1>5, <1>7, <1>9, <1>10, <1>12 DEF PostInv, BodyOf
<1>. QED BY <1>6, <1>8, <1>11, <1>14 DEF OnePoster

LEMMA IdxStep ==
  ASSUME OnePoster, TypeOK, FilesInv, NEW p \in Posters, PostInv(p), WriteIdx(p)
  PROVE  TypeOK' /\ Grows /\ FilesInv' /\ \A q \in Posters : PostInv(q)'
<1>0. PICK at : at = Len(jdx) + 1
  OBVIOUS
<1>1. PICK loc : loc = post[p].loc
  OBVIOUS
<1>2. /\ post[p].pc = "writeidx" /\ post[p].at = at /\ post[p].num = BaseMsg + Len(jdx)
      /\ post[p].body = made /\ made > 0 /\ "deleted" \notin post[p].attr
      /\ loc \in DOMAIN jhr /\ jhr[loc].num = post[p].num /\ "deleted" \notin jhr[loc].attr
      /\ BodyOf(jhr[loc].text) = made
      /\ jdx' = WriteAt(jdx, at, loc)
      /\ post' = [post EXCEPT ![p].pc = "writejhd"]
      /\ UNCHANGED <<jdt, jhr, jhdBase, mark, read, made, told, marked>>
  BY <1>0, <1>1 DEF WriteIdx, PostInv
<1>3. post \in [Posters -> PostCalls] /\ jdx \in Seq(Nat) /\ at \in Nat /\ loc \in Nat
      /\ loc <= Len(jhr)
  BY <1>0, <1>2, Sizes DEF TypeOK
<1>4. /\ jdx' \in Seq(Nat) /\ Len(jdx') = at /\ jdx'[at] = loc
      /\ \A k \in DOMAIN jdx : jdx'[k] = jdx[k]
  <2>1. jdx' = Append(jdx, loc)
    BY <1>0, <1>2 DEF WriteAt
  <2>. QED BY <1>0, <1>3, <2>1, Sizes
<1>5. /\ post' \in [Posters -> PostCalls] /\ post'[p].pc = "writejhd"
      /\ post'[p].num = post[p].num /\ post'[p].body = post[p].body
      /\ post'[p].attr = post[p].attr
  <2>1. "writejhd" \in AppendPcs
    BY DEF AppendPcs
  <2>. QED BY <1>2, <1>3, <2>1 DEF PostCalls
<1>6. TypeOK'
  BY <1>2, <1>4, <1>5 DEF TypeOK
<1>7. BaseMsg' = BaseMsg
  BY <1>2 DEF BaseMsg
<1>8. Grows
  BY <1>0, <1>2, <1>4, <1>7, Sizes DEF Grows
<1>9. at \in DOMAIN jdx' /\ DOMAIN jdx' = DOMAIN jdx \union {at}
  BY <1>0, <1>3, <1>4, Sizes
<1>10. FilesInv'
  <2>1. \A i \in DOMAIN jdx' : jdx'[i] <= Len(jhr')
    BY <1>2, <1>3, <1>4, <1>9 DEF FilesInv
  <2>. QED BY <1>2, <2>1 DEF FilesInv, BodyOf
<1>11. Active(at)' /\ NumberAt(at)' = post[p].num /\ BodyAt(at)' = made
  <2>1. Active(at)'
    BY <1>2, <1>4, <1>9 DEF Active
  <2>2. NumberAt(at)' = post[p].num
    BY <1>2, <1>4, Sizes DEF NumberAt
  <2>3. BodyAt(at)' = made
    BY <1>2, <1>4 DEF BodyAt, BodyOf
  <2>. QED BY <2>1, <2>2, <2>3
<1>12. PostInv(p)'
  <2>1. \A n : n = Len(jdx') =>
          /\ n > 0 /\ post'[p].num = BaseMsg' + n - 1 /\ Active(n)'
          /\ NumberAt(n)' = post'[p].num /\ BodyAt(n)' = post'[p].body
    BY <1>0, <1>2, <1>4, <1>5, <1>7, <1>11, Sizes
  <2>. QED BY <1>2, <1>5, <2>1 DEF PostInv
<1>. QED BY <1>6, <1>8, <1>10, <1>12 DEF OnePoster

LEMMA IdleOK ==
  /\ NoPost \in PostCalls /\ NoPost.pc = "idle"
  /\ NoMark \in MarkCalls /\ NoMark.pc = "idle"
  /\ NoRead \in ReadCalls /\ NoRead.pc = "idle"
<1>1. "idle" \in AppendPcs /\ "rcvd" \in MarkOps
  BY DEF AppendPcs, MarkOps
<1>. QED BY <1>1 DEF NoPost, NoMark, NoRead, PostCalls, MarkCalls, ReadCalls

\* The number is told when the message is there.
LEMMA JhdStep ==
  ASSUME OnePoster, TypeOK, FilesInv, ToldInv, NEW p \in Posters, PostInv(p), WriteJhd(p)
  PROVE  TypeOK' /\ Grows /\ FilesInv' /\ ToldInv' /\ \A q \in Posters : PostInv(q)'
<1>1. /\ post[p].pc = "writejhd" /\ jhdBase' \in {jhdBase, BaseMsg}
      /\ told' = told \union {[num |-> post[p].num, body |-> post[p].body]}
      /\ post' = [post EXCEPT ![p] = NoPost]
      /\ UNCHANGED <<jdt, jhr, jdx, mark, read, made, marked>>
  BY DEF WriteJhd
<1>2. jhdBase \in Nat /\ BaseMsg \in Nat \ {0} /\ post[p] \in PostCalls
      /\ told \in SUBSET [num : Nat, body : Nat]
  BY Sizes DEF TypeOK
<1>3. BaseMsg' = BaseMsg
  BY <1>1, <1>2 DEF BaseMsg
<1>4. post'[p] = NoPost /\ post' \in [Posters -> PostCalls]
  BY <1>1, IdleOK, PostSet
<1>5. TypeOK'
  <2>1. [num |-> post[p].num, body |-> post[p].body] \in [num : Nat, body : Nat]
    BY <1>2 DEF PostCalls
  <2>2. told' \in SUBSET [num : Nat, body : Nat]
    BY <1>1, <1>2, <2>1
  <2>3. jhdBase' \in Nat
    BY <1>1, <1>2
  <2>. QED BY <1>1, <1>4, <2>2, <2>3 DEF TypeOK
<1>6. Grows
  BY <1>1, <1>3, GrowsStill
<1>7. FilesInv'
  BY <1>1 DEF FilesInv, BodyOf
<1>8. ToldInv'
  <2>1. ASSUME NEW t \in told', NEW i, i = t.num - BaseMsg + 1
        PROVE  Active(i)' /\ NumberAt(i)' = t.num /\ BodyAt(i)' = t.body
    <3>1. CASE t \in told
      BY <1>5, <1>6, <2>1, <3>1, ToldKept
    <3>2. CASE t = [num |-> post[p].num, body |-> post[p].body]
      <4>1. /\ post[p].num = BaseMsg + Len(jdx) - 1
            /\ \A n : n = Len(jdx) => Active(n) /\ NumberAt(n) = post[p].num
                                      /\ BodyAt(n) = post[p].body
        BY <1>1 DEF PostInv
      <4>2. i = Len(jdx)
        BY <1>2, <2>1, <3>2, <4>1, Sizes
      <4>3. Active(i) /\ NumberAt(i) = t.num /\ BodyAt(i) = t.body
        BY <3>2, <4>1, <4>2
      <4>. QED BY <1>5, <1>6, <4>3, ActiveKept
    <3>. QED BY <1>1, <3>1, <3>2
  <2>. QED BY <1>3, <2>1 DEF ToldInv
<1>9. PostInv(p)'
  BY <1>4, IdleOK DEF PostInv
<1>. QED BY <1>5, <1>6, <1>7, <1>8, <1>9 DEF OnePoster

\* What a call that fails leaves behind belongs to no message.
LEMMA AbortStep ==
  ASSUME OnePoster, TypeOK, FilesInv, NEW p \in Posters, PostInv(p), AbortAppend(p)
  PROVE  /\ TypeOK' /\ Grows /\ FilesInv' /\ \A q \in Posters : PostInv(q)'
<1>1. /\ jdt' = jdt \/ (post[p].pc = "writetext" /\ jdt' = WriteAt(jdt, post[p].at, 0))
      /\ jhr' = jhr \/ (post[p].pc = "writehdr" /\ jhr' = WriteAt(jhr, post[p].at, JunkHeader))
      /\ post' = [post EXCEPT ![p] = NoPost]
      /\ UNCHANGED <<jdx, jhdBase, mark, read, made, told, marked>>
  BY DEF AbortAppend
<1>2. /\ jdt' = jdt \/ jdt' = Append(jdt, 0)
      /\ jhr' = jhr \/ jhr' = Append(jhr, JunkHeader)
  BY <1>1 DEF PostInv, WriteAt
<1>3. /\ jdt \in Seq(Nat) /\ jhr \in Seq(Header) /\ JunkHeader \in Header
      /\ JunkHeader.text = 0 /\ "deleted" \in JunkHeader.attr
  <2>1. {"deleted"} \in SUBSET Bits
    BY DEF Bits
  <2>. QED BY <2>1 DEF TypeOK, JunkHeader, Header
<1>4. /\ jdt' \in Seq(Nat) /\ Len(jdt) <= Len(jdt') /\ \A k \in DOMAIN jdt : jdt'[k] = jdt[k]
      /\ \A k \in DOMAIN jdt' : k \in DOMAIN jdt \/ jdt'[k] = 0
  <2>1. CASE jdt' = jdt
    BY <1>3, <2>1, Sizes
  <2>2. CASE jdt' = Append(jdt, 0)
    BY <1>3, <2>2, Sizes
  <2>. QED BY <1>2, <2>1, <2>2
<1>5. /\ jhr' \in Seq(Header) /\ Len(jhr) <= Len(jhr') /\ \A k \in DOMAIN jhr : jhr'[k] = jhr[k]
      /\ \A k \in DOMAIN jhr' : k \in DOMAIN jhr \/ jhr'[k] = JunkHeader
  <2>1. CASE jhr' = jhr
    BY <1>3, <2>1, Sizes
  <2>2. CASE jhr' = Append(jhr, JunkHeader)
    <3> HIDE DEF JunkHeader
    <3>. QED BY <1>3, <2>2, Sizes
  <2>. QED BY <1>2, <2>1, <2>2
<1>6. post'[p] = NoPost /\ post' \in [Posters -> PostCalls]
  BY <1>1, IdleOK, PostSet
<1>7. TypeOK'
  BY <1>1, <1>4, <1>5, <1>6 DEF TypeOK
<1>8. BaseMsg' = BaseMsg
  BY <1>1 DEF BaseMsg
<1>9. Grows
  BY <1>1, <1>4, <1>5, <1>8, Sizes DEF Grows
<1>10. FilesInv'
  <2>1. ASSUME NEW k \in DOMAIN jdt' PROVE jdt'[k] <= made' \/ jdt'[k] > MaxPosts
    BY <1>1, <1>4, Sizes DEF FilesInv
  <2>2. ASSUME NEW k \in DOMAIN jhr'
        PROVE  /\ jhr'[k].text <= Len(jdt')
               /\ "deleted" \notin jhr'[k].attr => BodyOf(jhr[k].text)' # 0
    <3>1. Len(jdt') \in Nat
      BY <1>4
    <3>2. CASE jhr'[k] = JunkHeader
      BY <1>3, <3>1, <3>2
    <3>. QED BY <1>5, <1>7, <1>9, <3>2, HeadersKept
  <2>3. ASSUME NEW i \in DOMAIN jdx PROVE jdx[i] <= Len(jhr')
    <3>1. jdx[i] \in Nat /\ jdx[i] <= Len(jhr) /\ Len(jhr') \in Nat
      BY <1>7 DEF TypeOK, FilesInv
    <3>. QED BY <1>5, <3>1, Sizes
  <2>. QED BY <1>1, <2>1, <2>2, <2>3 DEF FilesInv
<1>11. PostInv(p)'
  BY <1>6, IdleOK DEF PostInv
<1>. QED BY <1>7, <1>9, <1>10, <1>11 DEF OnePoster

-----------------------------------------------------------------------------
\* The markers and the readers.

LEMMA PickStep ==
  ASSUME IInv, NEW m \in Markers, NEW i \in DOMAIN jdx, NEW op \in MarkOps, PickMessage(m, i, op)
  PROVE  TypeOK' /\ Grows /\ FilesInv' /\ \A n \in Markers : MarkInv(n)'
<1> DEFINE k == [NoMark EXCEPT !.pc = "find", !.op = op, !.num = NumberAt(i), !.goal = jdx[i]]
<1>1. /\ Active(i) /\ mark' = [mark EXCEPT ![m] = k]
      /\ UNCHANGED <<jdt, jhr, jdx, jhdBase, post, read, made, told, marked>>
  BY DEF PickMessage, files
<1>2. TypeOK /\ FilesInv /\ mark \in [Markers -> MarkCalls]
  BY DEF IInv, TypeOK
<1>3. k \in MarkCalls /\ k.pc = "find" /\ k.num = NumberAt(i) /\ k.goal = jdx[i]
  <2>1. NumberAt(i) \in Nat /\ jdx[i] \in Nat
    BY <1>1, <1>2, NumberLemma DEF TypeOK
  <2>. QED BY <2>1 DEF NoMark, MarkCalls
<1> HIDE DEF k
<1>4. mark' \in [Markers -> MarkCalls] /\ mark'[m] = k
      /\ \A n \in Markers : n # m => mark'[n] = mark[n]
  BY <1>1, <1>2, <1>3
<1>5. TypeOK'
  BY <1>1, <1>2, <1>4 DEF TypeOK
<1>6. Grows /\ FilesInv'
  BY <1>1, <1>2, StillStep
<1>7. MarkInv(m)'
  <2>1. PICK num, goal : num = k.num /\ goal = k.goal
    OBVIOUS
  <2>2. Numbered(num, goal)
    BY <1>1, <1>3, <2>1 DEF Numbered
  <2>3. Numbered(num, goal)'
    BY <1>2, <1>5, <1>6, <2>2, NumberedKept
  <2>. QED BY <1>3, <1>4, <2>1, <2>3 DEF MarkInv
<1>8. ASSUME NEW n \in Markers, n # m PROVE MarkInv(n)'
  BY <1>2, <1>4, <1>5, <1>6, <1>8, MarkFrame DEF IInv
<1>. QED BY <1>5, <1>6, <1>7, <1>8

LEMMA ReadAttrStep ==
  ASSUME IInv, NEW m \in Markers, ReadAttr(m)
  PROVE  TypeOK' /\ Grows /\ FilesInv' /\ \A n \in Markers : MarkInv(n)'
<1>0. PICK i : i = FindMsg(mark[m].num)
  OBVIOUS
<1> DEFINE k == IF i = 0 THEN NoMark
                ELSE [mark[m] EXCEPT !.pc = "write", !.at = jdx[i], !.attr = jhr[jdx[i]].attr]
<1>1. /\ mark[m].pc = "find" /\ mark' = [mark EXCEPT ![m] = k]
      /\ UNCHANGED <<jdt, jhr, jdx, jhdBase, post, read, made, told, marked>>
  BY <1>0 DEF ReadAttr, files
<1>2. TypeOK /\ FilesInv /\ mark \in [Markers -> MarkCalls] /\ MarkInv(m)
  BY DEF IInv, TypeOK
<1>3. i # 0 => Active(i) /\ NumberAt(i) = mark[m].num /\ jdx[i] \in Nat
               /\ jhr[jdx[i]].attr \in SUBSET Bits /\ "deleted" \notin jhr[jdx[i]].attr
  <2>1. i # 0 => Active(i) /\ NumberAt(i) = mark[m].num
    BY <1>0, <1>2, FindLemma DEF Matches
  <2>2. i # 0 => jdx[i] \in Nat /\ jhr[jdx[i]] \in Header
    BY <1>2, <2>1, NumberLemma DEF TypeOK
  <2>. QED BY <2>1, <2>2 DEF Active, Header
<1>4. /\ k \in MarkCalls
      /\ k = NoMark \/ (/\ i # 0 /\ k.pc = "write" /\ k.num = mark[m].num /\ k.goal = mark[m].goal
                        /\ k.at = jdx[i] /\ "deleted" \notin k.attr)
  BY <1>2, <1>3, IdleOK DEF MarkCalls
<1> HIDE DEF k
<1>5. mark' \in [Markers -> MarkCalls] /\ mark'[m] = k
      /\ \A n \in Markers : n # m => mark'[n] = mark[n]
  BY <1>1, <1>2, <1>4
<1>6. TypeOK'
  BY <1>1, <1>2, <1>5 DEF TypeOK
<1>7. Grows /\ FilesInv'
  BY <1>1, <1>2, StillStep
<1>8. MarkInv(m)'
  <2>1. CASE k = NoMark
    BY <1>5, <2>1, IdleOK DEF MarkInv
  <2>2. CASE i # 0 /\ k # NoMark
    <3>1. PICK num, goal, at : num = k.num /\ goal = k.goal /\ at = k.at
      OBVIOUS
    <3>2. Numbered(num, goal)
      BY <1>1, <1>2, <1>4, <2>2, <3>1 DEF MarkInv
    <3>3. Numbered(num, at)
      BY <1>3, <1>4, <2>2, <3>1 DEF Numbered, Active
    <3>4. Numbered(num, goal)' /\ Numbered(num, at)'
      BY <1>2, <1>6, <1>7, <3>2, <3>3, NumberedKept
    <3>. QED BY <1>4, <1>5, <2>2, <3>1, <3>4 DEF MarkInv
  <2>. QED BY <1>4, <2>1, <2>2
<1>9. ASSUME NEW n \in Markers, n # m PROVE MarkInv(n)'
  BY <1>2, <1>5, <1>6, <1>7, <1>9, MarkFrame DEF IInv
<1>. QED BY <1>6, <1>7, <1>8, <1>9

\* A mark changes neither the number nor the text of a header, and hides nothing.
LEMMA WriteAttrStep ==
  ASSUME IInv, NEW m \in Markers, WriteAttr(m)
  PROVE  /\ TypeOK' /\ Grows /\ FilesInv' /\ (\A n \in Markers : MarkInv(n)')
         /\ \A p \in Posters : PostInv(p)'
<1>0. PICK at, op, attr : at = mark[m].at /\ op = mark[m].op /\ attr = mark[m].attr
  OBVIOUS
<1> DEFINE new == Apply(op, attr)
<1>1. /\ mark[m].pc = "write" /\ jhr' = [jhr EXCEPT ![at].attr = new]
      /\ marked' = marked \union {[at |-> at, op |-> op]}
      /\ mark' = [mark EXCEPT ![m] = NoMark]
      /\ UNCHANGED <<jdt, jdx, jhdBase, post, read, made, told>>
  BY <1>0 DEF WriteAttr
<1>2. TypeOK /\ FilesInv /\ mark \in [Markers -> MarkCalls] /\ MarkInv(m) /\ jhr \in Seq(Header)
      /\ marked \in SUBSET [at : Nat, op : MarkOps]
  BY DEF IInv, TypeOK
<1>3. /\ at \in DOMAIN jhr /\ at \in Nat /\ op \in MarkOps /\ attr \in SUBSET Bits
      /\ "deleted" \notin jhr[at].attr /\ "deleted" \notin attr
  <2>1. at \in Nat /\ op \in MarkOps /\ attr \in SUBSET Bits
    BY <1>0, <1>2 DEF MarkCalls
  <2>2. Numbered(mark[m].num, at) /\ "deleted" \notin attr
    BY <1>0, <1>1, <1>2 DEF MarkInv
  <2>3. at \in DOMAIN jhr /\ "deleted" \notin jhr[at].attr
    BY <2>2 DEF Numbered, Active
  <2>. QED BY <2>1, <2>2, <2>3
<1>4. new \in SUBSET Bits /\ "deleted" \notin new
  BY <1>3 DEF Apply, MarkOps, Bits
<1> HIDE DEF new
<1>5. /\ jhr' \in Seq(Header) /\ Len(jhr') = Len(jhr) /\ DOMAIN jhr' = DOMAIN jhr
      /\ \A k \in DOMAIN jhr : /\ jhr'[k].num = jhr[k].num /\ jhr'[k].text = jhr[k].text
                               /\ "deleted" \in jhr'[k].attr <=> "deleted" \in jhr[k].attr
  <2> DEFINE h == [jhr[at] EXCEPT !.attr = new]
  <2>1. jhr[at] \in Header
    BY <1>2, <1>3
  <2>2. h \in Header /\ h.num = jhr[at].num /\ h.text = jhr[at].text /\ h.attr = new
    BY <1>4, <2>1 DEF Header
  <2>3. jhr' = [jhr EXCEPT ![at] = h]
    BY <1>1
  <2> HIDE DEF h
  <2>4. at \in 1 .. Len(jhr)
    BY <1>2, <1>3, Sizes
  <2>5. jhr' \in Seq(Header) /\ Len(jhr') = Len(jhr)
    BY <1>2, <2>2, <2>3, <2>4, ExceptSeq
  <2>6. DOMAIN jhr' = DOMAIN jhr /\ \A k \in DOMAIN jhr : jhr'[k] = IF k = at THEN h ELSE jhr[k]
    BY <2>3
  <2>. QED BY <1>3, <1>4, <2>2, <2>5, <2>6
<1>6. mark' \in [Markers -> MarkCalls] /\ mark'[m] = NoMark
      /\ \A n \in Markers : n # m => mark'[n] = mark[n]
  BY <1>1, <1>2, IdleOK
<1>7. TypeOK'
  <2>1. [at |-> at, op |-> op] \in [at : Nat, op : MarkOps]
    BY <1>3
  <2>2. marked' \in SUBSET [at : Nat, op : MarkOps]
    BY <1>1, <1>2, <2>1
  <2>. QED BY <1>1, <1>2, <1>5, <1>6, <2>2 DEF TypeOK
<1>8. BaseMsg' = BaseMsg
  BY <1>1 DEF BaseMsg
<1>9. Grows
  BY <1>1, <1>2, <1>5, <1>8, Sizes DEF Grows
<1>10. FilesInv'
  BY <1>1, <1>2, <1>5, <1>7, <1>9, HeadersKept DEF FilesInv
<1>11. ASSUME NEW n \in Markers PROVE MarkInv(n)'
  <2>1. CASE n = m
    BY <1>6, <2>1, IdleOK DEF MarkInv
  <2>2. CASE n # m
    BY <1>2, <1>6, <1>7, <1>9, <2>2, MarkFrame DEF IInv
  <2>. QED BY <2>1, <2>2
<1>12. ASSUME NEW p \in Posters PROVE PostInv(p)'
  BY <1>1, <1>2, <1>5, <1>7, <1>9, PostFrame DEF IInv
<1>. QED BY <1>7, <1>9, <1>10, <1>11, <1>12

LEMMA ReadHeaderStep ==
  ASSUME IInv, NEW r \in Readers, NEW i, Active(i), ReadHeader(r, i)
  PROVE  TypeOK' /\ Grows /\ FilesInv' /\ \A q \in Readers : ReadInv(q)'
<1> DEFINE c == [NoRead EXCEPT !.pc = "text", !.num = NumberAt(i), !.text = jhr[jdx[i]].text]
<1>1. /\ read' = [read EXCEPT ![r] = c]
      /\ UNCHANGED <<jdt, jhr, jdx, jhdBase, post, mark, made, told, marked>>
  BY DEF ReadHeader, files
<1>2. TypeOK /\ FilesInv /\ read \in [Readers -> ReadCalls]
  BY DEF IInv, TypeOK
<1>3. c \in ReadCalls /\ c.pc = "text" /\ c.num = NumberAt(i) /\ c.text = jhr[jdx[i]].text
  <2>1. NumberAt(i) \in Nat /\ jhr[jdx[i]].text \in Nat
    BY <1>2, NumberLemma DEF Header
  <2>. QED BY <2>1 DEF NoRead, ReadCalls
<1> HIDE DEF c
<1>4. read' \in [Readers -> ReadCalls] /\ read'[r] = c
      /\ \A q \in Readers : q # r => read'[q] = read[q]
  BY <1>1, <1>2, <1>3
<1>5. TypeOK'
  BY <1>1, <1>2, <1>4 DEF TypeOK
<1>6. Grows /\ FilesInv'
  BY <1>1, <1>2, StillStep
<1>7. ReadInv(r)'
  <2>1. i \in DOMAIN jdx' /\ Active(i)' /\ NumberAt(i)' = NumberAt(i)
        /\ jhr'[jdx'[i]].text = jhr[jdx[i]].text
    BY <1>2, <1>5, <1>6, ActiveKept
  <2>. QED BY <1>3, <1>4, <2>1 DEF ReadInv
<1>8. ASSUME NEW q \in Readers, q # r PROVE ReadInv(q)'
  BY <1>2, <1>4, <1>5, <1>6, <1>8, ReadFrame DEF IInv
<1>. QED BY <1>5, <1>6, <1>7, <1>8

\* The text a reader goes for is the one of a message that is there.
LEMMA ReadTextStep ==
  ASSUME IInv, NEW r \in Readers, ReadText(r)
  PROVE  TypeOK' /\ Grows /\ FilesInv' /\ \A q \in Readers : ReadInv(q)'
<1>0. PICK text, body : text = read[r].text /\ body = BodyOf(read[r].text)
  OBVIOUS
<1>1. /\ read[r].pc = "text" /\ read' = [read EXCEPT ![r].pc = "got", ![r].body = body]
      /\ UNCHANGED <<jdt, jhr, jdx, jhdBase, post, mark, made, told, marked>>
  BY <1>0 DEF ReadText, files
<1>2. TypeOK /\ FilesInv /\ read \in [Readers -> ReadCalls] /\ ReadInv(r)
  BY DEF IInv, TypeOK
<1>3. PICK i \in DOMAIN jdx : /\ Active(i) /\ NumberAt(i) = read[r].num
                              /\ jhr[jdx[i]].text = text
  BY <1>0, <1>1, <1>2 DEF ReadInv
<1>4. body # 0 /\ BodyAt(i) = body /\ body \in Nat
  <2>1. BodyAt(i) = body
    BY <1>0, <1>3 DEF BodyAt
  <2>2. body # 0
    BY <1>2, <1>3, <2>1 DEF FilesInv, Active, BodyAt
  <2>3. body = IF text \in DOMAIN jdt THEN jdt[text] ELSE 0
    BY <1>0 DEF BodyOf
  <2>. QED BY <1>2, <2>1, <2>2, <2>3 DEF TypeOK
<1>5. /\ read' \in [Readers -> ReadCalls]
      /\ read'[r].pc = "got" /\ read'[r].body = body /\ read'[r].num = read[r].num
      /\ \A q \in Readers : q # r => read'[q] = read[q]
  BY <1>1, <1>2, <1>4 DEF ReadCalls
<1>6. TypeOK'
  BY <1>1, <1>2, <1>5 DEF TypeOK
<1>7. Grows /\ FilesInv'
  BY <1>1, <1>2, StillStep
<1>8. ReadInv(r)'
  <2>1. i \in DOMAIN jdx' /\ Active(i)' /\ NumberAt(i)' = NumberAt(i) /\ BodyAt(i)' = BodyAt(i)
    BY <1>2, <1>3, <1>6, <1>7, ActiveKept
  <2>. QED BY <1>3, <1>4, <1>5, <2>1 DEF ReadInv
<1>9. ASSUME NEW q \in Readers, q # r PROVE ReadInv(q)'
  BY <1>2, <1>5, <1>6, <1>7, <1>9, ReadFrame DEF IInv
<1>. QED BY <1>6, <1>7, <1>8, <1>9

LEMMA ShowStep ==
  ASSUME IInv, NEW r \in Readers, ShowArticle(r)
  PROVE  TypeOK' /\ Grows /\ FilesInv' /\ \A q \in Readers : ReadInv(q)'
<1>1. /\ read' = [read EXCEPT ![r] = NoRead]
      /\ UNCHANGED <<jdt, jhr, jdx, jhdBase, post, mark, made, told, marked>>
  BY DEF ShowArticle, files
<1>2. TypeOK /\ FilesInv /\ read \in [Readers -> ReadCalls]
  BY DEF IInv, TypeOK
<1>3. read' \in [Readers -> ReadCalls] /\ read'[r] = NoRead
      /\ \A q \in Readers : q # r => read'[q] = read[q]
  BY <1>1, <1>2, IdleOK
<1>4. TypeOK'
  BY <1>1, <1>2, <1>3 DEF TypeOK
<1>5. Grows /\ FilesInv'
  BY <1>1, <1>2, StillStep
<1>6. ASSUME NEW q \in Readers PROVE ReadInv(q)'
  <2>1. CASE q = r
    BY <1>3, <2>1, IdleOK DEF ReadInv
  <2>2. CASE q # r
    BY <1>2, <1>3, <1>4, <1>5, <2>2, ReadFrame DEF IInv
  <2>. QED BY <2>1, <2>2
<1>. QED BY <1>4, <1>5, <1>6

-----------------------------------------------------------------------------
\* Put together: every step keeps the invariant, and the files grow.
LEMMA PosterKeeps ==
  ASSUME OnePoster, IInv, NEW p \in Posters, PosterStep(p)
  PROVE  IInv' /\ Grows
<1>1. TypeOK /\ FilesInv /\ ToldInv /\ PostInv(p) /\ Rest
  BY DEF IInv, Rest
<1>2. CASE WriteJhd(p)
  <2>1. TypeOK' /\ Grows /\ FilesInv' /\ ToldInv' /\ \A q \in Posters : PostInv(q)'
    BY <1>1, <1>2, JhdStep
  <2>2. UNCHANGED <<read, mark>>
    BY <1>2 DEF WriteJhd
  <2>3. \A r \in Readers : ReadInv(r)'
    BY <1>1, <2>1, <2>2, ReadFrame DEF Rest
  <2>4. \A m \in Markers : MarkInv(m)'
    BY <1>1, <2>1, <2>2, MarkFrame DEF Rest
  <2>. QED BY <2>1, <2>3, <2>4 DEF IInv
<1>3. CASE ~WriteJhd(p)
  <2>1. BeginAppend(p) \/ (StatText(p) \/ StatHdr(p) \/ StatIdx(p)) \/ WriteText(p)
        \/ WriteHdr(p) \/ WriteIdx(p) \/ AbortAppend(p)
    BY <1>3 DEF PosterStep
  <2>2. TypeOK' /\ Grows /\ FilesInv' /\ \A q \in Posters : PostInv(q)'
    <3>1. CASE BeginAppend(p)
      BY <1>1, <3>1, BeginStep
    <3>2. CASE StatText(p) \/ StatHdr(p) \/ StatIdx(p)
      BY <1>1, <3>2, StatStep
    <3>3. CASE WriteText(p)
      BY <1>1, <3>3, TextStep
    <3>4. CASE WriteHdr(p)
      BY <1>1, <3>4, HdrStep
    <3>5. CASE WriteIdx(p)
      BY <1>1, <3>5, IdxStep
    <3>6. CASE AbortAppend(p)
      BY <1>1, <3>6, AbortStep
    <3>. QED BY <2>1, <3>1, <3>2, <3>3, <3>4, <3>5, <3>6
  <2>3. UNCHANGED <<told, read, mark>>
    BY <2>1 DEF BeginAppend, StatText, StatHdr, StatIdx, StatEnd, WriteText, WriteHdr, WriteIdx,
                AbortAppend
  <2>4. Rest'
    BY <1>1, <2>2, <2>3, RestFrame
  <2>. QED BY <2>2, <2>4 DEF IInv, Rest
<1>. QED BY <1>2, <1>3

LEMMA MarkerKeeps ==
  ASSUME IInv, NEW m \in Markers, MarkerStep(m)
  PROVE  IInv' /\ Grows
<1>1. TypeOK /\ FilesInv /\ ToldInv /\ Rest
  BY DEF IInv, Rest
<1>2. UNCHANGED <<told, read>>
  BY DEF MarkerStep, PickMessage, ReadAttr, WriteAttr
<1>3. /\ TypeOK' /\ Grows /\ FilesInv' /\ (\A n \in Markers : MarkInv(n)')
      /\ \A p \in Posters : PostInv(p)'
  <2>1. CASE WriteAttr(m)
    BY <2>1, WriteAttrStep
  <2>2. CASE ~WriteAttr(m)
    <3>1. UNCHANGED <<jdt, jhr, jdx, jhdBase, post, made>>
      BY <2>2 DEF MarkerStep, PickMessage, ReadAttr, files
    <3>2. TypeOK' /\ Grows /\ FilesInv' /\ \A n \in Markers : MarkInv(n)'
      BY <2>2, PickStep, ReadAttrStep DEF MarkerStep
    <3>3. ASSUME NEW p \in Posters PROVE PostInv(p)'
      BY <1>1, <3>1, <3>2, PostFrame DEF IInv
    <3>. QED BY <3>2, <3>3
  <2>. QED BY <2>1, <2>2
<1>4. ToldInv'
  BY <1>1, <1>2, <1>3, ToldFrame
<1>5. \A r \in Readers : ReadInv(r)'
  BY <1>1, <1>2, <1>3, ReadFrame DEF Rest
<1>. QED BY <1>3, <1>4, <1>5 DEF IInv

LEMMA ReaderKeeps ==
  ASSUME IInv, NEW r \in Readers, ReaderStep(r)
  PROVE  IInv' /\ Grows
<1>1. TypeOK /\ FilesInv /\ ToldInv /\ Rest
  BY DEF IInv, Rest
<1>2. UNCHANGED <<jdt, jhr, jdx, jhdBase, post, made, told, mark>>
  BY DEF ReaderStep, ReadMsg, NextActive, ReadHeader, ReadText, ShowArticle, files
<1>3. TypeOK' /\ Grows /\ FilesInv' /\ \A q \in Readers : ReadInv(q)'
  <2>1. CASE ReadText(r)
    BY <2>1, ReadTextStep
  <2>2. CASE ShowArticle(r)
    BY <2>2, ShowStep
  <2>3. ASSUME NEW num, ReadMsg(r, num)
        PROVE  TypeOK' /\ Grows /\ FilesInv' /\ \A q \in Readers : ReadInv(q)'
    <3>1. PICK i : i = FindMsg(num)
      OBVIOUS
    <3>2. ReadHeader(r, i) /\ i # 0
      BY <2>3, <3>1 DEF ReadMsg, ReadHeader
    <3>3. Active(i)
      BY <1>1, <3>1, <3>2, FindLemma DEF Matches
    <3>. QED BY <3>2, <3>3, ReadHeaderStep
  <2>4. ASSUME NEW from, NEW forward \in BOOLEAN, NextActive(r, from, forward)
        PROVE  TypeOK' /\ Grows /\ FilesInv' /\ \A q \in Readers : ReadInv(q)'
    <3>1. PICK i : i = NextSlot(from, forward)
      OBVIOUS
    <3>2. ReadHeader(r, i) /\ i # 0
      BY <2>4, <3>1 DEF NextActive, ReadHeader
    <3>3. Active(i)
      BY <1>1, <3>1, <3>2, NextLemma
    <3>. QED BY <3>2, <3>3, ReadHeaderStep
  <2>. QED BY <2>1, <2>2, <2>3, <2>4 DEF ReaderStep
<1>4. ToldInv'
  BY <1>1, <1>2, <1>3, ToldFrame
<1>5. \A m \in Markers : MarkInv(m)'
  BY <1>1, <1>2, <1>3, MarkFrame DEF Rest
<1>6. ASSUME NEW p \in Posters PROVE PostInv(p)'
  BY <1>1, <1>2, <1>3, PostFrame DEF IInv
<1>. QED BY <1>3, <1>4, <1>5, <1>6 DEF IInv

LEMMA NextKeeps ==
  ASSUME OnePoster, IInv, [Next]_vars
  PROVE  IInv' /\ Grows
<1>1. CASE Next
  BY <1>1, PosterKeeps, MarkerKeeps, ReaderKeeps DEF Next
<1>2. CASE UNCHANGED vars
  <2>1. IInv'
    BY <1>2 DEF vars, IInv, TypeOK, FilesInv, ToldInv, PostInv, ReadInv, MarkInv, Numbered,
                BoardBar, BodyAt, BodyOf, Active, NumberAt, BaseMsg
  <2>2. Grows
    BY <1>2, GrowsStill DEF vars, IInv, BaseMsg
  <2>. QED BY <2>1, <2>2
<1>. QED BY <1>1, <1>2

\* The old bases have it: every index entry of theirs leads to its own header, if to any.
LEMMA InitKeeps ==
  ASSUME Init
  PROVE  IInv /\ StickInv
<1>1. PICK b \in OldBases : LET n == Len(b.nums) IN
       /\ jdt = [i \in 1 .. n |-> MaxPosts + i]
       /\ jhr = [i \in 1 .. n |->
                   IF b.nums[i] <= 0 THEN [JunkHeader EXCEPT !.text = i]
                   ELSE [num |-> b.nums[i], text |-> i, attr |-> {"fattach"}]]
       /\ jdx = [i \in 1 .. n |-> IF b.nums[i] = 0 THEN 0 ELSE i]
       /\ jhdBase = b.base
  BY DEF Init
<1>2. PICK n \in Nat : n = Len(b.nums)
  BY BaseAssumption
<1>3. b.base \in Nat /\ MaxPosts \in Nat /\ \A i \in 1 .. n : b.nums[i] \in Nat \union {-1}
  BY <1>2, BaseAssumption
<1>4. /\ post = [p \in Posters |-> NoPost] /\ mark = [m \in Markers |-> NoMark]
      /\ read = [r \in Readers |-> NoRead] /\ made = 0 /\ told = {} /\ marked = {}
  BY DEF Init
<1>5. jdt \in Seq(Nat) /\ Len(jdt) = n /\ \A i \in 1 .. n : jdt[i] = MaxPosts + i
  BY <1>1, <1>2, <1>3
<1>6. jdx \in Seq(Nat) /\ Len(jdx) = n /\ \A i \in 1 .. n : jdx[i] \in {0, i}
  BY <1>1, <1>2
<1>7. \A i \in 1 .. n : jhr[i] \in Header /\ jhr[i].text = i
  <2> TAKE i \in 1 .. n
  <2>1. jhr[i] = IF b.nums[i] <= 0 THEN [JunkHeader EXCEPT !.text = i]
                 ELSE [num |-> b.nums[i], text |-> i, attr |-> {"fattach"}]
    BY <1>1, <1>2
  <2>2. {"deleted"} \in SUBSET Bits /\ {"fattach"} \in SUBSET Bits
    BY DEF Bits
  <2>3. CASE b.nums[i] <= 0
    BY <2>1, <2>2, <2>3 DEF JunkHeader, Header
  <2>4. CASE ~(b.nums[i] <= 0)
    <3>1. b.nums[i] \in Nat
      BY <1>3, <2>4
    <3>. QED BY <2>1, <2>2, <2>4, <3>1 DEF Header
  <2>. QED BY <2>3, <2>4
<1>8. jhr \in Seq(Header) /\ Len(jhr) = n
  <2>1. jhr = [i \in 1 .. n |-> jhr[i]]
    BY <1>1, <1>2
  <2>. QED BY <1>7, <2>1
<1>9. TypeOK
  <2>1. /\ post \in [Posters -> PostCalls] /\ mark \in [Markers -> MarkCalls]
        /\ read \in [Readers -> ReadCalls]
    BY <1>4, IdleOK
  <2>2. jhdBase \in Nat /\ made \in 0 .. MaxPosts
    BY <1>1, <1>3, <1>4
  <2>3. told \in SUBSET [num : Nat, body : Nat] /\ marked \in SUBSET [at : Nat, op : MarkOps]
    BY <1>4
  <2>. QED BY <1>5, <1>6, <1>8, <2>1, <2>2, <2>3 DEF TypeOK
<1>10. FilesInv
  <2>1. DOMAIN jdt = 1 .. n /\ DOMAIN jhr = 1 .. n /\ DOMAIN jdx = 1 .. n
    BY <1>5, <1>6, <1>8, <1>9, Sizes
  <2>2. \A i \in DOMAIN jdx : jdx[i] <= Len(jhr)
    BY <1>6, <1>8, <2>1
  <2>3. \A k \in DOMAIN jhr : jhr[k].text <= Len(jdt) /\ BodyOf(jhr[k].text) # 0
    BY <1>3, <1>5, <1>7, <2>1 DEF BodyOf
  <2>4. \A k \in DOMAIN jdt : jdt[k] > MaxPosts
    BY <1>3, <1>5, <2>1
  <2>. QED BY <2>2, <2>3, <2>4 DEF FilesInv
<1>11. ToldInv /\ StickInv
  BY <1>4, IdleOK DEF ToldInv, StickInv
<1>12. (\A p \in Posters : PostInv(p)) /\ (\A r \in Readers : ReadInv(r))
       /\ \A m \in Markers : MarkInv(m)
  BY <1>4, IdleOK DEF PostInv, ReadInv, MarkInv
<1>. QED BY <1>9, <1>10, <1>11, <1>12 DEF IInv

\* The invariant holds throughout: with one poster AppendMsg knows where the
\* files end, and what any call has found stays where it found it.
THEOREM Inductive ==
  ASSUME OnePoster
  PROVE  Spec => []IInv
<1>1. Init => IInv
  BY InitKeeps
<1>2. IInv /\ [Next]_vars => IInv'
  BY NextKeeps
<1>. QED BY <1>1, <1>2, PTL DEF Spec

\* Type correctness of the files, the calls and the histories, for one poster.
THEOREM TypeInvariant ==
  ASSUME OnePoster
  PROVE  Spec => []TypeOK
<1>1. IInv => TypeOK
  BY DEF IInv
<1>. QED BY <1>1, Inductive, PTL

\* The files only grow and no message in them changes its number or its text,
\* whatever the posters, markers and readers do (jam_rw.go).
THEOREM FilesGrow ==
  ASSUME OnePoster
  PROVE  Spec => [][Grows]_vars
<1>1. IInv /\ [Next]_vars => [Grows]_vars
  BY NextKeeps
<1>. QED BY <1>1, Inductive, PTL DEF Spec

\* A number AppendMsg returned finds the message it was returned for: the slot
\* that jamFindMsg tries first is the message's own, whatever numbers the older
\* messages carry.
THEOREM PostedReadableThm ==
  ASSUME OnePoster
  PROVE  Spec => []PostedReadable
<1>1. IInv => PostedReadable
  <2> SUFFICES ASSUME IInv, NEW t \in told
               PROVE  FindMsg(t.num) # 0 /\ BodyAt(FindMsg(t.num)) = t.body
    BY DEF PostedReadable
  <2>1. PICK i : i = t.num - BaseMsg + 1
    OBVIOUS
  <2>2. Active(i) /\ NumberAt(i) = t.num /\ BodyAt(i) = t.body
    BY <2>1 DEF IInv, ToldInv
  <2>3. FindMsg(t.num) = i
    BY <2>1, <2>2 DEF FindMsg, Matches
  <2>4. i # 0
    BY <2>2, NumberLemma DEF IInv
  <2>. QED BY <2>2, <2>3, <2>4
<1>. QED BY <1>1, Inductive, PTL

\* A reader that was handed a text got the whole text of a message of that
\* number: the header is written after the text and the index after both.
THEOREM ReadersSeeWholeThm ==
  ASSUME OnePoster
  PROVE  Spec => []ReadersSeeWhole
<1>1. IInv => ReadersSeeWhole
  BY DEF IInv, ReadInv, ReadersSeeWhole
<1>. QED BY <1>1, Inductive, PTL

\* A mark lands on the header that was meant or on one of the same number.
THEOREM MarkHitsTargetThm ==
  ASSUME OnePoster
  PROVE  Spec => []MarkHitsTarget
<1>1. IInv => MarkHitsTarget
  <2> SUFFICES ASSUME IInv, NEW m \in Markers
               PROVE  /\ mark[m].pc = "find" => FindMsg(mark[m].num) # 0
                      /\ mark[m].pc = "write" =>
                           mark[m].at = mark[m].goal \/ Ambiguous(mark[m].num)
    BY DEF MarkHitsTarget
  <2>1. MarkInv(m)
    BY DEF IInv
  <2>2. ASSUME mark[m].pc = "find" PROVE FindMsg(mark[m].num) # 0
    <3>1. PICK i \in DOMAIN jdx : Active(i) /\ NumberAt(i) = mark[m].num
      BY <2>1, <2>2 DEF MarkInv, Numbered
    <3>. QED BY <3>1, FindLemma DEF IInv, Matches
  <2>3. ASSUME mark[m].pc = "write", mark[m].at # mark[m].goal PROVE Ambiguous(mark[m].num)
    <3>1. PICK i \in DOMAIN jdx : Active(i) /\ NumberAt(i) = mark[m].num /\ jdx[i] = mark[m].goal
      BY <2>1, <2>3 DEF MarkInv, Numbered
    <3>2. PICK j \in DOMAIN jdx : Active(j) /\ NumberAt(j) = mark[m].num /\ jdx[j] = mark[m].at
      BY <2>1, <2>3 DEF MarkInv, Numbered
    <3>. QED BY <2>3, <3>1, <3>2 DEF Ambiguous
  <2>. QED BY <2>2, <2>3
<1>. QED BY <1>1, Inductive, PTL

-----------------------------------------------------------------------------
\* Only jamChangeAttr writes over a header.
LEMMA HeadersStay ==
  ASSUME IInv, Next
  PROVE  \/ \E m \in Markers : WriteAttr(m)
         \/ /\ \A k \in DOMAIN jhr : k \in DOMAIN jhr' /\ jhr'[k] = jhr[k]
            /\ marked' = marked
            /\ \A m \in Markers : mark'[m] = mark[m] \/ mark'[m].pc # "write" \/ ReadAttr(m)
<1>1. TypeOK
  BY DEF IInv
<1>2. ASSUME NEW p \in Posters, PosterStep(p)
      PROVE  /\ \A k \in DOMAIN jhr : k \in DOMAIN jhr' /\ jhr'[k] = jhr[k]
             /\ marked' = marked /\ mark' = mark
  <2>1. UNCHANGED <<marked, mark>>
    BY <1>2 DEF PosterStep, BeginAppend, StatText, StatHdr, StatIdx, StatEnd, WriteText, WriteHdr,
                WriteIdx, WriteJhd, AbortAppend
  <2>2. jhr' = jhr \/ \E h : jhr' = Append(jhr, h)
    <3>1. PostInv(p)
      BY DEF IInv
    <3>2. CASE WriteHdr(p)
      BY <3>1, <3>2 DEF WriteHdr, PostInv, WriteAt
    <3>3. CASE AbortAppend(p)
      BY <3>1, <3>3 DEF AbortAppend, PostInv, WriteAt
    <3>4. CASE ~WriteHdr(p) /\ ~AbortAppend(p)
      BY <1>2, <3>4 DEF PosterStep, BeginAppend, StatText, StatHdr, StatIdx, StatEnd, WriteText,
                        WriteIdx, WriteJhd, files
    <3>. QED BY <3>2, <3>3, <3>4
  <2>3. \A k \in DOMAIN jhr : k \in DOMAIN jhr' /\ jhr'[k] = jhr[k]
    <3>1. jhr \in Seq(Header)
      BY <1>1 DEF TypeOK
    <3>. QED BY <1>1, <2>2, <3>1, Sizes
  <2>. QED BY <2>1, <2>3
<1>3. ASSUME NEW n \in Markers, MarkerStep(n), ~WriteAttr(n)
      PROVE  /\ jhr' = jhr /\ marked' = marked
             /\ \A m \in Markers : mark'[m] = mark[m] \/ mark'[m].pc # "write" \/ ReadAttr(m)
  <2>1. CASE ReadAttr(n)
    <3>1. \A m \in Markers : m # n => mark'[m] = mark[m]
      BY <1>1, <2>1 DEF ReadAttr, TypeOK
    <3>. QED BY <2>1, <3>1 DEF ReadAttr, files
  <2>2. ASSUME NEW i \in DOMAIN jdx, NEW op \in MarkOps, PickMessage(n, i, op)
        PROVE  /\ jhr' = jhr /\ marked' = marked
               /\ \A m \in Markers : mark'[m] = mark[m] \/ mark'[m].pc # "write"
    <3>1. mark'[n].pc = "find" /\ \A m \in Markers : m # n => mark'[m] = mark[m]
      BY <1>1, <2>2 DEF PickMessage, TypeOK, NoMark
    <3>. QED BY <2>2, <3>1 DEF PickMessage, files
  <2>. QED BY <1>3, <2>1, <2>2 DEF MarkerStep
<1>4. ASSUME NEW r \in Readers, ReaderStep(r)
      PROVE  jhr' = jhr /\ marked' = marked /\ mark' = mark
  BY <1>4 DEF ReaderStep, ReadMsg, NextActive, ReadHeader, ReadText, ShowArticle, files
<1>. QED BY <1>2, <1>3, <1>4 DEF Next

LEMMA StickStep ==
  ASSUME OnePoster, OneMarker, IInv, StickInv, [Next]_vars
  PROVE  StickInv'
<1>0. TypeOK /\ \A m \in Markers : MarkInv(m)
  BY DEF IInv
<1>1. CASE UNCHANGED vars
  BY <1>1 DEF vars, StickInv
<1>2. ASSUME NEW m \in Markers, WriteAttr(m) PROVE StickInv'
  <2>0. PICK at, op, attr : at = mark[m].at /\ op = mark[m].op /\ attr = mark[m].attr
    OBVIOUS
  <2>1. /\ mark[m].pc = "write" /\ jhr' = [jhr EXCEPT ![at].attr = Apply(op, attr)]
        /\ marked' = marked \union {[at |-> at, op |-> op]}
        /\ mark' = [mark EXCEPT ![m] = NoMark]
    BY <1>2, <2>0 DEF WriteAttr
  <2>2. attr \in SUBSET Bits /\ op \in MarkOps /\ marked \in SUBSET [at : Nat, op : MarkOps]
    BY <1>0, <2>0 DEF TypeOK, MarkCalls
  <2>3. at \in DOMAIN jhr
    BY <1>0, <2>0, <2>1 DEF MarkInv, Numbered, Active
  <2>4. jhr[at].attr = attr
    BY <2>0, <2>1 DEF StickInv
  <2>5. DOMAIN jhr' = DOMAIN jhr /\ (\A k \in DOMAIN jhr : k # at => jhr'[k] = jhr[k])
    BY <2>1
  <2>6. jhr'[at].attr = Apply(op, attr)
    <3>1. jhr[at] \in Header
      BY <1>0, <2>3 DEF TypeOK
    <3>. QED BY <2>1, <2>3, <3>1 DEF Header
  <2>7. \A o \in MarkOps : Applied(o, attr) \/ o = op => Applied(o, Apply(op, attr))
    BY <2>2 DEF Applied, Apply, MarkOps
  <2>8. ASSUME NEW k \in marked' PROVE k.at \in DOMAIN jhr' /\ Applied(k.op, jhr'[k.at].attr)
    <3>1. CASE k = [at |-> at, op |-> op]
      BY <2>2, <2>3, <2>5, <2>6, <2>7, <3>1
    <3>2. CASE k \in marked /\ k.at = at
      <4>1. k.op \in MarkOps /\ Applied(k.op, attr)
        BY <2>2, <2>4, <3>2 DEF StickInv
      <4>. QED BY <2>3, <2>5, <2>6, <2>7, <3>2, <4>1
    <3>3. CASE k \in marked /\ k.at # at
      BY <2>5, <3>3 DEF StickInv
    <3>. QED BY <2>1, <3>1, <3>2, <3>3
  <2>9. ASSUME NEW n \in Markers PROVE mark'[n].pc # "write"
    <3>1. n = m
      BY DEF OneMarker
    <3>. QED BY <1>0, <2>1, <3>1, IdleOK DEF TypeOK
  <2>. QED BY <2>8, <2>9 DEF StickInv
<1>3. ASSUME \A k \in DOMAIN jhr : k \in DOMAIN jhr' /\ jhr'[k] = jhr[k], marked' = marked,
             \A m \in Markers : mark'[m] = mark[m] \/ mark'[m].pc # "write" \/ ReadAttr(m)
      PROVE  StickInv'
  <2>1. ASSUME NEW m \in Markers, mark'[m].pc = "write" PROVE jhr'[mark'[m].at].attr = mark'[m].attr
    <3>1. CASE mark'[m] = mark[m]
      <4>1. mark[m].at \in DOMAIN jhr
        BY <1>0, <2>1, <3>1 DEF MarkInv, Numbered, Active
      <4>. QED BY <1>3, <2>1, <3>1, <4>1 DEF StickInv
    <3>2. CASE ReadAttr(m)
      <4>1. PICK i : i = FindMsg(mark[m].num)
        OBVIOUS
      <4>2. i # 0 /\ mark'[m].at = jdx[i] /\ mark'[m].attr = jhr[jdx[i]].attr
        <5>1. mark[m] \in MarkCalls /\ mark \in [Markers -> MarkCalls]
          BY <1>0 DEF TypeOK
        <5>. QED BY <2>1, <3>2, <4>1, <5>1, IdleOK DEF ReadAttr, MarkCalls
      <4>3. jdx[i] \in DOMAIN jhr
        BY <1>0, <4>1, <4>2, FindLemma DEF Matches, Active
      <4>. QED BY <1>3, <4>2, <4>3
    <3>. QED BY <1>3, <2>1, <3>1, <3>2
  <2>2. ASSUME NEW k \in marked' PROVE k.at \in DOMAIN jhr' /\ Applied(k.op, jhr'[k.at].attr)
    BY <1>3 DEF StickInv
  <2>. QED BY <2>1, <2>2 DEF StickInv
<1>. QED BY <1>1, <1>2, <1>3, HeadersStay

\* A mark made stays made, if one process marks at a time; of two, each may
\* write back what it read before the other wrote (SetReceived next to ClearFAttach).
THEOREM MarksStickThm ==
  ASSUME OnePoster, OneMarker
  PROVE  Spec => []MarksStick
<1>1. Init => IInv /\ StickInv
  BY InitKeeps
<1>2. IInv /\ StickInv /\ [Next]_vars => (IInv /\ StickInv)'
  BY NextKeeps, StickStep
<1>3. StickInv => MarksStick
  BY DEF StickInv, MarksStick
<1>. QED BY <1>1, <1>2, <1>3, PTL DEF Spec

-----------------------------------------------------------------------------
\* The files seen as a board.
LEMMA BoardSeq ==
  ASSUME TypeOK
  PROVE  /\ BoardBar \in Seq(Nat) /\ Len(BoardBar) = Len(jdx) /\ DOMAIN BoardBar = DOMAIN jdx
         /\ \A i \in DOMAIN jdx : BoardBar[i] = IF jdx[i] = 0 THEN 0 ELSE BodyAt(i)
<1>1. \A x : BodyOf(x) \in Nat
  BY DEF TypeOK, BodyOf
<1>2. \A i \in DOMAIN jdx : BoardBar[i] = IF jdx[i] = 0 THEN 0 ELSE BodyAt(i)
  BY DEF BoardBar
<1>3. \A i \in DOMAIN jdx : BoardBar[i] \in Nat
  BY <1>1, <1>2 DEF BodyAt
<1>4. DOMAIN BoardBar = 1 .. Len(jdx) /\ Len(jdx) \in Nat /\ DOMAIN jdx = 1 .. Len(jdx)
  BY Sizes DEF BoardBar
<1>5. BoardBar \in [1 .. Len(jdx) -> Nat]
  <2>1. BoardBar = [i \in 1 .. Len(jdx) |-> BoardBar[i]]
    BY <1>4 DEF BoardBar
  <2>. QED BY <1>3, <1>4, <2>1
<1>6. BoardBar \in Seq(Nat)
  BY <1>4, <1>5, SeqDef
<1>7. Len(BoardBar) = Len(jdx)
  BY <1>4, <1>6
<1>. QED BY <1>2, <1>4, <1>6, <1>7

LEMMA BoardSeqNext ==
  TypeOK' => (BoardBar \in Seq(Nat) /\ Len(BoardBar) = Len(jdx))'
<1>1. TypeOK => BoardBar \in Seq(Nat) /\ Len(BoardBar) = Len(jdx)
  BY BoardSeq
<1>. QED BY <1>1, PTL

\* WriteIdx is the post, WriteJhd tells its number, and nothing else changes
\* the board.
LEMMA BoardStep ==
  ASSUME OnePoster, IInv, IInv', [Next]_vars, Grows
  PROVE  [Board!BoardNext]_(Board!boardVars)
<1>1. TypeOK /\ TypeOK' /\ FilesInv /\ BaseMsg' = BaseMsg
  BY DEF IInv, Grows
<1>2. /\ \A i \in DOMAIN jdx : i \in DOMAIN jdx' /\ BoardBar'[i] = BoardBar[i]
  BY <1>1, BoardKept
<1>3. ASSUME NEW p \in Posters, WriteIdx(p)
      PROVE  \E m \in 1 .. MaxPosts : Board!Post(m)
  <2>0. PICK n : n = Len(jdx)
    OBVIOUS
  <2>1. /\ made \in 1 .. MaxPosts /\ told' = told /\ n \in Nat
        /\ \A i \in DOMAIN jdx : BoardBar[i] # made
        /\ Len(jdx') = n + 1
    <3>1. PostInv(p)
      BY DEF IInv
    <3>2. made > 0 /\ jdx' = Append(jdx, post[p].loc)
      BY <1>3, <3>1 DEF WriteIdx, PostInv, WriteAt
    <3>. QED BY <1>1, <1>3, <2>0, <3>1, <3>2, Sizes DEF WriteIdx, PostInv
  <2>2. BoardBar'[n + 1] = made
    <3>1. PostInv(p)' /\ PostInv(p)
      BY DEF IInv
    <3>2. post'[p].pc = "writejhd" /\ post'[p].body = made /\ made' = made
      <4>1. post[p] \in PostCalls
        BY <1>1 DEF TypeOK
      <4>. QED BY <1>1, <1>3, <3>1 DEF WriteIdx, PostInv, TypeOK, PostCalls
    <3>3. \A k : k = Len(jdx') => Active(k)' /\ BodyAt(k)' = made
      BY <3>1, <3>2 DEF PostInv
    <3>4. Active(n + 1)' /\ BodyAt(n + 1)' = made
      <4>1. PICK k : k = n + 1
        OBVIOUS
      <4>. QED BY <2>1, <3>3, <4>1
    <3>. QED BY <1>1, <3>4 DEF BoardBar, Active, TypeOK
  <2>3. BoardBar' = Append(BoardBar, made)
    <3>1. /\ BoardBar \in Seq(Nat) /\ Len(BoardBar) = n /\ DOMAIN BoardBar = 1 .. n
          /\ DOMAIN jdx = 1 .. n
      BY <1>1, <2>0, BoardSeq, Sizes
    <3>2. BoardBar' \in Seq(Nat) /\ Len(BoardBar') = n + 1
      BY <1>1, <2>1, BoardSeqNext
    <3>3. Append(BoardBar, made) \in Seq(Nat) /\ Len(Append(BoardBar, made)) = n + 1
          /\ \A i \in 1 .. n : Append(BoardBar, made)[i] = BoardBar[i]
          /\ Append(BoardBar, made)[n + 1] = made
      BY <2>1, <3>1
    <3>4. \A i \in 1 .. n + 1 : BoardBar'[i] = Append(BoardBar, made)[i]
      BY <1>2, <2>1, <2>2, <3>1, <3>3
    <3>. QED BY <3>2, <3>3, <3>4, SeqEqual
  <2>4. made \notin Board!OnBoard
    BY <1>1, <2>1, BoardSeq DEF Board!OnBoard
  <2>5. Board!Post(made)
    BY <1>1, <2>1, <2>3, <2>4 DEF Board!Post
  <2>. QED BY <2>1, <2>5
<1>4. ASSUME NEW p \in Posters, WriteJhd(p)
      PROVE  \E i \in DOMAIN BoardBar : Board!Tell(i)
  <2>0. PICK n : n = Len(jdx)
    OBVIOUS
  <2>1. /\ n > 0 /\ post[p].num = BaseMsg + n - 1 /\ Active(n) /\ BodyAt(n) = post[p].body
        /\ told' = told \union {[num |-> post[p].num, body |-> post[p].body]}
        /\ UNCHANGED <<jdt, jhr, jdx>>
    BY <1>4, <2>0 DEF IInv, PostInv, WriteJhd
  <2>2. n \in DOMAIN BoardBar /\ BoardBar[n] = post[p].body
    <3>1. n \in DOMAIN jdx /\ jdx[n] # 0
      BY <1>1, <2>1, NumberLemma DEF Active
    <3>. QED BY <1>1, <2>1, <3>1, BoardSeq
  <2>3. BoardBar' = BoardBar
    BY <2>1 DEF BoardBar, BodyAt, BodyOf
  <2>. QED BY <1>1, <2>1, <2>2, <2>3 DEF Board!Tell
<1>5. ASSUME jdx' = jdx, told' = told PROVE UNCHANGED Board!boardVars
  <2>1. BoardBar = [i \in DOMAIN jdx |-> BoardBar[i]]
        /\ BoardBar' = [i \in DOMAIN jdx' |-> BoardBar'[i]]
    BY DEF BoardBar
  <2>2. BoardBar' = BoardBar
    BY <1>2, <1>5, <2>1
  <2>. QED BY <1>1, <1>5, <2>2 DEF Board!boardVars
<1>6. \/ \E p \in Posters : WriteIdx(p) \/ WriteJhd(p)
      \/ jdx' = jdx /\ told' = told
  <2>1. CASE UNCHANGED vars
    BY <2>1 DEF vars
  <2>2. ASSUME NEW p \in Posters, PosterStep(p), ~WriteIdx(p), ~WriteJhd(p)
        PROVE  jdx' = jdx /\ told' = told
    BY <2>2 DEF PosterStep, BeginAppend, StatText, StatHdr, StatIdx, StatEnd, WriteText, WriteHdr,
                AbortAppend, files
  <2>3. ASSUME NEW m \in Markers, MarkerStep(m) PROVE jdx' = jdx /\ told' = told
    BY <2>3 DEF MarkerStep, PickMessage, ReadAttr, WriteAttr, files
  <2>4. ASSUME NEW r \in Readers, ReaderStep(r) PROVE jdx' = jdx /\ told' = told
    BY <2>4 DEF ReaderStep, ReadMsg, NextActive, ReadHeader, ReadText, ShowArticle, files
  <2>. QED BY <2>1, <2>2, <2>3, <2>4 DEF Next
<1>. QED BY <1>3, <1>4, <1>5, <1>6 DEF Board!BoardNext

\* The four files implement the board of MessageBoard: an index record put
\* behind the end is a post, the return of AppendMsg tells its number, and every
\* other step, failed and torn writes included, leaves the board as it is.
THEOREM Refinement ==
  ASSUME OnePoster
  PROVE  Spec => IsABoard
<1>1. Init => Board!BoardInit
  <2> SUFFICES ASSUME Init PROVE Board!BoardInit
    OBVIOUS
  <2>1. TypeOK
    BY InitKeeps DEF IInv
  <2>2. told = {}
    BY DEF Init
  <2>. QED BY <2>1, <2>2, BoardSeq, BaseLemma DEF Board!BoardInit
<1>2. IInv /\ IInv' /\ [Next]_vars => [Board!BoardNext]_(Board!boardVars)
  BY NextKeeps, BoardStep
<1>3. Spec => []IInv
  BY Inductive
<1>. QED BY <1>1, <1>2, <1>3, PTL DEF Spec, IsABoard, Board!BoardSpec

=============================================================================
