---------------------------- MODULE MessageAreas ----------------------------
(***************************************************************************)
(* The JAM message areas (internal/mail) as their readers use them: the    *)
(* messages of each area, the pointers of .jlr and the directories of      *)
(* attached files.                                                         *)
(*                                                                         *)
(* Here a call of AppendMsg or jamChangeAttr is one step and a search sees *)
(* one state of the base: JamBase takes these calls apart.  What callers   *)
(* do between two calls is what this module is for.                        *)
(***************************************************************************)
EXTENDS Integers, Sequences, SequencesExt, FiniteSets

CONSTANTS AreaList,    \* the areas in the order of their records
          BaseNum,     \* the base number of each area's .jhd
          Names,       \* what messages say: names, message IDs and directories
          Users,
          Handle,      \* the handle of each user
          Readable,    \* areas each user's security lets him read
          Writable,    \* and write
          Sysop,       \* areas in which he has the sysop's security
          GroupsOf,    \* the message groups each area belongs to
          Dirs         \* the names attach directories may get

Areas == {AreaList[i] : i \in DOMAIN AreaList}

ASSUME MessageAreasAssumption ==
  /\ AreaList \in Seq(Areas)
  /\ BaseNum \in [Areas -> Nat \ {0}]
  /\ Users \cup Dirs \cup {"none", "local"} \subseteq Names /\ "none" \notin Dirs
  /\ \A f \in {Readable, Writable, Sysop} : f \in [Users -> SUBSET Areas]

VARIABLES base,   \* the messages of each area in the order of its index
          jlr,    \* the last-read records of each area
          dirs,   \* attach directories: whether there and whose files in them
          lapped, \* areas of which one new reader's record was put over
                  \* another's: a history variable
          shared  \* directories a second poster took while the first had
                  \* received nothing yet: a history variable

areaVars == <<base, jlr, dirs, lapped, shared>>

Messages == [num : Nat, id : Names, from : Names, to : Names, private : BOOLEAN,
             deleted : BOOLEAN, rcvd : BOOLEAN, fatt : BOOLEAN, dir : Names]
Records == [who : Names, num : Nat]

\* What a user goes by in a message and in .jlr: his name or his handle.
Keys(u) == {u, Handle[u]}

\* num is 0 in a header without a number; the subject of a message with
\* attached files is their directory.
Message(num, id, from, to, private) ==
  [num |-> num, id |-> id, from |-> from, to |-> to, private |-> private,
   deleted |-> FALSE, rcvd |-> FALSE, fatt |-> FALSE, dir |-> "none"]

Number(a, i) == IF base[a][i].num > 0 THEN base[a][i].num ELSE BaseNum[a] + i - 1
Active(a) == {i \in DOMAIN base[a] : ~base[a][i].deleted}
Nums(S, a) == {Number(a, i) : i \in S}

\* Stats: the highest number in use.
High(a) == Max({0} \cup Nums(Active(a), a))

\* An article as readers hold it, with the number it was found by.
ArticleAt(a, i) == [base[a][i] EXCEPT !.num = Number(a, i)]

InGroup(a, group) == group = 0 \/ group \in GroupsOf[a]
Accessible(a, u, check, group) == a \in Readable[u] /\ (check => InGroup(a, group))
WriteAccessible(a, u) == a \in Writable[u]

CanRead(a, art, u) ==
  ~art.private \/ a \in Sysop[u] \/ art.to \in Keys(u) \/ art.from \in Keys(u)

---------------------------------------------------------------------------
(* Searches. *)

First(S) == {i \in S : \A j \in S : i <= j}
Final(S) == {i \in S : \A j \in S : i >= j}

\* The elements of a finite set in the order LE: the k-th is the one up to which
\* there are k.  The provers know nothing of SelectSeq.
InOrder(S, LE(_, _)) ==
  [k \in 1..Cardinality(S) |-> CHOOSE x \in S : Cardinality({y \in S : LE(y, x)}) = k]
Sorted(S) == InOrder(S, LAMBDA i, j : i <= j)
Picked(seq, S) == LET at == Sorted(S) IN [k \in DOMAIN at |-> seq[at[k]]]

\* Mutant of NextActive: the slots are counted from 1.
NextActiveOffByOne(a, from0, forward) ==
  LET from == Max({from0, 1})
      n == Len(base[a])
      slot == from - BaseNum[a] + 2
      start == IF slot \in 1..n THEN slot ELSE IF forward THEN 1 ELSE n
      due == {i \in Active(a) : IF forward THEN Number(a, i) >= from
                                ELSE from <= 1 \/ Number(a, i) <= from}
  IN IF ~forward THEN Final({i \in due : i <= start})
     ELSE IF \E i \in due : i >= start THEN First({i \in due : i >= start})
     ELSE First(due)

\* NextActive, as the set of the slot found.  Forward, the search starts at the
\* slot a base numbered without gaps would have and then looks at those before
\* it; backward it goes to the first slot only.
NextActive(a, from0, forward) ==
  LET from == Max({from0, 1})
      n == Len(base[a])
      slot == from - BaseNum[a] + 1
      start == IF slot \in 1..n THEN slot ELSE IF forward THEN 1 ELSE n
      due == {i \in Active(a) : IF forward THEN Number(a, i) >= from
                                ELSE from <= 1 \/ Number(a, i) <= from}
  IN IF ~forward THEN Final({i \in due : i <= start})
     ELSE IF \E i \in due : i >= start THEN First({i \in due : i >= start})
     ELSE First(due)

\* jamFindMsg, ReadMsg: the slot num has without gaps, or the first with it.
FindMsg(a, num) ==
  LET hits == {i \in Active(a) : Number(a, i) = num}
      slot == num - BaseNum[a] + 1
  IN IF num < 1 THEN {} ELSE IF slot \in hits THEN {slot} ELSE First(hits)

\* yoursAt: the messages for u not yet received.
Yours(a, u) == {i \in Active(a) : ~base[a][i].rcvd /\ base[a][i].to \in Keys(u)}

\* CollectYours for one area after another until max messages are found; some
\* are the places of the areas u may read.
ScanMailbox(some, u, max) ==
  LET mine == UNION {{<<k, i>> : i \in Yours(AreaList[k], u)} : k \in some}
      found == InOrder(mine, LAMBDA p, q : p[1] < q[1] \/ (p[1] = q[1] /\ p[2] <= q[2]))
      hit(p) == [area |-> AreaList[p[1]], num |-> Number(AreaList[p[1]], p[2])]
  IN [k \in 1..Min({max, Len(found)}) |-> hit(found[k])]

\* ReadJAM counts headers without a number from 1, whatever the base number.
ReadJAM(a) ==
  LET art(i) == LET m == base[a][i]
                    num == IF m.num = 0 THEN i ELSE m.num
                IN [num |-> num, id |-> IF m.id = "local" THEN <<"local", num>> ELSE <<m.id, 0>>]
      slots == Sorted(Active(a))
  IN [k \in DOMAIN slots |-> art(slots[k])]

---------------------------------------------------------------------------
(* Last-read pointers. *)

\* jamLastRead: the first record under the name or the handle.
LastRead(a, u) ==
  LET hits == First({k \in DOMAIN jlr[a] : jlr[a][k].who \in Keys(u)}) IN
  IF hits = {} THEN 0 ELSE jlr[a][CHOOSE k \in hits : TRUE].num

\* Mutant of RecordOf: only the first record is looked at.
RecordOfFirst(a, u) == {k \in DOMAIN jlr[a] : k = 1 /\ jlr[a][k].who = u}

\* SetLastRead looks for the name only.
RecordOf(a, u) == First({k \in DOMAIN jlr[a] : jlr[a][k].who = u})

SetInPlace(a, u, num) ==
  \E k \in RecordOf(a, u) : jlr' = [jlr EXCEPT ![a][k].num = num]

\* The record of a new reader goes where the file ended when he looked.
PutBehind(a, u, num, at) ==
  LET r == [who |-> u, num |-> num] IN
  /\ jlr' = [jlr EXCEPT ![a] = IF at <= Len(@) THEN [@ EXCEPT ![at] = r] ELSE Append(@, r)]
  /\ lapped' = IF at <= Len(jlr[a]) THEN lapped \cup {a} ELSE lapped

---------------------------------------------------------------------------
(* Messages. *)

NextNumber(a) == BaseNum[a] + Len(base[a])
Appended(a, m) == base' = [base EXCEPT ![a] = Append(@, [m EXCEPT !.num = NextNumber(a)])]

\* jamChangeAttr, of the message FindMsg finds, if any.
SetReceived(a, num) ==
  base' = [base EXCEPT ![a] = [i \in DOMAIN base[a] |->
             [base[a][i] EXCEPT !.rcvd = @ \/ i \in FindMsg(a, num)]]]
ClearFAttach(a, num) ==
  base' = [base EXCEPT ![a] = [i \in DOMAIN base[a] |->
             [base[a][i] EXCEPT !.fatt = @ /\ i \notin FindMsg(a, num)]]]

---------------------------------------------------------------------------
(* Attach directories. *)

\* Mutant of FreeDirs: an existing directory is taken with what it holds.
AnyDirs == {d \in Dirs : dirs[d].state # "gone"}

\* createTempDir: the name is the time of day, or the next one if that one
\* holds files; one that is gone comes back after a day, which is not modelled.
FreeDirs == {d \in Dirs : dirs[d].state = "new" \/ (dirs[d].state = "there" /\ dirs[d].files = {})}

Take(d) ==
  /\ dirs' = [dirs EXCEPT ![d].state = "there"]
  /\ shared' = IF dirs[d].state = "there" /\ dirs[d].files = {} THEN shared \cup {d} ELSE shared

\* os.Remove removes a directory that is empty.
Removed(d, left) ==
  [dirs EXCEPT ![d].files = left, ![d].state = IF left = {} THEN "gone" ELSE @]
=============================================================================
