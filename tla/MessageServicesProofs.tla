----------------------- MODULE MessageServicesProofs -----------------------
(***************************************************************************)
(* Proofs about MessageServices: attached files stay with their message,   *)
(* pointers say what was last set, the position of a news client stays in  *)
(* its group, and new messages are shown, for any areas, callers, messages *)
(* and connections.                                                        *)
(***************************************************************************)
EXTENDS MessageServices, FiniteSetTheorems, SequenceTheorems, TLAPS

---------------------------------------------------------------------------
(* Types. *)

Places == {"menu", "area", "ask", "find", "hit", "bar", "files", "kill", "mark", "behind",
           "rcvd", "act", "write", "attach", "upload", "save"}
AreaOrNone == Areas \cup {"none"}
MailHits == [area : Areas, num : Nat]
Numbers == Int
Tasks == {"none", "read", "mailbox"}
Acts == {"next", "stop", "last", "again", "reply", "enter", "files"}
Sessions ==
  [at : Places, task : Tasks, list : Seq(AreaOrNone), combined : BOOLEAN, i : Numbers,
   first : BOOLEAN, forward : BOOLEAN, onward : BOOLEAN, individual : BOOLEAN,
   newScan : BOOLEAN, high : Nat, from : Nat, cur : Numbers, art : Messages, act : Acts,
   hits : Seq(MailHits), size : Nat, back : {"menu", "find", "hit"}, area : AreaOrNone,
   post : Messages, listed : SUBSET Users, owed : SUBSET Nat, straight : BOOLEAN,
   ended : BOOLEAN]
Arts == [num : Nat, id : Names \X Nat]
NewsSessions ==
  [at : {"command", "posting", "posted", "gone"}, pending : Users \cup {None},
   user : Users \cup {None}, cur : Groups \cup {None}, arts : Seq(Arts), curNum : Nat,
   group : Groups \cup {None}, num : Nat]

AreaTypes ==
  /\ base \in [Areas -> Seq(Messages)]
  /\ jlr \in [Areas -> Seq(Records)]
  /\ dirs \in [Dirs -> [state : {"new", "there", "gone"}, files : SUBSET Users]]
  /\ lapped \in SUBSET Areas /\ shared \in SUBSET Dirs

ReaderTypes ==
  /\ bbs \in [Nodes -> Sessions]
  /\ prof \in [Nodes -> [area : AreaOrNone, group : Nat, combined : Seq(AreaOrNone)]]
  /\ last \in [Users -> [Areas -> Nat]]

NewsTypes == news \in [Conns -> NewsSessions]

TypeOK == AreaTypes /\ ReaderTypes /\ NewsTypes

---------------------------------------------------------------------------
(* Attached files. *)

\* A session has an area while it reads or writes in one.
Located(s) ==
  /\ s.at \notin {"menu", "area", "ask", "hit"} => s.area \in Areas
  /\ s.at = "ask" => s.list[s.i] \in Areas

\* What a session has of a directory: none outside an upload,
Carries(s) ==
  /\ s.at \notin {"upload", "save"} => s.post.dir \notin Dirs
  /\ s.at = "upload" => s.post.dir \in Dirs
  /\ s.at # "save" => ~s.post.fatt
  /\ s.post.fatt => s.post.dir \in Dirs
  /\ ~s.post.deleted

\* and a message on its screen with files is a message of this run, which has
\* the number of its slot among the messages of its area.
Backed(s, all) ==
  /\ s.at \in {"files", "kill"} => s.art.fatt
  /\ s.at \in {"bar", "files", "kill"} /\ s.art.fatt =>
       \E i \in DOMAIN all[s.area] :
         LET m == all[s.area][i] IN
         /\ ~m.deleted /\ m.num = s.art.num /\ m.num = BaseNum[s.area] + i - 1
         /\ m.dir = s.art.dir /\ m.dir \in Dirs

SessionInv == \A n \in Nodes : Located(bbs[n]) /\ Carries(bbs[n]) /\ Backed(bbs[n], base)

\* Messages with files are those posted in this run.
FilesInv ==
  \A a \in Areas : \A i \in DOMAIN base[a] :
    LET m == base[a][i] IN
    m.fatt => /\ m.dir \in Dirs /\ ~m.deleted
              /\ m.num = BaseNum[a] + i - 1

\* A directory nobody shares is a session's or a message's.
OneOwner ==
  \A d \in Dirs \ shared :
    /\ \A a, b \in Areas : \A i \in DOMAIN base[a], j \in DOMAIN base[b] :
         base[a][i].dir = d /\ base[b][j].dir = d => a = b /\ i = j
    /\ \A a \in Areas : \A i \in DOMAIN base[a], n \in Nodes :
         ~(base[a][i].dir = d /\ bbs[n].post.dir = d)
    /\ \A m, n \in Nodes : bbs[m].post.dir = d /\ bbs[n].post.dir = d => m = n

\* A new directory is nobody's.
NewFree ==
  \A d \in Dirs : dirs[d].state = "new" =>
    /\ \A a \in Areas : \A i \in DOMAIN base[a] : base[a][i].dir # d
    /\ \A n \in Nodes : bbs[n].post.dir # d

\* Files announced are there.
FilesThere ==
  /\ \A a \in Areas : \A i \in DOMAIN base[a] :
       base[a][i].fatt /\ base[a][i].dir \notin shared => dirs[base[a][i].dir].files # {}
  /\ \A n \in Nodes :
       bbs[n].post.fatt /\ bbs[n].post.dir \notin shared => dirs[bbs[n].post.dir].files # {}

AttachInv == SessionInv /\ FilesInv /\ OneOwner /\ NewFree /\ FilesThere

---------------------------------------------------------------------------
(* Pointers. *)

\* Whoever is about to add a record has none yet.
BehindInv ==
  \A n \in Nodes :
    LET a == bbs[n].area IN
    bbs[n].at = "behind" /\ a \notin lapped =>
      \A k \in DOMAIN jlr[a] : jlr[a][k].who # Me(n)

PointersInv == BehindInv /\ PointersKept

---------------------------------------------------------------------------
(* The news client. *)

\* What was posted is in the group it was posted to.
PostedInv ==
  \A c \in Conns : news[c].at = "posted" =>
    /\ news[c].group \in Groups /\ news[c].group # None
    /\ news[c].num \in ArtNums(ReadJAM(news[c].group))

NewsInv == PostedInv /\ NewsPosition

IInv == TypeOK /\ AttachInv /\ PointersInv /\ NewsInv

---------------------------------------------------------------------------
(* Orders. *)

\* In a finite set whose elements have nested sets of those below them there
\* is, for each number, just one with that many.
LEMMA Ranks ==
  ASSUME NEW S, IsFiniteSet(S), NEW below \in [S -> SUBSET S],
         \A x \in S : x \in below[x],
         \A x, y \in S : x # y => \/ below[x] \subseteq below[y] /\ y \notin below[x]
                                  \/ below[y] \subseteq below[x] /\ x \notin below[y]
  PROVE  /\ \A k \in 1..Cardinality(S) : \E x \in S : Cardinality(below[x]) = k
         /\ \A x \in S : Cardinality(below[x]) \in 1..Cardinality(S)
         /\ \A x, y \in S : Cardinality(below[x]) = Cardinality(below[y]) => x = y
<1> DEFINE f == [x \in S |-> Cardinality(below[x])]
<1> DEFINE m == Cardinality(S)
<1>1. \A x \in S : IsFiniteSet(below[x]) /\ Cardinality(below[x]) <= m
  BY FS_Subset
<1>2. m \in Nat /\ \A x \in S : Cardinality(below[x]) \in Nat \ {0}
  <2>1. \A x \in S : Cardinality(below[x]) \in Nat /\ Cardinality(below[x]) # 0
    BY <1>1, FS_CardinalityType, FS_EmptySet
  <2> QED BY <2>1, FS_CardinalityType
<1>3. \A x, y \in S : below[x] \subseteq below[y] /\ y \notin below[x]
                        => Cardinality(below[x]) # Cardinality(below[y])
  <2> SUFFICES ASSUME NEW x \in S, NEW y \in S, below[x] \subseteq below[y], y \notin below[x],
                      Cardinality(below[x]) = Cardinality(below[y])
               PROVE  FALSE
    OBVIOUS
  <2>1. below[x] = below[y]
    BY <1>1, FS_Subset
  <2> QED BY <2>1
<1>4. \A x, y \in S : Cardinality(below[x]) = Cardinality(below[y]) => x = y
  BY <1>3
<1>5. \A x \in S : Cardinality(below[x]) \in 1..m
  <2> HIDE DEF m
  <2> QED BY <1>1, <1>2
<1>6. IsFiniteSet(1..m) /\ Cardinality(1..m) = m
  <2> HIDE DEF m
  <2>1. IsFiniteSet(1..m) /\ Cardinality(1..m) = IF 1 > m THEN 0 ELSE m - 1 + 1
    BY <1>2, FS_Interval
  <2> QED BY <1>2, <2>1
<1>7. f \in Injection(S, 1..m)
  BY <1>4, <1>5, Zenon DEF Injection, IsInjective
<1>8. f \in Surjection(S, 1..m)
  BY <1>6, <1>7, FS_Injection
<1>9. \A k \in 1..m : \E x \in S : f[x] = k
  BY <1>8 DEF Surjection
<1> QED BY <1>4, <1>5, <1>9

\* Numbers have sets below them like that,
LEMMA CountUpTo ==
  ASSUME NEW S \in SUBSET Nat, IsFiniteSet(S)
  PROVE  /\ Cardinality(S) \in Nat
         /\ \A k \in 1..Cardinality(S) : \E x \in S : Cardinality({y \in S : y <= x}) = k
         /\ \A x \in S : Cardinality({y \in S : y <= x}) \in 1..Cardinality(S)
         /\ \A x, y \in S :
              Cardinality({z \in S : z <= x}) = Cardinality({z \in S : z <= y}) => x = y
<1> DEFINE below == [x \in S |-> {y \in S : y <= x}]
<1>2. below \in [S -> SUBSET S] /\ \A x \in S : below[x] = {y \in S : y <= x}
  OBVIOUS
<1> HIDE DEF below
<1>3. \A x \in S : x \in below[x]
  BY <1>2
<1>4. \A x, y \in S : x < y => below[x] \subseteq below[y] /\ y \notin below[x]
  <2> SUFFICES ASSUME NEW x \in S, NEW y \in S, x < y
               PROVE  below[x] \subseteq below[y] /\ y \notin below[x]
    OBVIOUS
  <2>1. x \in Nat /\ y \in Nat
    OBVIOUS
  <2>2. y \notin below[x]
    BY <1>2, <2>1
  <2>3. ASSUME NEW z \in below[x] PROVE z \in below[y]
    <3>1. z \in S /\ z \in Nat /\ z <= x
      BY <1>2
    <3>2. z <= y
      BY <2>1, <3>1
    <3> QED BY <1>2, <3>1, <3>2
  <2> QED BY <2>2, <2>3
<1>0. \A x, y \in S : x # y => \/ below[x] \subseteq below[y] /\ y \notin below[x]
                               \/ below[y] \subseteq below[x] /\ x \notin below[y]
  <2> TAKE x, y \in S
  <2>1. x \in Nat /\ y \in Nat
    OBVIOUS
  <2>2. x = y \/ x < y \/ y < x
    BY <2>1
  <2> QED BY <1>4, <2>2, Zenon
<1>5. /\ \A k \in 1..Cardinality(S) : \E x \in S : Cardinality(below[x]) = k
      /\ \A x \in S : Cardinality(below[x]) \in 1..Cardinality(S)
      /\ \A x, y \in S : Cardinality(below[x]) = Cardinality(below[y]) => x = y
  BY <1>0, <1>2, <1>3, Ranks
<1>6. Cardinality(S) \in Nat
  BY FS_CardinalityType
<1>7. \A x \in S : Cardinality({y \in S : y <= x}) = Cardinality(below[x])
  BY <1>2
<1>8. \A k \in 1..Cardinality(S) : \E x \in S : Cardinality({y \in S : y <= x}) = k
  BY <1>5, <1>7
<1>9. /\ \A x \in S : Cardinality({y \in S : y <= x}) \in 1..Cardinality(S)
      /\ \A x, y \in S :
           Cardinality({z \in S : z <= x}) = Cardinality({z \in S : z <= y}) => x = y
  BY <1>5, <1>7
<1> QED BY <1>6, <1>8, <1>9

\* so that Sorted lists the elements of a finite set of numbers,
LEMMA SortedFacts ==
  ASSUME NEW S \in SUBSET Nat, IsFiniteSet(S)
  PROVE  /\ Sorted(S) \in Seq(S)
         /\ Len(Sorted(S)) = Cardinality(S)
         /\ \A k \in DOMAIN Sorted(S) : Sorted(S)[k] \in S
         /\ \A x \in S : \E k \in DOMAIN Sorted(S) : Sorted(S)[k] = x
         /\ \A k \in DOMAIN Sorted(S) : Cardinality({y \in S : y <= Sorted(S)[k]}) = k
<1> DEFINE upTo(x) == {y \in S : y <= x}
<1> DEFINE at == [k \in 1..Cardinality(S) |-> CHOOSE x \in S : Cardinality(upTo(x)) = k]
<1>1. Sorted(S) = at
  BY DEF Sorted, InOrder
<1>2. /\ Cardinality(S) \in Nat
      /\ \A k \in 1..Cardinality(S) : \E x \in S : Cardinality(upTo(x)) = k
      /\ \A x \in S : Cardinality(upTo(x)) \in 1..Cardinality(S)
      /\ \A x, y \in S : Cardinality(upTo(x)) = Cardinality(upTo(y)) => x = y
  BY CountUpTo
<1> HIDE DEF upTo
<1>3. \A k \in 1..Cardinality(S) : at[k] \in S /\ Cardinality(upTo(at[k])) = k
  BY <1>2
<1>4. DOMAIN at = 1..Cardinality(S)
  OBVIOUS
<1>5. at \in Seq(S) /\ Len(at) = Cardinality(S)
  <2>1. at \in [1..Cardinality(S) -> S]
    BY <1>3, Zenon
  <2> HIDE DEF at
  <2> QED BY <1>2, <2>1, SeqDef
<1> HIDE DEF at
<1>6. \A x \in S : \E k \in DOMAIN at : at[k] = x
  <2> TAKE x \in S
  <2>1. Cardinality(upTo(x)) \in 1..Cardinality(S)
    BY <1>2
  <2>2. at[Cardinality(upTo(x))] = x
    BY <1>2, <1>3, <2>1
  <2> QED BY <1>4, <2>1, <2>2
<1>7. \A k \in DOMAIN at : Cardinality({y \in S : y <= at[k]}) = k
  BY <1>3, <1>4 DEF upTo
<1> QED BY <1>1, <1>3, <1>4, <1>5, <1>6, <1>7

\* of which a set that grows at its end keeps those it had,
LEMMA SortedGrows ==
  ASSUME NEW S \in SUBSET Nat, IsFiniteSet(S), NEW T \in SUBSET Nat, IsFiniteSet(T),
         S \subseteq T, \A x \in T \ S, y \in S : y < x
  PROVE  /\ Len(Sorted(S)) <= Len(Sorted(T))
         /\ \A k \in DOMAIN Sorted(S) : k \in DOMAIN Sorted(T) /\ Sorted(T)[k] = Sorted(S)[k]
<1>1. Cardinality(S) \in Nat /\ Cardinality(T) \in Nat /\ Cardinality(S) <= Cardinality(T)
  BY FS_Subset, FS_CardinalityType
<1>2. /\ Len(Sorted(S)) = Cardinality(S) /\ DOMAIN Sorted(S) = 1..Cardinality(S)
      /\ Len(Sorted(T)) = Cardinality(T) /\ DOMAIN Sorted(T) = 1..Cardinality(T)
  <2>1. Sorted(S) \in Seq(S) /\ Len(Sorted(S)) = Cardinality(S)
    BY SortedFacts
  <2>2. Sorted(T) \in Seq(T) /\ Len(Sorted(T)) = Cardinality(T)
    BY SortedFacts
  <2> QED BY <2>1, <2>2
<1>3. \A k \in DOMAIN Sorted(S) :
        Sorted(S)[k] \in S /\ Cardinality({y \in S : y <= Sorted(S)[k]}) = k
  BY SortedFacts
<1>4. \A k \in DOMAIN Sorted(T) :
        Sorted(T)[k] \in T /\ Cardinality({y \in T : y <= Sorted(T)[k]}) = k
  BY SortedFacts
<1>5. \A x \in S : {y \in T : y <= x} = {y \in S : y <= x}
  <2> SUFFICES ASSUME NEW x \in S, NEW y \in T, y <= x PROVE y \in S
    OBVIOUS
  <2>1. x \in Nat /\ y \in Nat
    OBVIOUS
  <2>2. ~(x < y)
    BY <2>1
  <2> QED BY <2>2
<1>6. SUFFICES ASSUME NEW k \in DOMAIN Sorted(S)
               PROVE  k \in DOMAIN Sorted(T) /\ Sorted(T)[k] = Sorted(S)[k]
  BY <1>1, <1>2
<1>7. k \in DOMAIN Sorted(T)
  BY <1>1, <1>2
<1>8. /\ Sorted(S)[k] \in T /\ Sorted(T)[k] \in T
      /\ Cardinality({y \in T : y <= Sorted(S)[k]}) = Cardinality({y \in T : y <= Sorted(T)[k]})
  BY <1>3, <1>4, <1>5, <1>7
<1>9. \A x, y \in T :
        Cardinality({z \in T : z <= x}) = Cardinality({z \in T : z <= y}) => x = y
  BY CountUpTo
<1> QED BY <1>7, <1>8, <1>9

\* and they have a highest and a lowest one.
LEMMA MaxFacts ==
  ASSUME NEW S \in SUBSET Nat, IsFiniteSet(S), S # {}
  PROVE  Max(S) \in S /\ \A y \in S : y <= Max(S)
<1>1. Cardinality(S) \in Nat \ {0}
  BY FS_CardinalityType, FS_EmptySet
<1>2. PICK x \in S : Cardinality({y \in S : y <= x}) = Cardinality(S)
  BY <1>1, CountUpTo
<1>3. {y \in S : y <= x} = S
  BY <1>2, FS_Subset
<1>4. \A y \in S : x >= y
  BY <1>3
<1>5. Max(S) \in S /\ \A y \in S : Max(S) >= y
  BY <1>4, Zenon DEF Max
<1> QED BY <1>5

LEMMA MinFacts ==
  ASSUME NEW S \in SUBSET Nat, IsFiniteSet(S), S # {}
  PROVE  Min(S) \in S /\ \A y \in S : Min(S) <= y
<1>1. Cardinality(S) \in Nat \ {0}
  BY FS_CardinalityType, FS_EmptySet
<1>2. 1 \in 1..Cardinality(S)
  BY <1>1
<1>3. PICK x \in S : Cardinality({y \in S : y <= x}) = 1
  BY <1>2, CountUpTo
<1>4. IsFiniteSet({y \in S : y <= x})
  BY FS_Subset
<1>5. PICK z : {y \in S : y <= x} = {z}
  BY <1>3, <1>4, FS_Singleton
<1>6. \A y \in S : x <= y
  <2> SUFFICES ASSUME NEW y \in S, ~(x <= y) PROVE FALSE
    OBVIOUS
  <2>1. y < x
    OBVIOUS
  <2>2. y \in {v \in S : v <= x} /\ x \in {v \in S : v <= x}
    BY <2>1
  <2> QED BY <1>5, <2>1, <2>2
<1>7. Min(S) \in S /\ \A y \in S : Min(S) =< y
  BY <1>6, Zenon DEF Min
<1> QED BY <1>7


---------------------------------------------------------------------------
(* The articles read from a list of messages. *)

ActiveIn(b) == {i \in DOMAIN b : ~b[i].deleted}
ArtOf(m, i) ==
  LET num == IF m.num = 0 THEN i ELSE m.num
  IN [num |-> num, id |-> IF m.id = "local" THEN <<"local", num>> ELSE <<m.id, 0>>]
ArtsIn(b) == LET at == Sorted(ActiveIn(b)) IN [k \in DOMAIN at |-> ArtOf(b[at[k]], at[k])]

LEMMA ReadIsArtsIn == \A a : ReadJAM(a) = ArtsIn(base[a]) /\ ReadJAM(a)' = ArtsIn(base'[a])
  BY DEF ReadJAM, ArtsIn, ArtOf, Active, ActiveIn

LEMMA ActiveFinite ==
  ASSUME NEW b \in Seq(Messages)
  PROVE  ActiveIn(b) \in SUBSET Nat /\ IsFiniteSet(ActiveIn(b)) /\ ActiveIn(b) \in SUBSET DOMAIN b
<1>1. DOMAIN b = 1..Len(b) /\ Len(b) \in Nat
  OBVIOUS
<1>2. IsFiniteSet(1..Len(b))
  BY <1>1, FS_Interval
<1>3. ActiveIn(b) \in SUBSET (1..Len(b))
  BY <1>1 DEF ActiveIn
<1>4. IsFiniteSet(ActiveIn(b))
  BY <1>2, <1>3, FS_Subset
<1> QED BY <1>1, <1>3, <1>4

\* They are articles, one of each message that is not deleted.
LEMMA ArtsFacts ==
  ASSUME NEW b \in Seq(Messages)
  PROVE  /\ ArtsIn(b) \in Seq(Arts)
         /\ Len(ArtsIn(b)) = Len(Sorted(ActiveIn(b)))
         /\ DOMAIN ArtsIn(b) = DOMAIN Sorted(ActiveIn(b))
         /\ \A i \in ActiveIn(b) : \E k \in DOMAIN ArtsIn(b) : ArtsIn(b)[k] = ArtOf(b[i], i)
<1> DEFINE at == Sorted(ActiveIn(b))
<1>1. /\ ActiveIn(b) \in SUBSET Nat /\ IsFiniteSet(ActiveIn(b))
      /\ ActiveIn(b) \in SUBSET DOMAIN b
  BY ActiveFinite
<1>2. /\ at \in Seq(ActiveIn(b))
      /\ \A k \in DOMAIN at : at[k] \in ActiveIn(b)
      /\ \A i \in ActiveIn(b) : \E k \in DOMAIN at : at[k] = i
  BY <1>1, SortedFacts
<1>3. ArtsIn(b) = [k \in DOMAIN at |-> ArtOf(b[at[k]], at[k])]
  BY DEF ArtsIn
<1> HIDE DEF at
<1>4. \A i \in ActiveIn(b) : ArtOf(b[i], i) \in Arts
  <2> TAKE i \in ActiveIn(b)
  <2>1. i \in Nat /\ b[i] \in Messages
    BY <1>1
  <2>2. b[i].num \in Nat /\ b[i].id \in Names
    BY <2>1 DEF Messages
  <2> QED BY <2>1, <2>2 DEF ArtOf, Arts
<1>5. DOMAIN at = 1..Len(at) /\ Len(at) \in Nat
  BY <1>2
<1>6. ArtsIn(b) \in [1..Len(at) -> Arts]
  BY <1>2, <1>3, <1>4, <1>5
<1>7. ArtsIn(b) \in Seq(Arts) /\ Len(ArtsIn(b)) = Len(at) /\ DOMAIN ArtsIn(b) = DOMAIN at
  BY <1>5, <1>6, SeqDef
<1>8. \A i \in ActiveIn(b) : \E k \in DOMAIN ArtsIn(b) : ArtsIn(b)[k] = ArtOf(b[i], i)
  BY <1>2, <1>3, <1>7
<1> QED BY <1>7, <1>8 DEF at

\* Messages may be added and marked: the articles read before remain the first.
LEMMA ArtsGrow ==
  ASSUME NEW b \in Seq(Messages), NEW c \in Seq(Messages), Len(b) <= Len(c),
         \A i \in DOMAIN b : c[i].num = b[i].num /\ c[i].id = b[i].id /\ c[i].deleted = b[i].deleted
  PROVE  /\ Len(ArtsIn(b)) <= Len(ArtsIn(c))
         /\ \A k \in DOMAIN ArtsIn(b) : k \in DOMAIN ArtsIn(c) /\ ArtsIn(c)[k] = ArtsIn(b)[k]
<1> DEFINE S == ActiveIn(b)
<1> DEFINE T == ActiveIn(c)
<1>1. /\ S \in SUBSET Nat /\ IsFiniteSet(S) /\ S \in SUBSET DOMAIN b
      /\ T \in SUBSET Nat /\ IsFiniteSet(T) /\ T \in SUBSET DOMAIN c
  BY ActiveFinite
<1>2. S \subseteq T /\ \A x \in T \ S, y \in S : y < x
  BY DEF ActiveIn
<1>3. \A i \in S : ArtOf(c[i], i) = ArtOf(b[i], i)
  BY <1>1 DEF ArtOf
<1>4. /\ DOMAIN ArtsIn(b) = DOMAIN Sorted(S) /\ Len(ArtsIn(b)) = Len(Sorted(S))
      /\ DOMAIN ArtsIn(c) = DOMAIN Sorted(T) /\ Len(ArtsIn(c)) = Len(Sorted(T))
  BY ArtsFacts
<1>5. /\ \A k \in DOMAIN ArtsIn(b) : ArtsIn(b)[k] = ArtOf(b[Sorted(S)[k]], Sorted(S)[k])
      /\ \A k \in DOMAIN ArtsIn(c) : ArtsIn(c)[k] = ArtOf(c[Sorted(T)[k]], Sorted(T)[k])
  BY <1>4 DEF ArtsIn
<1>6. \A k \in DOMAIN Sorted(S) : Sorted(S)[k] \in S
  BY <1>1, SortedFacts
<1> HIDE DEF S, T
<1>7. /\ Len(Sorted(S)) <= Len(Sorted(T))
      /\ \A k \in DOMAIN Sorted(S) : k \in DOMAIN Sorted(T) /\ Sorted(T)[k] = Sorted(S)[k]
  BY <1>1, <1>2, SortedGrows
<1> QED BY <1>3, <1>4, <1>5, <1>6, <1>7


LEMMA PrefixFacts ==
  ASSUME NEW s \in Seq(Arts), NEW t \in Seq(Arts)
  PROVE  IsPrefix(s, t) <=> Len(s) <= Len(t) /\ \A k \in DOMAIN s : s[k] = t[k]
<1>1. Len(s) \in Nat /\ Len(t) \in Nat /\ DOMAIN s = 1..Len(s) /\ DOMAIN t = 1..Len(t)
  OBVIOUS
<1>2. ASSUME Len(s) <= Len(t) PROVE SubSeq(s, 1, Len(s)) = SubSeq(t, 1, Len(s)) <=> \A k \in DOMAIN s : s[k] = t[k]
  <2>1. \A i \in 1..Len(s) : s[i] \in Arts /\ t[i] \in Arts
    BY <1>1, <1>2
  <2>2. /\ SubSeq(s, 1, Len(s)) \in Seq(Arts) /\ Len(SubSeq(s, 1, Len(s))) = Len(s)
        /\ \A i \in 1..Len(s) : SubSeq(s, 1, Len(s))[i] = s[i]
    BY <1>1, <2>1, SubSeqProperties
  <2>3. /\ SubSeq(t, 1, Len(s)) \in Seq(Arts) /\ Len(SubSeq(t, 1, Len(s))) = Len(s)
        /\ \A i \in 1..Len(s) : SubSeq(t, 1, Len(s))[i] = t[i]
    BY <1>1, <2>1, SubSeqProperties
  <2> QED BY <1>1, <2>2, <2>3, SeqEqual
<1> QED BY <1>2 DEF IsPrefix

---------------------------------------------------------------------------
(* What the operators of the message areas return. *)

LEMMA NoMessageType ==
  /\ NoMessage \in Messages /\ NoMessage.dir \notin Dirs
  /\ ~NoMessage.fatt /\ ~NoMessage.deleted
<1>1. "none" \notin Dirs
  BY MessageAreasAssumption
<1>2. "local" \in Names /\ "none" \in Names /\ 0 \in Nat
  BY MessageAreasAssumption
<1> QED BY <1>1, <1>2 DEF NoMessage, Message, Messages

LEMMA QuietType == Quiet \in Sessions /\ Located(Quiet) /\ Carries(Quiet)
<1>1. Quiet \in Sessions
  BY NoMessageType DEF Quiet, Sessions, Places, Tasks, Acts, AreaOrNone, Numbers
<1>2. Quiet.at = "menu" /\ Quiet.post = NoMessage
  BY DEF Quiet
<1>3. Located(Quiet)
  BY <1>2 DEF Located
<1>4. Carries(Quiet)
  BY <1>2, NoMessageType DEF Carries
<1> QED BY <1>1, <1>3, <1>4

LEMMA NumberNat ==
  ASSUME AreaTypes, NEW a \in Areas, NEW i \in DOMAIN base[a]
  PROVE  Number(a, i) \in Nat \ {0}
<1>1. base[a] \in Seq(Messages)
  BY DEF AreaTypes
<1>2. base[a][i] \in Messages /\ i \in Nat \ {0}
  BY <1>1
<1>3. base[a][i].num \in Nat
  BY <1>2 DEF Messages
<1>4. BaseNum[a] \in Nat \ {0}
  BY MessageAreasAssumption
<1> QED BY <1>2, <1>3, <1>4 DEF Number

LEMMA ActiveFacts ==
  ASSUME AreaTypes, NEW a \in Areas
  PROVE  Active(a) \in SUBSET Nat /\ IsFiniteSet(Active(a)) /\ Active(a) \in SUBSET DOMAIN base[a]
<1>1. base[a] \in Seq(Messages) /\ Active(a) = ActiveIn(base[a])
  BY DEF AreaTypes, Active, ActiveIn
<1> QED BY <1>1, ActiveFinite

LEMMA HighNat ==
  ASSUME AreaTypes, NEW a \in Areas
  PROVE  High(a) \in Nat
<1> DEFINE S == {0} \cup Nums(Active(a), a)
<1>1. IsFiniteSet(Active(a)) /\ Active(a) \in SUBSET DOMAIN base[a]
  BY ActiveFacts
<1>2. S \in SUBSET Nat
  BY <1>1, NumberNat DEF Nums
<1>3. IsFiniteSet(Nums(Active(a), a))
  <2> DEFINE f == [i \in Active(a) |-> Number(a, i)]
  <2>1. f \in Surjection(Active(a), Nums(Active(a), a))
    BY DEF Surjection, Nums
  <2> QED BY <1>1, <2>1, FS_Surjection
<1>4. IsFiniteSet(S)
  BY <1>3, FS_Singleton, FS_Union
<1>5. Max(S) \in S
  BY <1>2, <1>4, MaxFacts
<1> QED BY <1>2, <1>5 DEF High

LEMMA LastReadNat ==
  ASSUME AreaTypes, NEW a \in Areas, NEW u
  PROVE  LastRead(a, u) \in Nat
<1> DEFINE hits == First({k \in DOMAIN jlr[a] : jlr[a][k].who \in Keys(u)})
<1>1. \A k \in DOMAIN jlr[a] : jlr[a][k].num \in Nat
  <2>1. jlr[a] \in Seq(Records)
    BY DEF AreaTypes
  <2> TAKE k \in DOMAIN jlr[a]
  <2>2. jlr[a][k] \in Records
    BY <2>1
  <2> QED BY <2>2 DEF Records
<1>2. hits \in SUBSET DOMAIN jlr[a]
  BY DEF First
<1>3. LastRead(a, u) = IF hits = {} THEN 0 ELSE jlr[a][CHOOSE k \in hits : TRUE].num
  BY DEF LastRead
<1> HIDE DEF hits
<1> QED BY <1>1, <1>2, <1>3

LEMMA ArticleType ==
  ASSUME AreaTypes, NEW a \in Areas, NEW i \in DOMAIN base[a]
  PROVE  /\ ArticleAt(a, i) \in Messages /\ ArticleAt(a, i).num = Number(a, i)
         /\ ArticleAt(a, i).fatt = base[a][i].fatt /\ ArticleAt(a, i).dir = base[a][i].dir
<1>1. base[a][i] \in Messages /\ Number(a, i) \in Nat
  BY NumberNat DEF AreaTypes
<1> QED BY <1>1 DEF ArticleAt, Messages


LEMMA FindMsgFacts ==
  ASSUME NEW a, NEW num
  PROVE  /\ FindMsg(a, num) \in SUBSET Active(a)
         /\ \A i \in FindMsg(a, num) : Number(a, i) = num
<1> DEFINE hits == {i \in Active(a) : Number(a, i) = num}
<1>1. First(hits) \in SUBSET hits
  BY DEF First
<1>2. FindMsg(a, num) \in SUBSET hits
  BY <1>1 DEF FindMsg
<1> QED BY <1>2

\* A message that has the number of its slot is found by it.
LEMMA FindMsgSlot ==
  ASSUME AreaTypes, NEW a \in Areas, NEW i \in Active(a), base[a][i].num = BaseNum[a] + i - 1
  PROVE  FindMsg(a, base[a][i].num) = {i}
<1>1. base[a] \in Seq(Messages) /\ i \in DOMAIN base[a] /\ BaseNum[a] \in Nat \ {0}
  BY MessageAreasAssumption DEF AreaTypes, Active
<1>2. base[a][i].num \in Nat \ {0} /\ i \in Nat
  BY <1>1
<1>3. Number(a, i) = base[a][i].num
  BY <1>2 DEF Number
<1>4. base[a][i].num - BaseNum[a] + 1 = i /\ ~(base[a][i].num < 1)
  BY <1>1, <1>2
<1> QED BY <1>3, <1>4, Zenon DEF FindMsg

LEMMA NextActiveFacts ==
  ASSUME NEW a, NEW from, NEW forward
  PROVE  NextActive(a, from, forward) \in SUBSET Active(a)
<1>1. \A S : First(S) \in SUBSET S /\ Final(S) \in SUBSET S
  BY DEF First, Final
<1> QED BY <1>1 DEF NextActive

LEMMA PickedType ==
  ASSUME NEW T, NEW seq \in Seq(T), NEW S \in SUBSET DOMAIN seq
  PROVE  Picked(seq, S) \in Seq(T)
<1>1. DOMAIN seq = 1..Len(seq) /\ Len(seq) \in Nat
  OBVIOUS
<1>2. S \in SUBSET Nat /\ IsFiniteSet(S)
  <2>1. IsFiniteSet(1..Len(seq))
    BY <1>1, FS_Interval
  <2> QED BY <1>1, <2>1, FS_Subset
<1>3. /\ Sorted(S) \in Seq(S) /\ \A k \in DOMAIN Sorted(S) : Sorted(S)[k] \in S
  BY <1>2, SortedFacts
<1>4. DOMAIN Sorted(S) = 1..Len(Sorted(S)) /\ Len(Sorted(S)) \in Nat
  BY <1>3
<1>5. Picked(seq, S) = [k \in 1..Len(Sorted(S)) |-> seq[Sorted(S)[k]]]
  BY <1>4 DEF Picked
<1>6. Picked(seq, S) \in [1..Len(Sorted(S)) -> T]
  BY <1>3, <1>4, <1>5
<1> QED BY <1>4, <1>6, SeqDef

\* What a scan of the mailbox returns are places in areas there are.
LEMMA ScanType ==
  ASSUME AreaTypes, NEW some \in SUBSET DOMAIN AreaList, NEW u, NEW max \in Nat
  PROVE  ScanMailbox(some, u, max) \in Seq(MailHits)
<1> DEFINE mine == UNION {{<<k, i>> : i \in Yours(AreaList[k], u)} : k \in some}
<1> DEFINE upTo(p) == {q \in mine : q[1] < p[1] \/ (q[1] = p[1] /\ q[2] <= p[2])}
<1> DEFINE found == [r \in 1..Cardinality(mine) |-> CHOOSE p \in mine : Cardinality(upTo(p)) = r]
<1> DEFINE hit(p) == [area |-> AreaList[p[1]], num |-> Number(AreaList[p[1]], p[2])]
<1> DEFINE n == Min({max, Len(found)})
<1>1. ScanMailbox(some, u, max) = [r \in 1..n |-> hit(found[r])]
  BY DEF ScanMailbox, InOrder
<1>2. AreaList \in Seq(Areas) /\ \A k \in some : AreaList[k] \in Areas
  BY MessageAreasAssumption
<1>3. \A p \in mine : \E k \in some : \E i \in DOMAIN base[AreaList[k]] : p = <<k, i>>
  BY DEF Yours, Active
<1>4. \A p \in mine : hit(p) \in MailHits
  <2> TAKE p \in mine
  <2>1. PICK k \in some : \E i \in DOMAIN base[AreaList[k]] : p = <<k, i>>
    BY <1>3
  <2>2. PICK i \in DOMAIN base[AreaList[k]] : p = <<k, i>>
    BY <2>1
  <2>3. AreaList[k] \in Areas /\ Number(AreaList[k], i) \in Nat
    BY <1>2, NumberNat
  <2> QED BY <2>2, <2>3 DEF MailHits
<1>5. IsFiniteSet(mine)
  <2> DEFINE of == [k \in some |-> {<<k, i>> : i \in Yours(AreaList[k], u)}]
  <2> DEFINE parts == {of[k] : k \in some}
  <2>1. IsFiniteSet(some)
    BY <1>2, FS_Interval, FS_Subset
  <2>2. \A k \in some : IsFiniteSet(of[k])
    <3> TAKE k \in some
    <3>1. IsFiniteSet(Active(AreaList[k])) /\ Yours(AreaList[k], u) \in SUBSET Active(AreaList[k])
      BY <1>2, ActiveFacts DEF Yours
    <3>2. IsFiniteSet(Yours(AreaList[k], u))
      BY <3>1, FS_Subset
    <3>3. [i \in Yours(AreaList[k], u) |-> <<k, i>>] \in Surjection(Yours(AreaList[k], u), of[k])
      BY DEF Surjection
    <3> QED BY <3>2, <3>3, FS_Surjection
  <2>3. of \in Surjection(some, parts)
    BY DEF Surjection
  <2>4. IsFiniteSet(parts)
    BY <2>1, <2>3, FS_Surjection
  <2>5. mine = UNION parts
    OBVIOUS
  <2> HIDE DEF parts, mine
  <2>6. \A p \in parts : IsFiniteSet(p)
    BY <2>2 DEF parts
  <2> QED BY <2>4, <2>5, <2>6, FS_UNION
<1>6. \A k \in 1..Cardinality(mine) : \E p \in mine : Cardinality(upTo(p)) = k
  <2> DEFINE below == [p \in mine |-> upTo(p)]
  <2>1. \A p \in mine : p[1] \in Nat /\ p[2] \in Nat /\ p = <<p[1], p[2]>>
    <3> TAKE p \in mine
    <3>1. PICK k \in some : \E i \in DOMAIN base[AreaList[k]] : p = <<k, i>>
      BY <1>3
    <3>2. PICK i \in DOMAIN base[AreaList[k]] : p = <<k, i>>
      BY <3>1
    <3>3. base[AreaList[k]] \in Seq(Messages)
      BY <1>2 DEF AreaTypes
    <3> QED BY <1>2, <3>2, <3>3
  <2> HIDE DEF mine
  <2>2. below \in [mine -> SUBSET mine] /\ \A p \in mine : p \in below[p]
    BY <2>1
  <2>3. \A p, q \in mine : q \notin upTo(p) => p \in upTo(q) /\ upTo(p) \subseteq upTo(q)
    <3> SUFFICES ASSUME NEW p \in mine, NEW q \in mine, q \notin upTo(p)
                 PROVE  p \in upTo(q) /\ upTo(p) \subseteq upTo(q)
      OBVIOUS
    <3>1. p[1] < q[1] \/ (p[1] = q[1] /\ p[2] < q[2])
      BY <2>1
    <3>2. ASSUME NEW r \in upTo(p) PROVE r \in upTo(q)
      BY <2>1, <3>1
    <3> QED BY <3>1, <3>2, <2>1
  <2>4. \A p, q \in mine : p # q => q \notin upTo(p) \/ p \notin upTo(q)
    BY <2>1
  <2>5. \A p, q \in mine : p # q => \/ below[p] \subseteq below[q] /\ q \notin below[p]
                                    \/ below[q] \subseteq below[p] /\ p \notin below[q]
    BY <2>3, <2>4
  <2> HIDE DEF below
  <2>6. \A k \in 1..Cardinality(mine) : \E p \in mine : Cardinality(below[p]) = k
    BY <1>5, <2>2, <2>5, Ranks
  <2> QED BY <2>6 DEF below
<1>7. \A r \in 1..Cardinality(mine) : found[r] \in mine
  <2> HIDE DEF mine, upTo
  <2> QED BY <1>6
<1>8. Cardinality(mine) \in Nat
  BY <1>5, FS_CardinalityType
<1>9. Len(found) = Cardinality(mine)
  <2> HIDE DEF mine, upTo
  <2>1. found \in [1..Cardinality(mine) -> mine]
    BY <1>7
  <2> HIDE DEF found
  <2>2. found \in Seq(mine)
    BY <1>8, <2>1, SeqDef
  <2> QED BY <1>8, <2>1, <2>2
<1>10. n \in Nat /\ n <= Cardinality(mine)
  <2> HIDE DEF mine, found
  <2> DEFINE S == {max, Len(found)}
  <2>1. S \in SUBSET Nat /\ S # {} /\ IsFiniteSet(S)
    <3>1. IsFiniteSet({max}) /\ IsFiniteSet({max} \cup {Len(found)})
      BY FS_Singleton, FS_AddElement
    <3>2. {max} \cup {Len(found)} = {max, Len(found)}
      OBVIOUS
    <3> QED BY <1>8, <1>9, <3>1, <3>2
  <2>2. Min(S) \in S /\ \A y \in S : Min(S) <= y
    BY <2>1, MinFacts
  <2> QED BY <1>8, <1>9, <2>1, <2>2
<1> HIDE DEF mine, found, hit, n
<1>11. \A r \in 1..n : hit(found[r]) \in MailHits
  BY <1>4, <1>7, <1>8, <1>10
<1>12. [r \in 1..n |-> hit(found[r])] \in [1..n -> MailHits]
  BY <1>11
<1> QED BY <1>1, <1>10, <1>12, SeqDef


---------------------------------------------------------------------------
(* One step of a session. *)

OK(s) == s \in Sessions /\ Located(s) /\ Carries(s)
Idle(s) == s.post.dir \notin Dirs /\ ~s.post.fatt /\ ~s.post.deleted
Moves(n) == bbs' = [bbs EXCEPT ![n] = bbs'[n]] /\ OK(bbs'[n])

\* Most steps post nothing and show no message.
Calm(n) == Moves(n) /\ Idle(bbs'[n])
Clean(n) == Calm(n) /\ bbs'[n].at \notin {"bar", "files", "kill", "behind"}

LEMMA Going ==
  ASSUME TypeOK, NEW n \in Nodes, NEW t, OK(t), Goto(n, t)
  PROVE  Moves(n) /\ bbs'[n] = t
BY DEF TypeOK, ReaderTypes, Goto, Moves

LEMMA Here ==
  ASSUME TypeOK, SessionInv, NEW n \in Nodes
  PROVE  OK(bbs[n]) /\ (bbs[n].at \notin {"upload", "save"} => Idle(bbs[n]))
BY DEF TypeOK, ReaderTypes, SessionInv, OK, Idle, Carries

LEMMA QuietOK == OK(Quiet) /\ Idle(Quiet) /\ Quiet.at = "menu"
<1>1. Quiet.post = NoMessage /\ Quiet.at = "menu"
  BY DEF Quiet
<1> QED BY <1>1, QuietType, NoMessageType DEF OK, Idle

\* Choosing areas changes what the user has chosen, and nothing else.
LEMMA ChangeMessageAreaMoves ==
  ASSUME TypeOK, SessionInv, NEW n \in Nodes, ChangeMessageArea(n) \/ ToggleCombined(n)
  PROVE  Clean(n) /\ UNCHANGED bbs
<1>1. UNCHANGED bbs /\ bbs[n].at = "menu"
  BY DEF ChangeMessageArea, ToggleCombined, At
<1>2. bbs \in [Nodes -> Sessions]
  BY DEF TypeOK, ReaderTypes
<1> QED BY <1>1, <1>2, Here DEF Clean, Calm, Moves

LEMMA ReadMoves ==
  ASSUME TypeOK, SessionInv, NEW n \in Nodes, Read(n)
  PROVE  Clean(n)
<1> DEFINE c == prof[n].combined
<1> DEFINE list(combined) ==
             IF combined THEN Picked(c, {k \in DOMAIN c : c[k] # "none"}) ELSE <<prof[n].area>>
<1> DEFINE t(combined) == [Quiet EXCEPT !.at = "area", !.task = "read", !.list = list(combined),
                                        !.i = 1, !.combined = combined, !.first = TRUE]
<1>1. PICK combined \in BOOLEAN : Goto(n, t(combined))
  BY DEF Read
<1>2. list(combined) \in Seq(AreaOrNone)
  <2>1. prof[n] \in [area : AreaOrNone, group : Nat, combined : Seq(AreaOrNone)]
    BY DEF TypeOK, ReaderTypes
  <2>2. c \in Seq(AreaOrNone) /\ prof[n].area \in AreaOrNone
    BY <2>1
  <2> HIDE DEF c
  <2>3. {k \in DOMAIN c : c[k] # "none"} \in SUBSET DOMAIN c
    OBVIOUS
  <2>4. Picked(c, {k \in DOMAIN c : c[k] # "none"}) \in Seq(AreaOrNone)
    BY <2>2, <2>3, PickedType
  <2>5. <<prof[n].area>> \in Seq(AreaOrNone)
    BY <2>2
  <2> QED BY <2>4, <2>5
<1> HIDE DEF list
<1>3. /\ t(combined) \in Sessions /\ t(combined).at = "area"
      /\ t(combined).post = Quiet.post
  <2> 1 \in Numbers
    BY DEF Numbers
  <2> QED BY <1>2, QuietType DEF Sessions, Places, Tasks
<1> HIDE DEF t
<1>4. OK(t(combined)) /\ Idle(t(combined))
  BY <1>3, QuietOK DEF OK, Located, Carries, Idle
<1>5. Moves(n) /\ bbs'[n] = t(combined)
  BY <1>1, <1>4, Going
<1> QED BY <1>3, <1>4, <1>5 DEF Clean, Calm

LEMMA CheckMailBoxMoves ==
  ASSUME TypeOK, SessionInv, NEW n \in Nodes, CheckMailBox(n)
  PROVE  Clean(n)
<1> DEFINE near(check) == {k \in DOMAIN AreaList :
                             Accessible(AreaList[k], Me(n), check, prof[n].group)}
<1> DEFINE hits(check) == ScanMailbox(near(check), Me(n), MaxMailbox)
<1> DEFINE t(check) == [Quiet EXCEPT !.at = "hit", !.task = "mailbox", !.hits = hits(check), !.i = 1]
<1>1. PICK check \in BOOLEAN : Goto(n, t(check))
  BY DEF CheckMailBox
<1>2. hits(check) \in Seq(MailHits)
  BY ScanType, MailReaderAssumption DEF TypeOK
<1> HIDE DEF hits
<1>3. /\ t(check) \in Sessions /\ t(check).at = "hit"
      /\ t(check).post = Quiet.post
  <2> 1 \in Numbers
    BY DEF Numbers
  <2> QED BY <1>2, QuietType DEF Sessions, Places, Tasks
<1> HIDE DEF t
<1>4. OK(t(check)) /\ Idle(t(check))
  BY <1>3, QuietOK DEF OK, Located, Carries, Idle
<1>5. Moves(n) /\ bbs'[n] = t(check)
  BY <1>1, <1>4, Going
<1> QED BY <1>3, <1>4, <1>5 DEF Clean, Calm

LEMMA PostMoves ==
  ASSUME TypeOK, SessionInv, NEW n \in Nodes, Post(n)
  PROVE  Clean(n)
<1> DEFINE t == [Quiet EXCEPT !.at = "write", !.act = "enter", !.area = prof[n].area]
<1>1. Goto(n, t) /\ prof[n].area \in Areas
  BY DEF Post
<1>2. /\ t \in Sessions /\ t.at = "write" /\ t.area = prof[n].area
      /\ t.post = Quiet.post
  BY <1>1, QuietType DEF Sessions, Places, Acts, AreaOrNone
<1> HIDE DEF t
<1>3. OK(t) /\ Idle(t)
  BY <1>1, <1>2, QuietOK DEF OK, Located, Carries, Idle
<1>4. Moves(n) /\ bbs'[n] = t
  BY <1>1, <1>3, Going
<1> QED BY <1>2, <1>3, <1>4 DEF Clean, Calm


LEMMA IdleOK ==
  ASSUME NEW t \in Sessions, Idle(t), Located(t), t.at # "upload"
  PROVE  OK(t)
BY DEF Idle, OK, Carries

LEMMA Bounds ==
  /\ \A x \in Numbers : x + 1 \in Numbers /\ x - 1 \in Numbers
  /\ \A x \in Nat : x \in Numbers /\ x + 1 \in Numbers /\ x - 1 \in Numbers
BY DEF Numbers

LEMMA LeavesOK ==
  ASSUME NEW s \in Sessions, Idle(s), NEW act
  PROVE  OK(Leaves(s, act)) /\ Idle(Leaves(s, act)) /\ Leaves(s, act).at \in {"menu", "area"}
<1> DEFINE back == [s EXCEPT !.at = "area", !.i = @ - 1, !.art = NoMessage, !.act = "next"]
<1> DEFINE on == [s EXCEPT !.at = "area", !.i = @ + 1, !.art = NoMessage, !.act = "next",
                           !.ended = s.straight]
<1>1. s.i - 1 \in Numbers /\ s.i + 1 \in Numbers
  <2>1. s.i \in Numbers
    BY DEF Sessions
  <2> QED BY <2>1, Bounds
<1>2. back \in Sessions /\ back.at = "area" /\ back.post = s.post
  BY <1>1, NoMessageType DEF Sessions, Places, Acts
<1>3. on \in Sessions /\ on.at = "area" /\ on.post = s.post
  BY <1>1, NoMessageType DEF Sessions, Places, Acts
<1>4. Leaves(s, act) \in {Quiet, back, on}
  BY DEF Leaves
<1> HIDE DEF back, on
<1>5. OK(back) /\ Idle(back) /\ OK(on) /\ Idle(on)
  BY <1>2, <1>3, IdleOK DEF Idle, Located
<1> QED BY <1>2, <1>3, <1>4, <1>5, QuietOK

LEMMA BeginOK ==
  ASSUME TypeOK, NEW n \in Nodes, NEW s \in Sessions, Idle(s), NEW a \in Areas, NEW start \in Nat
  PROVE  /\ OK(Begin(n, s, a, start)) /\ Idle(Begin(n, s, a, start))
         /\ Begin(n, s, a, start).at \in {"area", "find"}
<1> DEFINE from == CASE s.newScan -> LastRead(a, Me(n)) + 1
                     [] ~s.newScan /\ ~s.forward /\ start = 0 -> s.high
                     [] OTHER -> Max({start, 1})
<1> DEFINE fresh == {Number(a, i) : i \in {k \in Active(a) : /\ Number(a, k) >= from
                                                             /\ CanRead(a, ArticleAt(a, k), Me(n))}}
<1> DEFINE over == [s EXCEPT !.at = "area", !.i = @ + 1, !.high = 0]
<1> DEFINE least == IF s.newScan THEN from ELSE 0
<1> DEFINE owed == IF s.newScan THEN fresh ELSE {}
<1> DEFINE find == [s EXCEPT !.at = "find", !.high = 0, !.area = a, !.cur = from, !.onward = s.forward,
                             !.from = least, !.straight = s.newScan, !.owed = owed, !.ended = FALSE]
<1>1. Begin(n, s, a, start) = IF s.newScan /\ from > s.high THEN over ELSE find
  BY DEF Begin
<1>2. from \in Nat
  <2>1. LastRead(a, Me(n)) + 1 \in Nat
    BY LastReadNat DEF TypeOK
  <2>2. s.high \in Nat
    BY DEF Sessions
  <2>3. Max({start, 1}) \in Nat
    <3>1. IsFiniteSet({start}) /\ IsFiniteSet({start} \cup {1})
      BY FS_Singleton, FS_AddElement
    <3>2. {start} \cup {1} = {start, 1}
      OBVIOUS
    <3>3. Max({start, 1}) \in {start, 1}
      BY <3>1, <3>2, MaxFacts
    <3> QED BY <3>3
  <2> QED BY <2>1, <2>2, <2>3
<1> HIDE DEF from
<1>3. fresh \in SUBSET Nat
  <2>1. Active(a) \in SUBSET DOMAIN base[a]
    BY ActiveFacts DEF TypeOK
  <2> QED BY <2>1, NumberNat DEF TypeOK
<1> HIDE DEF fresh
<1>4. s.i + 1 \in Numbers /\ from \in Numbers
  <2>1. s.i \in Numbers
    BY DEF Sessions
  <2> QED BY <1>2, <2>1, Bounds
<1>5. over \in Sessions /\ over.at = "area" /\ over.post = s.post
  BY <1>4 DEF Sessions, Places
<1>6. find \in Sessions /\ find.at = "find" /\ find.area = a /\ find.post = s.post
  <2>1. least \in Nat /\ owed \in SUBSET Nat /\ s.forward \in BOOLEAN /\ s.newScan \in BOOLEAN
    BY <1>2, <1>3 DEF Sessions
  <2>2. a \in AreaOrNone /\ "find" \in Places
    BY DEF AreaOrNone, Places
  <2> HIDE DEF least, owed
  <2> QED BY <1>4, <2>1, <2>2 DEF Sessions
<1> HIDE DEF over, find
<1>7. OK(over) /\ Idle(over) /\ OK(find) /\ Idle(find)
  BY <1>5, <1>6, IdleOK DEF Idle, Located
<1> QED BY <1>1, <1>5, <1>6, <1>7


LEMMA MeIsUser == ASSUME NEW n \in Nodes PROVE Me(n) \in Users
BY MessageServicesAssumption DEF Me

LEMMA ReadableArea ==
  ASSUME NEW u \in Users, NEW a, NEW check, NEW group, Accessible(a, u, check, group)
  PROVE  a \in Areas
<1>1. Readable[u] \in SUBSET Areas
  BY MessageAreasAssumption
<1> QED BY <1>1 DEF Accessible

\* A new session that is idle and not at one of four places.
Calmly(t) == /\ OK(t) /\ Idle(t)
             /\ t.at \notin {"bar", "files", "kill", "behind"}

LEMMA GoingClean ==
  ASSUME TypeOK, NEW n \in Nodes, NEW t, Calmly(t), Goto(n, t)
  PROVE  Clean(n)
BY Going DEF Calmly, Clean, Calm

LEMMA AreaMoves ==
  ASSUME TypeOK, SessionInv, NEW n \in Nodes, Area(n)
  PROVE  Clean(n)
<1> DEFINE s == bbs[n]
<1> DEFINE a == s.list[s.i]
<1> DEFINE high == [s EXCEPT !.high = High(a), !.ended = FALSE]
<1> DEFINE over == [s EXCEPT !.i = @ + 1, !.ended = FALSE]
<1> DEFINE ask == [high EXCEPT !.at = "ask"]
<1>1. OK(s) /\ Idle(s) /\ s.at = "area"
  BY Here DEF Area, At
<1>2. PICK t : /\ Goto(n, t)
               /\ \/ t = Quiet
                  \/ t = over
                  \/ Accessible(a, Me(n), FALSE, 0) /\ t \in {ask, Begin(n, high, a, 0)}
  BY DEF Area
<1>3. Calmly(Quiet)
  BY QuietOK DEF Calmly
<1>4. Calmly(over)
  <2>1. s.i + 1 \in Numbers
    BY <1>1, Bounds DEF OK, Sessions
  <2>2. over \in Sessions /\ over.at = "area" /\ over.post = s.post
    BY <1>1, <2>1 DEF OK, Sessions
  <2> HIDE DEF over
  <2> QED BY <1>1, <2>2, IdleOK DEF Idle, Located, Calmly
<1>5. ASSUME Accessible(a, Me(n), FALSE, 0)
      PROVE  Calmly(ask) /\ Calmly(Begin(n, high, a, 0))
  <2>1. a \in Areas
    BY <1>5, MeIsUser, ReadableArea
  <2>2. High(a) \in Nat
    BY <2>1, HighNat DEF TypeOK
  <2>3. high \in Sessions /\ high.at = "area" /\ high.post = s.post /\ high.list[high.i] = a
    BY <1>1, <2>2 DEF OK, Sessions
  <2>4. ask \in Sessions /\ ask.at = "ask" /\ ask.post = s.post /\ ask.list[ask.i] = a
    BY <2>3 DEF Sessions, Places
  <2> HIDE DEF high, ask, a
  <2>5. Calmly(ask)
    BY <1>1, <2>1, <2>4, IdleOK DEF Idle, Located, Calmly
  <2>6. Idle(high)
    BY <1>1, <2>3 DEF Idle
  <2>7. Calmly(Begin(n, high, a, 0))
    BY <2>1, <2>3, <2>6, BeginOK DEF Calmly
  <2> QED BY <2>5, <2>7
<1> HIDE DEF over, ask, high
<1>6. Calmly(t)
  BY <1>2, <1>3, <1>4, <1>5
<1> QED BY <1>2, <1>6, GoingClean

LEMMA AskedMoves ==
  ASSUME TypeOK, SessionInv, NEW n \in Nodes, Asked(n)
  PROVE  Clean(n)
<1> DEFINE s == bbs[n]
<1> DEFINE a == s.list[s.i]
<1>1. OK(s) /\ Idle(s) /\ s.at = "ask"
  BY Here DEF Asked, At
<1>2. PICK type \in {"forward", "reverse", "individual", "new", "quit"} :
        \E start \in IF type \in {"new", "quit"} THEN {0} ELSE 0..s.high :
          Goto(n, IF type = "quit" \/ (type = "individual" /\ start = 0) THEN Quiet
                  ELSE Begin(n, [s EXCEPT !.first = FALSE, !.newScan = type = "new",
                                          !.individual = type = "individual",
                                          !.forward = type # "reverse"], a, start))
  BY DEF Asked
<1>0. PICK new \in BOOLEAN, one \in BOOLEAN, forward \in BOOLEAN :
        new = (type = "new") /\ one = (type = "individual") /\ forward = (type # "reverse")
  OBVIOUS
<1> DEFINE t == [s EXCEPT !.first = FALSE, !.newScan = new, !.individual = one, !.forward = forward]
<1>3. PICK start \in IF type \in {"new", "quit"} THEN {0} ELSE 0..s.high :
        Goto(n, Quiet) \/ Goto(n, Begin(n, t, a, start))
  BY <1>0, <1>2
<1>4. start \in Nat
  <2>1. s.high \in Nat
    BY <1>1 DEF OK, Sessions
  <2> QED BY <1>3, <2>1
<1>5. a \in Areas
  BY <1>1 DEF OK, Located
<1>6. t \in Sessions /\ t.post = s.post
  <2>1. s \in Sessions
    BY <1>1 DEF OK
  <2> HIDE DEF s
  <2>2. t \in Sessions
    BY <2>1 DEF Sessions
  <2>3. t.post = s.post
    BY <2>1 DEF Sessions
  <2> QED BY <2>2, <2>3
<1> HIDE DEF t, a
<1>7. Idle(t)
  BY <1>1, <1>6 DEF Idle
<1>8. Calmly(Begin(n, t, a, start)) /\ Calmly(Quiet)
  BY <1>4, <1>5, <1>6, <1>7, BeginOK, QuietOK DEF Calmly
<1> QED BY <1>3, <1>8, GoingClean

\* Find and Hit may show a message, which then is one of the area.
Shows(n) ==
  LET t == bbs'[n] IN
  /\ Calm(n) /\ t.at \notin {"files", "kill", "behind"}
  /\ t.at = "bar" => t.area \in Areas /\ \E i \in Active(t.area) : t.art = ArticleAt(t.area, i)

LEMMA FindMoves ==
  ASSUME TypeOK, SessionInv, NEW n \in Nodes, Find(n)
  PROVE  Shows(n)
<1> DEFINE s == bbs[n]
<1> DEFINE next == NextActive(s.area, s.cur, s.onward)
<1>1. OK(s) /\ Idle(s) /\ s.at = "find" /\ s.area \in Areas
  BY Here DEF Find, At, OK, Located
<1>2. CASE Goto(n, Leaves(s, "next"))
  <2>1. OK(Leaves(s, "next")) /\ Idle(Leaves(s, "next")) /\ Leaves(s, "next").at \in {"menu", "area"}
    BY <1>1, LeavesOK DEF OK
  <2>2. Moves(n) /\ bbs'[n] = Leaves(s, "next")
    BY <1>2, <2>1, Going
  <2> QED BY <2>1, <2>2 DEF Shows, Calm
<1>3. ASSUME NEW i \in next,
             \/ Goto(n, [s EXCEPT !.cur = Onward(s, ArticleAt(s.area, i).num)])
             \/ Goto(n, [s EXCEPT !.at = "bar", !.art = ArticleAt(s.area, i)])
      PROVE  Shows(n)
  <2> DEFINE art == ArticleAt(s.area, i)
  <2> DEFINE on == Onward(s, art.num)
  <2> DEFINE pass == [s EXCEPT !.cur = on]
  <2> DEFINE show == [s EXCEPT !.at = "bar", !.art = art]
  <2>1. i \in Active(s.area)
    BY NextActiveFacts
  <2>2. art \in Messages
    BY <1>1, <2>1, ActiveFacts, ArticleType DEF TypeOK
  <2>3. on \in Numbers
    <3>1. art.num \in Nat
      BY <2>2 DEF Messages
    <3> QED BY <3>1, Bounds DEF Onward
  <2> HIDE DEF on, art
  <2>4. pass \in Sessions /\ pass.at = "find" /\ pass.area = s.area /\ pass.post = s.post
    BY <1>1, <2>3 DEF OK, Sessions
  <2>5. show \in Sessions /\ show.at = "bar" /\ show.area = s.area /\ show.post = s.post /\ show.art = art
    BY <1>1, <2>2 DEF OK, Sessions, Places
  <2>6. Goto(n, pass) \/ Goto(n, show)
    BY <1>3 DEF on, art
  <2> HIDE DEF pass, show
  <2>7. OK(pass) /\ Idle(pass) /\ OK(show) /\ Idle(show)
    BY <1>1, <2>4, <2>5, IdleOK DEF Idle, Located
  <2>8. CASE Goto(n, pass)
    <3>1. Moves(n) /\ bbs'[n] = pass
      BY <2>7, <2>8, Going
    <3> QED BY <2>4, <2>7, <3>1 DEF Shows, Calm
  <2>9. CASE Goto(n, show)
    <3>1. Moves(n) /\ bbs'[n] = show
      BY <2>7, <2>9, Going
    <3> QED BY <1>1, <2>1, <2>5, <2>7, <3>1 DEF Shows, Calm, art
  <2> QED BY <2>6, <2>8, <2>9
<1> QED BY <1>2, <1>3 DEF Find

LEMMA HitMoves ==
  ASSUME TypeOK, SessionInv, NEW n \in Nodes, Hit(n)
  PROVE  Shows(n)
<1> DEFINE s == bbs[n]
<1> DEFINE h == s.hits[s.i]
<1> DEFINE over == [s EXCEPT !.i = @ + 1]
<1> DEFINE show(i) == [s EXCEPT !.at = "bar", !.area = h.area, !.art = ArticleAt(h.area, i)]
<1>1. OK(s) /\ Idle(s) /\ s.at = "hit"
  BY Here DEF Hit, At
<1>2. \/ Goto(n, Quiet)
      \/ Goto(n, over)
      \/ s.i \in DOMAIN s.hits /\ \E i \in FindMsg(h.area, h.num) : Goto(n, show(i))
  BY DEF Hit
<1>3. CASE Goto(n, Quiet)
  BY <1>3, QuietOK, Going DEF Shows, Calm
<1>4. CASE Goto(n, over)
  <2>1. s.i + 1 \in Numbers
    BY <1>1, Bounds DEF OK, Sessions
  <2>2. over \in Sessions /\ over.at = "hit" /\ over.post = s.post
    BY <1>1, <2>1 DEF OK, Sessions
  <2> HIDE DEF over
  <2>3. OK(over) /\ Idle(over)
    BY <1>1, <2>2, IdleOK DEF Idle, Located
  <2>4. Moves(n) /\ bbs'[n] = over
    BY <1>4, <2>3, Going
  <2> QED BY <2>2, <2>3, <2>4 DEF Shows, Calm
<1>5. ASSUME s.i \in DOMAIN s.hits, NEW i \in FindMsg(h.area, h.num), Goto(n, show(i))
      PROVE  Shows(n)
  <2>1. h.area \in Areas
    <3>1. s.hits \in Seq(MailHits)
      BY <1>1 DEF OK, Sessions
    <3>2. h \in MailHits
      BY <1>5, <3>1
    <3> QED BY <3>2 DEF MailHits
  <2>2. i \in Active(h.area)
    BY FindMsgFacts
  <2>3. ArticleAt(h.area, i) \in Messages
    BY <2>1, <2>2, ActiveFacts, ArticleType DEF TypeOK
  <2>4. /\ show(i) \in Sessions /\ show(i).at = "bar" /\ show(i).area = h.area
        /\ show(i).post = s.post /\ show(i).art = ArticleAt(h.area, i)
    BY <1>1, <2>1, <2>3 DEF OK, Sessions, Places, AreaOrNone
  <2> HIDE DEF show
  <2>5. OK(show(i)) /\ Idle(show(i))
    BY <1>1, <2>1, <2>4, IdleOK DEF Idle, Located
  <2>6. Moves(n) /\ bbs'[n] = show(i)
    BY <1>5, <2>5, Going
  <2> QED BY <2>1, <2>2, <2>4, <2>5, <2>6 DEF Shows, Calm
<1> QED BY <1>2, <1>3, <1>4, <1>5


\* A session that only goes from one place to another in its area.
LEMMA Stepping ==
  ASSUME TypeOK, SessionInv, NEW n \in Nodes, NEW t \in Sessions, Goto(n, t),
         bbs[n].at \notin {"menu", "area", "ask", "hit", "upload", "save"},
         t.post = bbs[n].post, t.area = bbs[n].area, t.at \notin {"ask", "upload"}
  PROVE  Calm(n) /\ bbs'[n] = t
<1>1. Idle(bbs[n]) /\ bbs[n].area \in Areas
  BY Here DEF OK, Located
<1>2. Idle(t) /\ Located(t)
  BY <1>1 DEF Idle, Located
<1>3. OK(t)
  BY <1>2, IdleOK
<1> QED BY <1>2, <1>3, Going DEF Calm

LEMMA BarMoves ==
  ASSUME TypeOK, SessionInv, NEW n \in Nodes, NEW act \in Acts, Bar(n, act)
  PROVE  /\ Calm(n) /\ bbs'[n].at \in {"files", "mark"}
         /\ bbs'[n].at = "files" => bbs[n].art.fatt
         /\ bbs'[n].art = bbs[n].art /\ bbs'[n].area = bbs[n].area
<1> DEFINE s == bbs[n]
<1> DEFINE files == [s EXCEPT !.at = "files", !.act = "again"]
<1> DEFINE mark == [s EXCEPT !.at = "mark", !.act = act]
<1>1. s \in Sessions /\ s.at = "bar"
  BY Here DEF Bar, At, OK
<1>2. (Goto(n, files) /\ s.art.fatt) \/ Goto(n, mark)
  BY DEF Bar
<1>3. /\ files \in Sessions /\ files.at = "files"
      /\ files.post = s.post /\ files.area = s.area /\ files.art = s.art
  BY <1>1 DEF Sessions, Places, Acts
<1>4. /\ mark \in Sessions /\ mark.at = "mark"
      /\ mark.post = s.post /\ mark.area = s.area /\ mark.art = s.art
  BY <1>1 DEF Sessions, Places
<1> HIDE DEF files, mark
<1>5. CASE Goto(n, files) /\ s.art.fatt
  BY <1>1, <1>3, <1>5, Stepping
<1>6. CASE Goto(n, mark)
  BY <1>1, <1>4, <1>6, Stepping
<1> QED BY <1>2, <1>5, <1>6

LEMMA ListFilesMoves ==
  ASSUME TypeOK, SessionInv, NEW n \in Nodes, ListFiles(n)
  PROVE  /\ Calm(n) /\ bbs'[n].at \in {"mark", "kill"}
         /\ bbs'[n].art = bbs[n].art /\ bbs'[n].area = bbs[n].area
<1> DEFINE s == bbs[n]
<1> DEFINE f == dirs[s.art.dir].files
<1> DEFINE mark == [s EXCEPT !.at = "mark"]
<1> DEFINE kill == [s EXCEPT !.at = "kill", !.listed = f]
<1>1. s \in Sessions /\ s.at = "files" /\ s.area \in Areas
  BY Here DEF ListFiles, At, OK, Located
<1>2. Goto(n, mark) \/ Goto(n, kill)
  BY DEF ListFiles
<1>3. f \in SUBSET Users
  <2>1. s.art.dir \in Dirs
    BY <1>1 DEF SessionInv, Backed, FilesInv
  <2> QED BY <2>1 DEF TypeOK, AreaTypes
<1> HIDE DEF f
<1>4. /\ mark \in Sessions /\ mark.at = "mark"
      /\ mark.post = s.post /\ mark.area = s.area /\ mark.art = s.art
  BY <1>1 DEF Sessions, Places
<1>5. /\ kill \in Sessions /\ kill.at = "kill"
      /\ kill.post = s.post /\ kill.area = s.area /\ kill.art = s.art
  BY <1>1, <1>3 DEF Sessions, Places
<1> HIDE DEF mark, kill
<1>6. CASE Goto(n, mark)
  BY <1>1, <1>4, <1>6, Stepping
<1>7. CASE Goto(n, kill)
  BY <1>1, <1>5, <1>7, Stepping
<1> QED BY <1>2, <1>6, <1>7

LEMMA KillFilesMoves ==
  ASSUME TypeOK, SessionInv, NEW n \in Nodes, KillFiles(n)
  PROVE  Clean(n)
<1> DEFINE s == bbs[n]
<1> DEFINE t == [s EXCEPT !.at = "mark", !.listed = {}]
<1>1. s \in Sessions /\ s.at = "kill" /\ s.area \in Areas
  BY Here DEF KillFiles, At, OK, Located
<1>2. Goto(n, t)
  BY DEF KillFiles
<1>3. t \in Sessions /\ t.at = "mark" /\ t.post = s.post /\ t.area = s.area
  BY <1>1 DEF Sessions, Places
<1> HIDE DEF t
<1> QED BY <1>1, <1>2, <1>3, Stepping DEF Clean

LEMMA MarkMoves ==
  ASSUME TypeOK, SessionInv, NEW n \in Nodes, Mark(n)
  PROVE  /\ Calm(n) /\ bbs'[n].at \in {"rcvd", "act", "behind"} /\ bbs'[n].area = bbs[n].area
         /\ bbs'[n].at = "behind" => RecordOf(bbs[n].area, Me(n)) = {} /\ UNCHANGED <<jlr, last>>
         /\ bbs[n].area \in Areas
<1> DEFINE s == bbs[n]
<1> DEFINE size == Len(jlr[s.area])
<1> DEFINE on == [s EXCEPT !.at = IF s.task = "mailbox" THEN "rcvd" ELSE "act"]
<1> DEFINE behind == [s EXCEPT !.at = "behind", !.size = size]
<1>1. s \in Sessions /\ s.at = "mark" /\ s.area \in Areas
  BY Here DEF Mark, At, OK, Located
<1>2. \/ Goto(n, on)
      \/ Goto(n, behind) /\ RecordOf(bbs[n].area, Me(n)) = {} /\ UNCHANGED <<jlr, last>>
  BY DEF Mark
<1>3. size \in Nat
  <2>1. jlr[s.area] \in Seq(Records)
    BY <1>1 DEF TypeOK, AreaTypes
  <2> QED BY <2>1
<1> HIDE DEF size
<1>4. on \in Sessions /\ on.at \in {"rcvd", "act"} /\ on.post = s.post /\ on.area = s.area
  BY <1>1 DEF Sessions, Places
<1>5. behind \in Sessions /\ behind.at = "behind" /\ behind.post = s.post /\ behind.area = s.area
  BY <1>1, <1>3 DEF Sessions, Places
<1> HIDE DEF on, behind
<1>6. CASE Goto(n, on)
  BY <1>1, <1>4, <1>6, Stepping
<1>7. CASE Goto(n, behind) /\ RecordOf(bbs[n].area, Me(n)) = {} /\ UNCHANGED <<jlr, last>>
  BY <1>1, <1>5, <1>7, Stepping
<1> QED BY <1>2, <1>6, <1>7

LEMMA MarkBehindMoves ==
  ASSUME TypeOK, SessionInv, NEW n \in Nodes, MarkBehind(n)
  PROVE  Clean(n)
<1> DEFINE s == bbs[n]
<1> DEFINE t == [s EXCEPT !.size = 0, !.at = IF s.task = "mailbox" THEN "rcvd" ELSE "act"]
<1>1. s \in Sessions /\ s.at = "behind"
  BY Here DEF MarkBehind, At, OK
<1>2. Goto(n, t)
  BY DEF MarkBehind
<1>3. t \in Sessions /\ t.at \in {"rcvd", "act"} /\ t.post = s.post /\ t.area = s.area
  BY <1>1 DEF Sessions, Places
<1> HIDE DEF t
<1> QED BY <1>1, <1>2, <1>3, Stepping DEF Clean

LEMMA ReceivedMoves ==
  ASSUME TypeOK, SessionInv, NEW n \in Nodes, Received(n)
  PROVE  Clean(n)
<1> DEFINE s == bbs[n]
<1> DEFINE t == [s EXCEPT !.at = "act"]
<1>1. s \in Sessions /\ s.at = "rcvd"
  BY Here DEF Received, At, OK
<1>2. Goto(n, t)
  BY DEF Received
<1>3. t \in Sessions /\ t.at = "act" /\ t.post = s.post /\ t.area = s.area
  BY <1>1 DEF Sessions, Places
<1> HIDE DEF t
<1> QED BY <1>1, <1>2, <1>3, Stepping DEF Clean


LEMMA ReadOnOK ==
  ASSUME NEW s \in Sessions, Idle(s), s.area \in Areas, s.at = "act"
  PROVE  Calmly(ReadOn(s))
<1> DEFINE on == Onward(s, s.art.num)
<1> DEFINE back == IF s.onward THEN s.art.num - 1 ELSE s.art.num + 1
<1> DEFINE find(cur) == [s EXCEPT !.at = "find", !.cur = cur, !.art = NoMessage, !.act = "next"]
<1> DEFINE turn == [find(back) EXCEPT !.onward = ~@, !.straight = FALSE]
<1> DEFINE write == [s EXCEPT !.at = "write", !.cur = on, !.back = "find"]
<1>1. s.art.num \in Nat
  BY DEF Sessions, Messages
<1>2. on \in Numbers /\ back \in Numbers /\ s.art.num \in Numbers
  BY <1>1, Bounds DEF Onward
<1>3. ReadOn(s) \in {Quiet, find(s.art.num), find(on), turn, write, Leaves(s, "last"), Leaves(s, "next")}
  BY DEF ReadOn
<1> HIDE DEF on, back
<1>4. \A cur \in Numbers : /\ find(cur) \in Sessions /\ find(cur).at = "find"
                           /\ find(cur).post = s.post /\ find(cur).area = s.area
  BY NoMessageType DEF Sessions, Places, Acts
<1>5. /\ write \in Sessions /\ write.at = "write"
      /\ write.post = s.post /\ write.area = s.area
  BY <1>2 DEF Sessions, Places
<1> HIDE DEF find, write
<1>6. /\ turn \in Sessions /\ turn.at = "find"
      /\ turn.post = s.post /\ turn.area = s.area
  <2>1. find(back) \in Sessions
    BY <1>2, <1>4
  <2>2. /\ turn \in Sessions /\ turn.at = find(back).at
        /\ turn.post = find(back).post /\ turn.area = find(back).area
    BY <2>1 DEF Sessions
  <2> QED BY <1>2, <1>4, <2>2
<1> HIDE DEF turn
<1>7. \A t \in Sessions : t.at \in {"find", "write"} /\ t.post = s.post /\ t.area = s.area => Calmly(t)
  BY IdleOK DEF Calmly, Idle, Located
<1>8. Calmly(Quiet) /\ Calmly(Leaves(s, "last")) /\ Calmly(Leaves(s, "next"))
  BY QuietOK, LeavesOK DEF Calmly
<1> QED BY <1>2, <1>3, <1>4, <1>5, <1>6, <1>7, <1>8

LEMMA HitOnOK ==
  ASSUME NEW s \in Sessions, Idle(s), s.area \in Areas, s.at = "act"
  PROVE  Calmly(HitOn(s))
<1> DEFINE hit(i) == [s EXCEPT !.at = "hit", !.i = i, !.art = NoMessage, !.act = "next"]
<1> DEFINE write == [s EXCEPT !.at = "write", !.i = @ + 1, !.back = "hit"]
<1>1. s.i \in Numbers /\ s.i + 1 \in Numbers /\ s.i - 1 \in Numbers
  <2>1. s.i \in Numbers
    BY DEF Sessions
  <2> QED BY <2>1, Bounds
<1>2. HitOn(s) \in {Quiet, hit(s.i), hit(s.i - 1), hit(s.i + 1), write}
  BY DEF HitOn
<1>3. \A i \in Numbers : /\ hit(i) \in Sessions /\ hit(i).at = "hit"
                         /\ hit(i).post = s.post /\ hit(i).area = s.area
  BY NoMessageType DEF Sessions, Places, Acts
<1>4. /\ write \in Sessions /\ write.at = "write"
      /\ write.post = s.post /\ write.area = s.area
  BY <1>1 DEF Sessions, Places
<1> HIDE DEF hit, write
<1>5. \A t \in Sessions : t.at \in {"hit", "write"} /\ t.post = s.post /\ t.area = s.area => Calmly(t)
  BY IdleOK DEF Calmly, Idle, Located
<1>6. Calmly(Quiet)
  BY QuietOK DEF Calmly
<1> QED BY <1>1, <1>2, <1>3, <1>4, <1>5, <1>6

LEMMA ActMoves ==
  ASSUME TypeOK, SessionInv, NEW n \in Nodes, Act(n)
  PROVE  Clean(n)
<1>1. bbs[n] \in Sessions /\ Idle(bbs[n]) /\ bbs[n].at = "act" /\ bbs[n].area \in Areas
  BY Here DEF Act, At, OK, Located
<1>2. Goto(n, HitOn(bbs[n])) \/ Goto(n, ReadOn(bbs[n]))
  BY DEF Act
<1> QED BY <1>1, <1>2, ReadOnOK, HitOnOK, GoingClean

---------------------------------------------------------------------------
(* Posting. *)

LEMMA BackOK ==
  ASSUME NEW s \in Sessions, s.area \in Areas
  PROVE  Calmly(Back(s))
<1> DEFINE t == [s EXCEPT !.at = s.back, !.back = "menu", !.post = NoMessage, !.art = NoMessage,
                          !.act = "next"]
<1>1. s.back \in {"menu", "find", "hit"}
  BY DEF Sessions
<1>2. t \in Sessions /\ t.at = s.back /\ t.post = NoMessage /\ t.area = s.area
  BY <1>1, NoMessageType DEF Sessions, Places, Acts
<1>3. Back(s) \in {Quiet, t}
  BY DEF Back
<1> HIDE DEF t
<1>4. Calmly(t)
  BY <1>1, <1>2, NoMessageType, IdleOK DEF Calmly, Idle, Located
<1>5. Calmly(Quiet)
  BY QuietOK DEF Calmly
<1> QED BY <1>3, <1>4, <1>5

LEMMA WriteMoves ==
  ASSUME TypeOK, SessionInv, NEW n \in Nodes, Write(n)
  PROVE  Clean(n)
<1> DEFINE s == bbs[n]
<1>1. s \in Sessions /\ Idle(s) /\ s.at = "write" /\ s.area \in Areas
  BY Here DEF Write, At, OK, Located
<1>2. \/ Goto(n, Back(s))
      \/ \E to \in {s.art.from} \cup Addressees, private \in BOOLEAN, at \in {"attach", "save"} :
           Goto(n, [s EXCEPT !.at = at, !.post = Message(0, "local", Me(n), to, private)])
  <2>1. \A to : Privacy(s.area, to) \subseteq BOOLEAN
    BY DEF Privacy
  <2> QED BY <2>1 DEF Write
<1>3. CASE Goto(n, Back(s))
  BY <1>1, <1>3, BackOK, GoingClean
<1>4. ASSUME NEW to \in {s.art.from} \cup Addressees, NEW private \in BOOLEAN,
             NEW at \in {"attach", "save"},
             Goto(n, [s EXCEPT !.at = at, !.post = Message(0, "local", Me(n), to, private)])
      PROVE  Clean(n)
  <2> DEFINE post == Message(0, "local", Me(n), to, private)
  <2> DEFINE t == [s EXCEPT !.at = at, !.post = post]
  <2>1. to \in Names
    <3>1. s.art.from \in Names
      BY <1>1 DEF Sessions, Messages
    <3> QED BY <3>1, MailReaderAssumption
  <2>2. post \in Messages /\ post.dir = "none" /\ post.fatt = FALSE /\ post.deleted = FALSE
    BY <2>1, MeIsUser, MessageAreasAssumption DEF Messages, Message
  <2> HIDE DEF post
  <2>3. t \in Sessions /\ t.at = at /\ t.post = post /\ t.area = s.area
    BY <1>1, <2>2 DEF Sessions, Places
  <2>4. Goto(n, t)
    BY <1>4 DEF post
  <2> HIDE DEF t
  <2>5. Calmly(t)
    BY <1>1, <2>2, <2>3, IdleOK, MessageAreasAssumption DEF Calmly, Idle, Located
  <2> QED BY <2>4, <2>5, GoingClean
<1> QED BY <1>2, <1>3, <1>4


\* An attach directory is taken,
TakesDir(n) ==
  \E d \in FreeDirs :
    /\ Take(d) /\ UNCHANGED <<base, jlr, lapped>>
    /\ bbs[n].at = "attach" /\ bbs'[n].at = "upload"
    /\ bbs'[n].post.dir = d /\ ~bbs'[n].post.fatt

LEMMA MakeDirMoves ==
  ASSUME TypeOK, SessionInv, NEW n \in Nodes, MakeDir(n)
  PROVE  (Clean(n) /\ Still) \/ (Moves(n) /\ TakesDir(n))
<1> DEFINE s == bbs[n]
<1> DEFINE save == [s EXCEPT !.at = "save"]
<1> DEFINE take(d) == [s EXCEPT !.at = "upload", !.post.dir = d]
<1>1. s \in Sessions /\ Idle(s) /\ s.at = "attach" /\ s.area \in Areas
  BY Here DEF MakeDir, At, OK, Located
<1>2. \/ Goto(n, save) /\ Still
      \/ \E d \in FreeDirs : Take(d) /\ Goto(n, take(d)) /\ UNCHANGED <<base, jlr, lapped>>
  BY DEF MakeDir
<1>3. CASE Goto(n, save) /\ Still
  <2>1. save \in Sessions /\ save.at = "save" /\ save.post = s.post /\ save.area = s.area
    BY <1>1 DEF Sessions, Places
  <2> HIDE DEF save
  <2> QED BY <1>1, <1>3, <2>1, Stepping DEF Clean
<1>4. ASSUME NEW d \in FreeDirs, Take(d), Goto(n, take(d)), UNCHANGED <<base, jlr, lapped>>
      PROVE  Moves(n) /\ TakesDir(n)
  <2>1. d \in Dirs /\ d \in Names
    BY MessageAreasAssumption DEF FreeDirs
  <2> DEFINE p == [s.post EXCEPT !.dir = d]
  <2>2. s.post \in Messages /\ p \in Messages /\ p.dir = d /\ p.fatt = s.post.fatt /\ p.deleted = s.post.deleted
    <3>1. s.post \in Messages
      BY <1>1 DEF Sessions
    <3> QED BY <2>1, <3>1 DEF Messages
  <2> DEFINE t == [s EXCEPT !.at = "upload", !.post = p]
  <2>3. take(d) = t
    BY <1>1 DEF Sessions
  <2> HIDE DEF p, take
  <2>4. t \in Sessions /\ t.at = "upload" /\ t.post = p /\ t.area = s.area
    BY <1>1, <2>2 DEF Sessions, Places
  <2> HIDE DEF t
  <2>5. OK(t)
    BY <1>1, <2>1, <2>2, <2>4 DEF OK, Located, Carries, Idle
  <2>6. Moves(n) /\ bbs'[n] = t
    BY <1>4, <2>3, <2>5, Going
  <2> QED BY <1>1, <1>4, <2>2, <2>4, <2>6 DEF TakesDir, Idle
<1> QED BY <1>2, <1>3, <1>4

\* filled or removed again,
FillsDir(n) ==
  LET d == bbs[n].post.dir
      files == dirs[d].files
  IN /\ bbs[n].at = "upload" /\ bbs'[n].at = "save"
     /\ UNCHANGED <<base, jlr, lapped, shared>>
     /\ \/ /\ files = {} /\ dirs' = Removed(d, {})
           /\ bbs'[n].post.dir = "none" /\ ~bbs'[n].post.fatt
        \/ \E more \in SUBSET Users :
             /\ files \subseteq more /\ more # {}
             /\ dirs' = [dirs EXCEPT ![d].state = "there", ![d].files = more]
             /\ bbs'[n].post.dir = d /\ bbs'[n].post.fatt

LEMMA UploadMoves ==
  ASSUME TypeOK, SessionInv, NEW n \in Nodes, NEW sent \in BOOLEAN, UploadAttach(n, sent)
  PROVE  Moves(n) /\ FillsDir(n)
<1> DEFINE s == bbs[n]
<1> DEFINE d == s.post.dir
<1> DEFINE files == dirs[d].files \cup (IF sent THEN {Me(n)} ELSE {})
<1> DEFINE dir == IF files = {} THEN "none" ELSE d
<1>1. /\ s \in Sessions /\ s.at = "upload" /\ s.area \in Areas
      /\ d \in Dirs
  BY Here DEF UploadAttach, At, OK, Located, Carries
<1>0. ~s.post.deleted
  BY Here DEF OK, Carries
<1>2. PICK full \in BOOLEAN : full = (files # {})
  OBVIOUS
<1> DEFINE p == [[s.post EXCEPT !.fatt = full] EXCEPT !.dir = dir]
<1> DEFINE t == [s EXCEPT !.at = "save", !.post = p]
<1>3. s.post \in Messages
  BY <1>1 DEF Sessions
<1>4. dir \in Names /\ "none" \notin Dirs
  BY <1>1, MessageAreasAssumption
<1>5. Goto(n, [s EXCEPT !.at = "save", !.post.fatt = (files # {}), !.post.dir = dir])
  BY DEF UploadAttach
<1> HIDE DEF files
<1>6. [s EXCEPT !.at = "save", !.post.fatt = (files # {}), !.post.dir = dir] = t
  BY <1>1, <1>2 DEF Sessions
<1> HIDE DEF dir
<1>7. p \in Messages /\ p.dir = dir /\ p.fatt = full /\ p.deleted = s.post.deleted
  BY <1>3, <1>4 DEF Messages
<1> HIDE DEF p
<1>8. t \in Sessions /\ t.at = "save" /\ t.post = p /\ t.area = s.area
  BY <1>1, <1>7 DEF Sessions, Places
<1> HIDE DEF t
<1>9. OK(t)
  BY <1>0, <1>1, <1>2, <1>7, <1>8 DEF OK, Located, Carries, dir
<1>10. Moves(n) /\ bbs'[n] = t
  BY <1>5, <1>6, <1>9, Going
<1>11. files \in SUBSET Users /\ dirs[d].files \subseteq files
  <2>1. dirs[d] \in [state : {"new", "there", "gone"}, files : SUBSET Users]
    BY <1>1 DEF TypeOK, AreaTypes
  <2>2. dirs[d].files \in SUBSET Users
    BY <2>1
  <2> QED BY <2>2, MeIsUser DEF files
<1>12. /\ dirs' = IF files = {} THEN Removed(d, {})
                  ELSE [dirs EXCEPT ![d].state = "there", ![d].files = files]
       /\ UNCHANGED <<base, jlr, lapped, shared>>
  BY DEF UploadAttach, files
<1>13. CASE files = {}
  BY <1>1, <1>2, <1>7, <1>8, <1>10, <1>11, <1>12, <1>13 DEF FillsDir, dir
<1>14. CASE files # {}
  BY <1>1, <1>2, <1>7, <1>8, <1>10, <1>11, <1>12, <1>14 DEF FillsDir, dir
<1> QED BY <1>10, <1>13, <1>14

\* and what was written is saved.
LEMMA SaveMoves ==
  ASSUME TypeOK, SessionInv, NEW n \in Nodes, Save(n)
  PROVE  /\ Clean(n) /\ bbs[n].at = "save" /\ bbs[n].area \in Areas
         /\ Appended(bbs[n].area, bbs[n].post) /\ bbs[n].post \in Messages
         /\ UNCHANGED <<jlr, dirs, lapped, shared>>
<1>1. bbs[n] \in Sessions /\ bbs[n].at = "save" /\ bbs[n].area \in Areas
  BY Here DEF Save, At, OK, Located
<1>2. Clean(n)
  BY <1>1, BackOK, GoingClean DEF Save
<1>3. bbs[n].post \in Messages
  BY <1>1 DEF Sessions
<1> QED BY <1>1, <1>2, <1>3 DEF Save


---------------------------------------------------------------------------
(* What happens to the messages. *)

\* What a step may do to the messages there are: mark them received, and say
\* they have no files any more.  Those that come have the number of their slot.
BaseGrows ==
  /\ base' \in [Areas -> Seq(Messages)]
  /\ \A a \in Areas : \A i \in DOMAIN base[a] :
       /\ i \in DOMAIN base'[a]
       /\ base'[a][i].num = base[a][i].num /\ base'[a][i].id = base[a][i].id
       /\ base'[a][i].from = base[a][i].from /\ base'[a][i].to = base[a][i].to
       /\ base'[a][i].private = base[a][i].private
       /\ base'[a][i].deleted = base[a][i].deleted /\ base'[a][i].dir = base[a][i].dir
       /\ base'[a][i].fatt => base[a][i].fatt
  /\ \A a \in Areas : \A i \in DOMAIN base'[a] :
       i \notin DOMAIN base[a] => base'[a][i].num = BaseNum[a] + i - 1

\* And to those that come.
NothingNew == \A a \in Areas : DOMAIN base'[a] = DOMAIN base[a]
OneNew(a, m) ==
  \A b \in Areas : \A i \in DOMAIN base'[b] :
    i \notin DOMAIN base[b] => a = b /\ base'[b][i] = m /\ m.num = BaseNum[b] + i - 1
PlainNew ==
  \A b \in Areas : \A i \in DOMAIN base'[b] :
    i \notin DOMAIN base[b] => base'[b][i].dir \notin Dirs /\ ~base'[b][i].fatt

LEMMA SameGrows ==
  ASSUME AreaTypes, UNCHANGED base
  PROVE  BaseGrows /\ NothingNew
BY DEF AreaTypes, BaseGrows, NothingNew

LEMMA AppendedGrows ==
  ASSUME AreaTypes, NEW a \in Areas, NEW m \in Messages, Appended(a, m)
  PROVE  /\ BaseGrows
         /\ Len(base[a]) + 1 \in DOMAIN base'[a]
         /\ NextNumber(a) = BaseNum[a] + Len(base[a]) /\ NextNumber(a) \in Nat \ {0}
         /\ \E p \in Messages : /\ p = [m EXCEPT !.num = NextNumber(a)]
                                /\ p.dir = m.dir /\ p.fatt = m.fatt /\ p.deleted = m.deleted
                                /\ p.num = NextNumber(a)
                                /\ OneNew(a, p) /\ base'[a][Len(base[a]) + 1] = p
<1> DEFINE p == [m EXCEPT !.num = NextNumber(a)]
<1>1. base \in [Areas -> Seq(Messages)] /\ base[a] \in Seq(Messages) /\ BaseNum[a] \in Nat \ {0}
  BY MessageAreasAssumption DEF AreaTypes
<1>2. NextNumber(a) = BaseNum[a] + Len(base[a]) /\ NextNumber(a) \in Nat \ {0}
  <2>1. Len(base[a]) \in Nat
    BY <1>1
  <2> QED BY <1>1, <2>1 DEF NextNumber
<1>3. p \in Messages /\ p.dir = m.dir /\ p.fatt = m.fatt /\ p.deleted = m.deleted /\ p.num = NextNumber(a)
  BY <1>2 DEF Messages
<1>4. base' = [base EXCEPT ![a] = Append(base[a], p)]
  BY DEF Appended
<1> HIDE DEF p
<1>5. Append(base[a], p) \in Seq(Messages)
  BY <1>1, <1>3
<1>6. /\ base' \in [Areas -> Seq(Messages)] /\ base'[a] = Append(base[a], p)
      /\ \A b \in Areas : b # a => base'[b] = base[b]
  BY <1>1, <1>4, <1>5
<1>7. /\ Len(base[a]) \in Nat /\ DOMAIN base[a] = 1..Len(base[a])
      /\ DOMAIN base'[a] = 1..(Len(base[a]) + 1)
      /\ \A i \in DOMAIN base[a] : base'[a][i] = base[a][i]
      /\ base'[a][Len(base[a]) + 1] = p
  BY <1>1, <1>3, <1>6
<1>8. OneNew(a, p)
  <2> SUFFICES ASSUME NEW b \in Areas, NEW i \in DOMAIN base'[b], i \notin DOMAIN base[b]
               PROVE  a = b /\ base'[b][i] = p /\ p.num = BaseNum[b] + i - 1
    BY Zenon DEF OneNew
  <2>1. a = b
    BY <1>6
  <2>2. i = Len(base[a]) + 1
    BY <1>7, <2>1
  <2> QED BY <1>1, <1>2, <1>3, <1>7, <2>1, <2>2
<1>9. BaseGrows
  <2>1. \A b \in Areas : \A i \in DOMAIN base[b] : i \in DOMAIN base'[b] /\ base'[b][i] = base[b][i]
    <3> TAKE b \in Areas
    <3>1. CASE b = a
      <4> TAKE i \in DOMAIN base[b]
      <4>1. i \in 1..Len(base[a]) /\ i \in 1..(Len(base[a]) + 1)
        BY <1>7, <3>1
      <4> QED BY <1>7, <3>1, <4>1
    <3>2. CASE b # a
      BY <1>6, <3>2
    <3> QED BY <3>1, <3>2
  <2>2. \A b \in Areas : \A i \in DOMAIN base'[b] :
          i \notin DOMAIN base[b] => base'[b][i].num = BaseNum[b] + i - 1
    BY <1>8 DEF OneNew
  <2> QED BY <1>6, <2>1, <2>2, Zenon DEF BaseGrows
<1>10. p = [m EXCEPT !.num = NextNumber(a)]
  BY DEF p
<1>11. Len(base[a]) + 1 \in DOMAIN base'[a]
  BY <1>7
<1> QED BY <1>2, <1>3, <1>7, <1>8, <1>9, <1>10, <1>11

\* A message is marked where it is.
LEMMA ReceivedGrows ==
  ASSUME AreaTypes, NEW a \in Areas, NEW num, SetReceived(a, num)
  PROVE  BaseGrows /\ NothingNew
<1> DEFINE hit(i) == i \in FindMsg(a, num)
<1> DEFINE t == [i \in DOMAIN base[a] |-> [base[a][i] EXCEPT !.rcvd = @ \/ i \in FindMsg(a, num)]]
<1>1. base \in [Areas -> Seq(Messages)] /\ base[a] \in Seq(Messages)
  BY DEF AreaTypes
<1>2. base' = [base EXCEPT ![a] = t]
  BY Zenon DEF SetReceived
<1>3. \A i \in DOMAIN base[a] :
        /\ t[i] \in Messages
        /\ t[i].num = base[a][i].num /\ t[i].id = base[a][i].id /\ t[i].fatt = base[a][i].fatt
        /\ t[i].from = base[a][i].from /\ t[i].to = base[a][i].to
        /\ t[i].private = base[a][i].private
        /\ t[i].deleted = base[a][i].deleted /\ t[i].dir = base[a][i].dir
  <2> TAKE i \in DOMAIN base[a]
  <2> DEFINE m == base[a][i]
  <2>1. m \in Messages
    BY <1>1
  <2>2. PICK r \in BOOLEAN : r = (m.rcvd \/ hit(i))
    OBVIOUS
  <2>3. t[i] = [m EXCEPT !.rcvd = r]
    BY <2>2
  <2> HIDE DEF m, t
  <2>4. t[i] \in Messages
    BY <2>1, <2>3 DEF Messages
  <2>5. /\ t[i].num = m.num /\ t[i].id = m.id /\ t[i].fatt = m.fatt
        /\ t[i].from = m.from /\ t[i].to = m.to /\ t[i].private = m.private
        /\ t[i].deleted = m.deleted /\ t[i].dir = m.dir
    BY <2>1, <2>3 DEF Messages
  <2> QED BY <2>4, <2>5 DEF m
<1>4. DOMAIN t = DOMAIN base[a]
  OBVIOUS
<1> HIDE DEF t
<1>5. t \in Seq(Messages)
  <2>1. Len(base[a]) \in Nat /\ DOMAIN base[a] = 1..Len(base[a])
    BY <1>1
  <2>2. t \in [1..Len(base[a]) -> Messages]
    BY <1>3, <1>4, <2>1, Zenon DEF t
  <2> QED BY <2>1, <2>2, SeqDef
<1>6. /\ base' \in [Areas -> Seq(Messages)] /\ base'[a] = t
      /\ \A b \in Areas : b # a => base'[b] = base[b]
  BY <1>1, <1>2, <1>5
<1>7. \A b \in Areas : \A i \in DOMAIN base[b] :
        /\ i \in DOMAIN base'[b]
        /\ base'[b][i].num = base[b][i].num /\ base'[b][i].id = base[b][i].id
        /\ base'[b][i].from = base[b][i].from /\ base'[b][i].to = base[b][i].to
        /\ base'[b][i].private = base[b][i].private
        /\ base'[b][i].deleted = base[b][i].deleted /\ base'[b][i].dir = base[b][i].dir
        /\ base'[b][i].fatt => base[b][i].fatt
  <2> TAKE b \in Areas
  <2> TAKE i \in DOMAIN base[b]
  <2>1. CASE b = a
    BY <1>3, <1>4, <1>6, <2>1
  <2>2. CASE b # a
    BY <1>6, <2>2
  <2> QED BY <2>1, <2>2
<1>8. NothingNew
  BY <1>4, <1>6 DEF NothingNew
<1>9. BaseGrows
  BY <1>6, <1>7, <1>8, Zenon DEF BaseGrows, NothingNew
<1> QED BY <1>8, <1>9

\* The message found has no files any more.
LEMMA ClearGrows ==
  ASSUME AreaTypes, NEW a \in Areas, NEW num, ClearFAttach(a, num)
  PROVE  /\ BaseGrows /\ NothingNew
         /\ \A i \in FindMsg(a, num) : ~base'[a][i].fatt
<1> DEFINE hit(i) == i \in FindMsg(a, num)
<1> DEFINE t == [i \in DOMAIN base[a] |-> [base[a][i] EXCEPT !.fatt = @ /\ i \notin FindMsg(a, num)]]
<1>1. base \in [Areas -> Seq(Messages)] /\ base[a] \in Seq(Messages)
  BY DEF AreaTypes
<1>2. base' = [base EXCEPT ![a] = t]
  BY Zenon DEF ClearFAttach
<1>3. \A i \in DOMAIN base[a] :
        /\ t[i] \in Messages
        /\ t[i].num = base[a][i].num /\ t[i].id = base[a][i].id
        /\ t[i].from = base[a][i].from /\ t[i].to = base[a][i].to
        /\ t[i].private = base[a][i].private
        /\ t[i].deleted = base[a][i].deleted /\ t[i].dir = base[a][i].dir
        /\ t[i].fatt => base[a][i].fatt /\ ~hit(i)
  <2> TAKE i \in DOMAIN base[a]
  <2> DEFINE m == base[a][i]
  <2>1. m \in Messages
    BY <1>1
  <2>2. PICK r \in BOOLEAN : r = (m.fatt /\ ~hit(i))
    OBVIOUS
  <2>3. t[i] = [m EXCEPT !.fatt = r]
    BY <2>2
  <2> HIDE DEF m, t
  <2>4. t[i] \in Messages
    BY <2>1, <2>3 DEF Messages
  <2>5. /\ t[i].num = m.num /\ t[i].id = m.id /\ t[i].fatt = r
        /\ t[i].from = m.from /\ t[i].to = m.to /\ t[i].private = m.private
        /\ t[i].deleted = m.deleted /\ t[i].dir = m.dir
    BY <2>1, <2>3 DEF Messages
  <2> HIDE DEF hit
  <2> QED BY <2>2, <2>4, <2>5 DEF m
<1>4. DOMAIN t = DOMAIN base[a]
  OBVIOUS
<1> HIDE DEF t
<1>5. t \in Seq(Messages)
  <2>1. Len(base[a]) \in Nat /\ DOMAIN base[a] = 1..Len(base[a])
    BY <1>1
  <2>2. t \in [1..Len(base[a]) -> Messages]
    BY <1>3, <1>4, <2>1, Zenon DEF t
  <2> QED BY <2>1, <2>2, SeqDef
<1>6. /\ base' \in [Areas -> Seq(Messages)] /\ base'[a] = t
      /\ \A b \in Areas : b # a => base'[b] = base[b]
  BY <1>1, <1>2, <1>5
<1>7. \A i \in FindMsg(a, num) : i \in DOMAIN base[a] /\ hit(i)
  BY FindMsgFacts DEF Active
<1>8. \A b \in Areas : \A i \in DOMAIN base[b] :
        /\ i \in DOMAIN base'[b]
        /\ base'[b][i].num = base[b][i].num /\ base'[b][i].id = base[b][i].id
        /\ base'[b][i].from = base[b][i].from /\ base'[b][i].to = base[b][i].to
        /\ base'[b][i].private = base[b][i].private
        /\ base'[b][i].deleted = base[b][i].deleted /\ base'[b][i].dir = base[b][i].dir
        /\ base'[b][i].fatt => base[b][i].fatt
  <2> TAKE b \in Areas
  <2> TAKE i \in DOMAIN base[b]
  <2>1. CASE b = a
    BY <1>3, <1>4, <1>6, <2>1
  <2>2. CASE b # a
    BY <1>6, <2>2
  <2> QED BY <2>1, <2>2
<1>9. NothingNew
  BY <1>4, <1>6 DEF NothingNew
<1>10. BaseGrows
  BY <1>6, <1>8, <1>9, Zenon DEF BaseGrows, NothingNew
<1> QED BY <1>3, <1>6, <1>7, <1>9, <1>10 DEF NothingNew


---------------------------------------------------------------------------
(* Attached files stay with their message. *)

LEMMA MovesFacts ==
  ASSUME TypeOK, NEW n \in Nodes, Moves(n)
  PROVE  /\ bbs' \in [Nodes -> Sessions]
         /\ \A m \in Nodes : m # n => bbs'[m] = bbs[m]
BY DEF TypeOK, ReaderTypes, Moves, OK

LEMMA BackedGrows ==
  ASSUME AreaTypes, BaseGrows, NEW s, NEW t, Located(s), Backed(s, base),
         s.at \in {"bar", "files", "kill"}, t.area = s.area, t.art = s.art,
         t.at \in {"files", "kill"} => t.art.fatt
  PROVE  Backed(t, base')
BY DEF Backed, Located, BaseGrows

LEMMA SessionKept ==
  ASSUME TypeOK, SessionInv, BaseGrows, NEW n \in Nodes, Moves(n), Backed(bbs'[n], base')
  PROVE  SessionInv'
<1> SUFFICES ASSUME NEW m \in Nodes
             PROVE  Located(bbs'[m]) /\ Carries(bbs'[m]) /\ Backed(bbs'[m], base')
  BY DEF SessionInv
<1>1. CASE m = n
  BY <1>1 DEF Moves, OK
<1>2. CASE m # n
  <2>1. bbs'[m] = bbs[m] /\ Located(bbs[m]) /\ Carries(bbs[m]) /\ Backed(bbs[m], base)
    BY <1>2, MovesFacts DEF SessionInv
  <2>2. Backed(bbs[m], base')
    BY <2>1 DEF Backed, Located, BaseGrows
  <2> QED BY <2>1, <2>2
<1> QED BY <1>1, <1>2

LEMMA SessionsStay ==
  ASSUME TypeOK, SessionInv, BaseGrows, UNCHANGED bbs
  PROVE  SessionInv'
<1> SUFFICES ASSUME NEW m \in Nodes
             PROVE  Located(bbs[m]) /\ Carries(bbs[m]) /\ Backed(bbs[m], base')
  BY DEF SessionInv
<1>1. Located(bbs[m]) /\ Carries(bbs[m]) /\ Backed(bbs[m], base)
  BY DEF SessionInv
<1>2. Backed(bbs[m], base')
  BY <1>1 DEF Backed, Located, BaseGrows
<1> QED BY <1>1, <1>2

\* A message of the new list that has a directory had it before, unless it is
\* the one added.
LEMMA OldOrNew ==
  ASSUME AreaTypes, BaseGrows, NEW a \in Areas, NEW i \in DOMAIN base'[a]
  PROVE  \/ /\ i \in DOMAIN base[a] /\ base'[a][i].dir = base[a][i].dir
            /\ base'[a][i].num = base[a][i].num /\ base'[a][i].deleted = base[a][i].deleted
            /\ base'[a][i].fatt => base[a][i].fatt
         \/ i \notin DOMAIN base[a]
BY DEF BaseGrows

\* Steps that leave the directories alone.
LEMMA CalmFiles ==
  ASSUME TypeOK, FilesInv, OneOwner, NewFree, FilesThere, BaseGrows, PlainNew,
         UNCHANGED <<dirs, shared>>,
         \A n \in Nodes : bbs'[n].post = bbs[n].post \/ Idle(bbs'[n])
  PROVE  FilesInv' /\ OneOwner' /\ NewFree' /\ FilesThere'
<1>0. AreaTypes
  BY DEF TypeOK
<1>1. \A a \in Areas : \A i \in DOMAIN base'[a] :
        base'[a][i].dir \in Dirs =>
          /\ i \in DOMAIN base[a] /\ base'[a][i].dir = base[a][i].dir
          /\ base'[a][i].fatt => base[a][i].fatt
  BY <1>0, OldOrNew DEF PlainNew
<1>2. \A n \in Nodes : bbs'[n].post.dir \in Dirs => bbs'[n].post.dir = bbs[n].post.dir
  BY DEF Idle
<1>3. \A n \in Nodes : bbs'[n].post.fatt => bbs'[n].post = bbs[n].post
  BY DEF Idle
<1>4. FilesInv'
  <2> SUFFICES ASSUME NEW a \in Areas, NEW i \in DOMAIN base'[a], base'[a][i].fatt
               PROVE  /\ base'[a][i].dir \in Dirs /\ ~base'[a][i].deleted
                      /\ base'[a][i].num = BaseNum[a] + i - 1
    BY DEF FilesInv
  <2>1. /\ i \in DOMAIN base[a] /\ base'[a][i].dir = base[a][i].dir
        /\ base'[a][i].num = base[a][i].num /\ base'[a][i].deleted = base[a][i].deleted
        /\ base[a][i].fatt
    BY <1>0, OldOrNew DEF PlainNew
  <2> QED BY <2>1 DEF FilesInv
<1>5. OneOwner'
  <2> SUFFICES ASSUME NEW d \in Dirs \ shared
               PROVE  /\ \A a, b \in Areas : \A i \in DOMAIN base'[a], j \in DOMAIN base'[b] :
                           base'[a][i].dir = d /\ base'[b][j].dir = d => a = b /\ i = j
                      /\ \A a \in Areas : \A i \in DOMAIN base'[a], n \in Nodes :
                           ~(base'[a][i].dir = d /\ bbs'[n].post.dir = d)
                      /\ \A m, n \in Nodes : bbs'[m].post.dir = d /\ bbs'[n].post.dir = d => m = n
    BY DEF OneOwner
  <2> QED BY <1>1, <1>2 DEF OneOwner
<1>6. NewFree'
  <2> SUFFICES ASSUME NEW d \in Dirs, dirs[d].state = "new"
               PROVE  /\ \A a \in Areas : \A i \in DOMAIN base'[a] : base'[a][i].dir # d
                      /\ \A n \in Nodes : bbs'[n].post.dir # d
    BY DEF NewFree
  <2> QED BY <1>1, <1>2 DEF NewFree
<1>7. FilesThere'
  <2>1. ASSUME NEW a \in Areas, NEW i \in DOMAIN base'[a],
               base'[a][i].fatt, base'[a][i].dir \notin shared
        PROVE  dirs[base'[a][i].dir].files # {}
    <3>1. base'[a][i].dir \in Dirs
      BY <1>4, <2>1 DEF FilesInv
    <3> QED BY <1>1, <2>1, <3>1 DEF FilesThere
  <2>2. ASSUME NEW n \in Nodes, bbs'[n].post.fatt, bbs'[n].post.dir \notin shared
        PROVE  dirs[bbs'[n].post.dir].files # {}
    BY <1>3, <2>2 DEF FilesThere
  <2> QED BY <2>1, <2>2 DEF FilesThere
<1> QED BY <1>4, <1>5, <1>6, <1>7

LEMMA CalmStep ==
  ASSUME TypeOK, AttachInv, BaseGrows, PlainNew, UNCHANGED <<dirs, shared>>,
         NEW n \in Nodes, Calm(n), Backed(bbs'[n], base')
  PROVE  AttachInv'
<1>1. Moves(n) /\ Idle(bbs'[n])
  BY DEF Calm
<1>2. SessionInv'
  BY <1>1, SessionKept DEF AttachInv
<1>3. \A m \in Nodes : bbs'[m].post = bbs[m].post \/ Idle(bbs'[m])
  BY <1>1, MovesFacts
<1>4. FilesInv' /\ OneOwner' /\ NewFree' /\ FilesThere'
  BY <1>3, CalmFiles DEF AttachInv
<1> QED BY <1>2, <1>4 DEF AttachInv

LEMMA StillStep ==
  ASSUME TypeOK, AttachInv, BaseGrows, PlainNew, UNCHANGED <<dirs, shared, bbs>>
  PROVE  AttachInv'
<1>1. SessionInv'
  BY SessionsStay DEF AttachInv
<1>2. FilesInv' /\ OneOwner' /\ NewFree' /\ FilesThere'
  BY CalmFiles DEF AttachInv
<1> QED BY <1>1, <1>2 DEF AttachInv


\* A directory is taken: nobody has it, or it is shared from now on.
LEMMA TakesStep ==
  ASSUME TypeOK, AttachInv, NEW n \in Nodes, Moves(n), TakesDir(n)
  PROVE  AttachInv'
<1>1. PICK d \in FreeDirs : /\ Take(d) /\ UNCHANGED <<base, jlr, lapped>>
                            /\ bbs[n].at = "attach" /\ bbs'[n].at = "upload"
                            /\ bbs'[n].post.dir = d /\ ~bbs'[n].post.fatt
  BY DEF TakesDir
<1>2. AreaTypes /\ BaseGrows
  BY <1>1, SameGrows DEF TypeOK
<1>3. d \in Dirs /\ (dirs[d].state = "new" \/ (dirs[d].state = "there" /\ dirs[d].files = {}))
  BY DEF FreeDirs
<1>4. SessionInv'
  BY <1>1, <1>2, SessionKept DEF AttachInv, Backed
<1>5. /\ \A e \in Dirs : e # d => dirs'[e] = dirs[e]
      /\ dirs'[d].state = "there" /\ \A e \in Dirs : dirs'[e].files = dirs[e].files
  <2>1. dirs \in [Dirs -> [state : {"new", "there", "gone"}, files : SUBSET Users]]
    BY DEF TypeOK, AreaTypes
  <2>2. dirs' = [dirs EXCEPT ![d].state = "there"]
    BY <1>1 DEF Take
  <2> QED BY <1>3, <2>1, <2>2
<1>6. /\ shared \subseteq shared'
      /\ d \notin shared' => dirs[d].state = "new"
  BY <1>1, <1>3 DEF Take
<1>7. UNCHANGED base
  BY <1>1
<1>8. \A m \in Nodes : m # n => bbs'[m] = bbs[m]
  BY MovesFacts
<1>9. FilesInv'
  BY <1>7 DEF AttachInv, FilesInv
<1>10. OneOwner'
  <2> SUFFICES ASSUME NEW e \in Dirs \ shared'
               PROVE  /\ \A a, b \in Areas : \A i \in DOMAIN base[a], j \in DOMAIN base[b] :
                           base[a][i].dir = e /\ base[b][j].dir = e => a = b /\ i = j
                      /\ \A a \in Areas : \A i \in DOMAIN base[a], m \in Nodes :
                           ~(base[a][i].dir = e /\ bbs'[m].post.dir = e)
                      /\ \A m, k \in Nodes : bbs'[m].post.dir = e /\ bbs'[k].post.dir = e => m = k
    BY <1>7 DEF OneOwner
  <2>1. CASE e = d
    BY <1>3, <1>6, <1>8, <2>1 DEF AttachInv, NewFree
  <2>2. CASE e # d
    BY <1>1, <1>6, <1>8, <2>2 DEF AttachInv, OneOwner
  <2> QED BY <2>1, <2>2
<1>11. NewFree'
  <2> SUFFICES ASSUME NEW e \in Dirs, dirs'[e].state = "new"
               PROVE  /\ \A a \in Areas : \A i \in DOMAIN base[a] : base[a][i].dir # e
                      /\ \A m \in Nodes : bbs'[m].post.dir # e
    BY <1>7 DEF NewFree
  <2>1. e # d /\ dirs[e].state = "new"
    BY <1>5
  <2> QED BY <1>1, <1>8, <2>1 DEF AttachInv, NewFree
<1>12. FilesThere'
  <2>1. ASSUME NEW a \in Areas, NEW i \in DOMAIN base[a],
               base[a][i].fatt, base[a][i].dir \notin shared'
        PROVE  dirs'[base[a][i].dir].files # {}
    <3>1. base[a][i].dir \in Dirs
      BY <2>1 DEF AttachInv, FilesInv
    <3> QED BY <1>5, <1>6, <2>1, <3>1 DEF AttachInv, FilesThere
  <2>2. ASSUME NEW m \in Nodes, bbs'[m].post.fatt, bbs'[m].post.dir \notin shared'
        PROVE  dirs'[bbs'[m].post.dir].files # {}
    <3>1. m # n /\ bbs'[m] = bbs[m]
      BY <1>1, <1>8, <2>2
    <3>2. bbs[m].post.dir \in Dirs
      BY <2>2, <3>1 DEF AttachInv, SessionInv, Carries
    <3> QED BY <1>5, <1>6, <2>2, <3>1, <3>2 DEF AttachInv, FilesThere
  <2> QED BY <1>7, <2>1, <2>2 DEF FilesThere
<1> QED BY <1>4, <1>9, <1>10, <1>11, <1>12 DEF AttachInv

\* The files of a message come into the directory its poster took.
LEMMA FillsStep ==
  ASSUME TypeOK, AttachInv, NEW n \in Nodes, Moves(n), FillsDir(n)
  PROVE  AttachInv'
<1> DEFINE d == bbs[n].post.dir
<1>1. /\ bbs[n].at = "upload" /\ bbs'[n].at = "save"
      /\ UNCHANGED <<base, jlr, lapped, shared>>
      /\ d \in Dirs
  BY DEF FillsDir, AttachInv, SessionInv, Carries
<1>2. AreaTypes /\ BaseGrows /\ UNCHANGED base
  BY <1>1, SameGrows DEF TypeOK
<1>4. SessionInv'
  BY <1>1, <1>2, SessionKept DEF AttachInv, Backed
<1>0. dirs \in [Dirs -> [state : {"new", "there", "gone"}, files : SUBSET Users]]
  BY DEF TypeOK, AreaTypes
<1>5. /\ \A e \in Dirs : e # d => dirs'[e] = dirs[e]
      /\ dirs'[d].state = "new" => dirs[d].state = "new" /\ bbs'[n].post.dir # d
      /\ \/ dirs[d].files = {} /\ bbs'[n].post.dir \notin Dirs /\ ~bbs'[n].post.fatt
         \/ bbs'[n].post.dir = d /\ dirs'[d].files # {}
  <2>1. CASE /\ dirs[d].files = {} /\ dirs' = Removed(d, {})
             /\ bbs'[n].post.dir = "none" /\ ~bbs'[n].post.fatt
    <3>1. dirs' = [dirs EXCEPT ![d].files = {}, ![d].state = "gone"]
      BY <2>1 DEF Removed
    <3>2. dirs'[d].state = "gone" /\ \A e \in Dirs : e # d => dirs'[e] = dirs[e]
      BY <1>0, <1>1, <3>1
    <3> QED BY <2>1, <3>2, MessageAreasAssumption
  <2>2. ASSUME NEW more \in SUBSET Users, more # {},
               dirs' = [dirs EXCEPT ![d].state = "there", ![d].files = more],
               bbs'[n].post.dir = d
        PROVE  <1>5!1 /\ <1>5!2 /\ bbs'[n].post.dir = d /\ dirs'[d].files # {}
    BY <1>0, <1>1, <2>2
  <2> QED BY <2>1, <2>2 DEF FillsDir
<1> HIDE DEF d
<1>8. \A m \in Nodes : m # n => bbs'[m] = bbs[m]
  BY MovesFacts
<1>3. \A m \in Nodes : bbs'[m].post.dir \in Dirs => bbs'[m].post.dir = bbs[m].post.dir
  BY <1>5, <1>8 DEF d
<1>9. FilesInv'
  BY <1>2 DEF AttachInv, FilesInv
<1>10. OneOwner'
  <2> SUFFICES ASSUME NEW e \in Dirs \ shared
               PROVE  /\ \A a, b \in Areas : \A i \in DOMAIN base[a], j \in DOMAIN base[b] :
                           base[a][i].dir = e /\ base[b][j].dir = e => a = b /\ i = j
                      /\ \A a \in Areas : \A i \in DOMAIN base[a], m \in Nodes :
                           ~(base[a][i].dir = e /\ bbs'[m].post.dir = e)
                      /\ \A m, k \in Nodes : bbs'[m].post.dir = e /\ bbs'[k].post.dir = e => m = k
    BY <1>1, <1>2 DEF OneOwner
  <2> QED BY <1>3 DEF AttachInv, OneOwner
<1>11. NewFree'
  <2> SUFFICES ASSUME NEW e \in Dirs, dirs'[e].state = "new"
               PROVE  /\ \A a \in Areas : \A i \in DOMAIN base[a] : base[a][i].dir # e
                      /\ \A m \in Nodes : bbs'[m].post.dir # e
    BY <1>2 DEF NewFree
  <2>1. dirs[e].state = "new"
    BY <1>5
  <2> QED BY <1>3, <2>1 DEF AttachInv, NewFree
<1>12. FilesThere'
  <2>1. ASSUME NEW a \in Areas, NEW i \in DOMAIN base[a],
               base[a][i].fatt, base[a][i].dir \notin shared
        PROVE  dirs'[base[a][i].dir].files # {}
    <3>1. base[a][i].dir \in Dirs
      BY <2>1 DEF AttachInv, FilesInv
    <3>2. dirs[base[a][i].dir].files # {}
      BY <2>1 DEF AttachInv, FilesThere
    <3> QED BY <1>5, <3>1, <3>2
  <2>2. ASSUME NEW m \in Nodes, bbs'[m].post.fatt, bbs'[m].post.dir \notin shared
        PROVE  dirs'[bbs'[m].post.dir].files # {}
    <3>1. CASE m = n
      <4>1. bbs'[n].post.dir \in Dirs
        BY <2>2, <3>1 DEF Moves, OK, Carries
      <4> QED BY <1>5, <2>2, <3>1, <4>1
    <3>2. CASE m # n
      <4>1. bbs'[m] = bbs[m] /\ bbs[m].post.dir \in Dirs
        BY <1>8, <2>2, <3>2 DEF AttachInv, SessionInv, Carries
      <4>2. dirs[bbs[m].post.dir].files # {}
        BY <2>2, <4>1 DEF AttachInv, FilesThere
      <4>3. bbs[m].post.dir # d
        BY <1>1, <2>2, <3>2, <4>1 DEF AttachInv, OneOwner, d
      <4> QED BY <1>5, <4>1, <4>2, <4>3
    <3> QED BY <3>1, <3>2
  <2> QED BY <1>1, <1>2, <2>1, <2>2 DEF FilesThere
<1> QED BY <1>4, <1>9, <1>10, <1>11, <1>12 DEF AttachInv


\* A message saved gets the directory of the session that wrote it, and the
\* number of its slot.
LEMMA SaveStep ==
  ASSUME TypeOK, AttachInv, NEW n \in Nodes, Save(n)
  PROVE  AttachInv' /\ BaseGrows
<1> DEFINE a == bbs[n].area
<1>1. /\ Clean(n) /\ bbs[n].at = "save" /\ a \in Areas
      /\ Appended(a, bbs[n].post) /\ bbs[n].post \in Messages
      /\ UNCHANGED <<jlr, dirs, lapped, shared>>
  BY SaveMoves DEF AttachInv
<1>2. AreaTypes
  BY DEF TypeOK
<1>3. BaseGrows
  BY <1>1, <1>2, AppendedGrows
<1>4. PICK p \in Messages : /\ p.dir = bbs[n].post.dir /\ p.fatt = bbs[n].post.fatt
                            /\ p.deleted = bbs[n].post.deleted /\ OneNew(a, p)
  BY <1>1, <1>2, AppendedGrows
<1> HIDE DEF a
<1>5. Carries(bbs[n])
  BY DEF AttachInv, SessionInv
<1>6. p.fatt => p.dir \in Dirs /\ ~p.deleted
  BY <1>4, <1>5 DEF Carries
<1>7. \A b \in Areas : \A i \in DOMAIN base'[b] :
        \/ /\ i \in DOMAIN base[b] /\ base'[b][i].dir = base[b][i].dir
           /\ base'[b][i].num = base[b][i].num /\ base'[b][i].deleted = base[b][i].deleted
           /\ base'[b][i].fatt => base[b][i].fatt
        \/ i \notin DOMAIN base[b] /\ b = a /\ base'[b][i] = p /\ p.num = BaseNum[b] + i - 1
  BY <1>2, <1>3, <1>4, OldOrNew, Zenon DEF OneNew
<1>8. Moves(n) /\ Idle(bbs'[n]) /\ Backed(bbs'[n], base')
  BY <1>1 DEF Clean, Calm, Backed
<1>9. SessionInv'
  BY <1>3, <1>8, SessionKept DEF AttachInv
<1>10. /\ \A m \in Nodes : m # n => bbs'[m] = bbs[m]
       /\ bbs'[n].post.dir \notin Dirs /\ ~bbs'[n].post.fatt
  BY <1>8, MovesFacts DEF Idle
<1>0. \A b, c \in Areas : \A i \in DOMAIN base'[b], j \in DOMAIN base'[c] :
        i \notin DOMAIN base[b] /\ j \notin DOMAIN base[c] => b = c /\ i = j
  <2> SUFFICES ASSUME NEW b \in Areas, NEW c \in Areas,
                      NEW i \in DOMAIN base'[b], NEW j \in DOMAIN base'[c],
                      i \notin DOMAIN base[b], j \notin DOMAIN base[c]
               PROVE  b = c /\ i = j
    BY Zenon
  <2>1. b = a /\ c = a /\ p.num = BaseNum[a] + i - 1 /\ p.num = BaseNum[a] + j - 1
    BY <1>7
  <2>2. BaseNum[a] \in Nat /\ i \in Nat /\ j \in Nat
    BY <1>1, <1>3, <2>1, MessageAreasAssumption DEF BaseGrows, a
  <2> QED BY <2>1, <2>2
<1>11. FilesInv'
  <2> SUFFICES ASSUME NEW b \in Areas, NEW i \in DOMAIN base'[b], base'[b][i].fatt
               PROVE  /\ base'[b][i].dir \in Dirs /\ ~base'[b][i].deleted
                      /\ base'[b][i].num = BaseNum[b] + i - 1
    BY DEF FilesInv
  <2> QED BY <1>6, <1>7 DEF AttachInv, FilesInv
<1>12. OneOwner'
  <2> SUFFICES ASSUME NEW d \in Dirs \ shared
               PROVE  /\ \A b, c \in Areas : \A i \in DOMAIN base'[b], j \in DOMAIN base'[c] :
                           base'[b][i].dir = d /\ base'[c][j].dir = d => b = c /\ i = j
                      /\ \A b \in Areas : \A i \in DOMAIN base'[b], m \in Nodes :
                           ~(base'[b][i].dir = d /\ bbs'[m].post.dir = d)
                      /\ \A m, k \in Nodes : bbs'[m].post.dir = d /\ bbs'[k].post.dir = d => m = k
    BY <1>1 DEF OneOwner
  <2>1. \A b, c \in Areas : \A i \in DOMAIN base[b], j \in DOMAIN base[c] :
          base[b][i].dir = d /\ base[c][j].dir = d => b = c /\ i = j
    BY DEF AttachInv, OneOwner
  <2>2. \A b \in Areas : \A i \in DOMAIN base[b], m \in Nodes :
          ~(base[b][i].dir = d /\ bbs[m].post.dir = d)
    BY DEF AttachInv, OneOwner
  <2>3. \A m, k \in Nodes : bbs[m].post.dir = d /\ bbs[k].post.dir = d => m = k
    BY DEF AttachInv, OneOwner
  <2>4. \A b, c \in Areas : \A i \in DOMAIN base'[b], j \in DOMAIN base'[c] :
          base'[b][i].dir = d /\ base'[c][j].dir = d => b = c /\ i = j
    BY <1>0, <1>4, <1>7, <2>1, <2>2
  <2>5. ASSUME NEW b \in Areas, NEW i \in DOMAIN base'[b], NEW m \in Nodes,
               base'[b][i].dir = d, bbs'[m].post.dir = d
        PROVE  FALSE
    <3>1. m # n /\ bbs[m].post.dir = d
      BY <1>10, <2>5
    <3> QED BY <1>4, <1>7, <2>2, <2>3, <2>5, <3>1
  <2>6. \A m, k \in Nodes : bbs'[m].post.dir = d /\ bbs'[k].post.dir = d => m = k
    BY <1>10, <2>3
  <2> QED BY <2>4, <2>5, <2>6
<1>13. NewFree'
  <2> SUFFICES ASSUME NEW d \in Dirs, dirs[d].state = "new"
               PROVE  /\ \A b \in Areas : \A i \in DOMAIN base'[b] : base'[b][i].dir # d
                      /\ \A m \in Nodes : bbs'[m].post.dir # d
    BY <1>1 DEF NewFree
  <2> QED BY <1>4, <1>7, <1>10 DEF AttachInv, NewFree
<1>14. FilesThere'
  <2>1. ASSUME NEW b \in Areas, NEW i \in DOMAIN base'[b],
               base'[b][i].fatt, base'[b][i].dir \notin shared
        PROVE  dirs[base'[b][i].dir].files # {}
    BY <1>4, <1>7, <2>1 DEF AttachInv, FilesThere
  <2>2. ASSUME NEW m \in Nodes, bbs'[m].post.fatt, bbs'[m].post.dir \notin shared
        PROVE  dirs[bbs'[m].post.dir].files # {}
    BY <1>10, <2>2 DEF AttachInv, FilesThere
  <2> QED BY <1>1, <2>1, <2>2 DEF FilesThere
<1> QED BY <1>3, <1>9, <1>11, <1>12, <1>13, <1>14 DEF AttachInv

\* Files that are removed are those of the message whose bit is cleared.
LEMMA KillStep ==
  ASSUME TypeOK, AttachInv, NEW n \in Nodes, KillFiles(n)
  PROVE  AttachInv' /\ BaseGrows /\ NothingNew
<1> DEFINE s == bbs[n]
<1> DEFINE d == s.art.dir
<1>0. AreaTypes
  BY DEF TypeOK
<1>1. /\ Clean(n) /\ s.at = "kill" /\ s.area \in Areas
      /\ Backed(s, base)
  <2>1. s.at = "kill"
    BY DEF KillFiles, At
  <2> QED BY <2>1, KillFilesMoves DEF AttachInv, SessionInv, Located
<1>2. Backed(bbs'[n], base') /\ Calm(n)
  BY <1>1 DEF Clean, Backed
<1>3. CASE Still
  <2>1. BaseGrows /\ NothingNew /\ UNCHANGED <<dirs, shared>>
    BY <1>0, <1>3, SameGrows DEF Still, areaVars
  <2>2. PlainNew
    BY <2>1 DEF PlainNew, NothingNew
  <2> QED BY <1>2, <2>1, <2>2, CalmStep
<1>4. ASSUME dirs' = Removed(d, dirs[d].files \ s.listed),
             ClearFAttach(s.area, s.art.num),
             UNCHANGED <<jlr, lapped, shared>>
      PROVE  AttachInv' /\ BaseGrows /\ NothingNew
  <2>1. /\ BaseGrows /\ NothingNew
        /\ \A i \in FindMsg(s.area, s.art.num) : ~base'[s.area][i].fatt
    BY <1>0, <1>1, <1>4, ClearGrows
  <2>2. PICK i \in DOMAIN base[s.area] :
          /\ ~base[s.area][i].deleted /\ base[s.area][i].num = s.art.num
          /\ base[s.area][i].num = BaseNum[s.area] + i - 1
          /\ base[s.area][i].dir = d /\ d \in Dirs
    BY <1>1 DEF Backed
  <2>3. ~base'[s.area][i].fatt
    <3>1. i \in Active(s.area)
      BY <2>2 DEF Active
    <3>2. FindMsg(s.area, s.art.num) = {i}
      BY <1>0, <1>1, <2>2, <3>1, FindMsgSlot
    <3> QED BY <2>1, <3>2
  <2>4. /\ \A e \in Dirs : e # d => dirs'[e] = dirs[e]
        /\ dirs'[d].state = "new" => dirs[d].state = "new"
    <3>1. dirs \in [Dirs -> [state : {"new", "there", "gone"}, files : SUBSET Users]]
      BY <1>0 DEF AreaTypes
    <3> DEFINE rest == dirs[d].files \ s.listed
    <3>2. PICK state : /\ dirs' = [dirs EXCEPT ![d].files = rest, ![d].state = state]
                       /\ state \in {"gone", dirs[d].state}
      BY <1>4 DEF Removed
    <3>3. dirs'[d].state = state /\ \A e \in Dirs : e # d => dirs'[e] = dirs[e]
      BY <2>2, <3>1, <3>2
    <3> QED BY <3>2, <3>3
  <2>5. SessionInv'
    BY <1>2, <2>1, SessionKept DEF AttachInv, Calm
  <2>6. /\ \A m \in Nodes : m # n => bbs'[m] = bbs[m]
        /\ bbs'[n].post.dir \notin Dirs /\ ~bbs'[n].post.fatt
    BY <1>2, MovesFacts DEF Idle, Calm
  <2>7. \A a \in Areas : \A j \in DOMAIN base'[a] :
          /\ j \in DOMAIN base[a] /\ base'[a][j].dir = base[a][j].dir
          /\ base'[a][j].num = base[a][j].num /\ base'[a][j].deleted = base[a][j].deleted
          /\ base'[a][j].fatt => base[a][j].fatt
    BY <2>1 DEF BaseGrows, NothingNew
  <2>8. FilesInv'
    BY <2>7 DEF AttachInv, FilesInv
  <2>9. OneOwner'
    <3> SUFFICES ASSUME NEW e \in Dirs \ shared
                 PROVE  /\ \A a, b \in Areas : \A k \in DOMAIN base'[a], j \in DOMAIN base'[b] :
                             base'[a][k].dir = e /\ base'[b][j].dir = e => a = b /\ k = j
                        /\ \A a \in Areas : \A k \in DOMAIN base'[a], m \in Nodes :
                             ~(base'[a][k].dir = e /\ bbs'[m].post.dir = e)
                        /\ \A m, k \in Nodes : bbs'[m].post.dir = e /\ bbs'[k].post.dir = e => m = k
      BY <1>4 DEF OneOwner
    <3> QED BY <2>6, <2>7 DEF AttachInv, OneOwner
  <2>10. NewFree'
    <3> SUFFICES ASSUME NEW e \in Dirs, dirs'[e].state = "new"
                 PROVE  /\ \A a \in Areas : \A k \in DOMAIN base'[a] : base'[a][k].dir # e
                        /\ \A m \in Nodes : bbs'[m].post.dir # e
      BY DEF NewFree
    <3>1. dirs[e].state = "new"
      BY <2>4
    <3> QED BY <2>6, <2>7, <3>1 DEF AttachInv, NewFree
  <2>11. FilesThere'
    <3>1. ASSUME NEW a \in Areas, NEW j \in DOMAIN base'[a],
                 base'[a][j].fatt, base'[a][j].dir \notin shared
          PROVE  dirs'[base'[a][j].dir].files # {}
      <4>1. /\ j \in DOMAIN base[a] /\ base[a][j].fatt /\ base'[a][j].dir = base[a][j].dir
            /\ base[a][j].dir \in Dirs
        BY <2>7, <3>1 DEF AttachInv, FilesInv
      <4>2. base[a][j].dir # d
        BY <1>1, <2>2, <2>3, <3>1, <4>1 DEF AttachInv, OneOwner
      <4>3. dirs[base[a][j].dir].files # {}
        BY <3>1, <4>1 DEF AttachInv, FilesThere
      <4> QED BY <2>4, <4>1, <4>2, <4>3
    <3>2. ASSUME NEW m \in Nodes, bbs'[m].post.fatt, bbs'[m].post.dir \notin shared
          PROVE  dirs'[bbs'[m].post.dir].files # {}
      <4>1. m # n /\ bbs'[m] = bbs[m] /\ bbs[m].post.dir \in Dirs
        BY <2>6, <3>2 DEF AttachInv, SessionInv, Carries
      <4>2. bbs[m].post.dir # d
        BY <1>1, <2>2, <3>2, <4>1 DEF AttachInv, OneOwner
      <4>3. dirs[bbs[m].post.dir].files # {}
        BY <3>2, <4>1 DEF AttachInv, FilesThere
      <4> QED BY <2>4, <4>1, <4>2, <4>3
    <3> QED BY <1>4, <3>1, <3>2 DEF FilesThere
  <2> QED BY <2>1, <2>5, <2>8, <2>9, <2>10, <2>11 DEF AttachInv
<1> QED BY <1>3, <1>4 DEF KillFiles


\* Steps of a session, of which only those above concern directories.
LEMMA QuietStep ==
  ASSUME TypeOK, AttachInv, Still, NEW n \in Nodes, Calm(n), Backed(bbs'[n], base)
  PROVE  AttachInv' /\ BaseGrows
<1>1. BaseGrows /\ NothingNew /\ UNCHANGED <<base, dirs, shared>>
  BY SameGrows DEF Still, areaVars, TypeOK
<1>2. PlainNew
  BY <1>1 DEF PlainNew, NothingNew
<1> QED BY <1>1, <1>2, CalmStep

LEMMA CleanStep ==
  ASSUME TypeOK, AttachInv, Still, NEW n \in Nodes, Clean(n)
  PROVE  AttachInv' /\ BaseGrows
<1>1. Calm(n) /\ Backed(bbs'[n], base)
  BY DEF Clean, Backed
<1> QED BY <1>1, QuietStep

\* A message shown with files is one of this run.
LEMMA ShowsStep ==
  ASSUME TypeOK, AttachInv, Still, NEW n \in Nodes, Shows(n)
  PROVE  AttachInv' /\ BaseGrows
<1> DEFINE t == bbs'[n]
<1>1. Calm(n) /\ t.at \notin {"files", "kill"}
  BY DEF Shows
<1>2. ASSUME t.at = "bar", t.art.fatt
      PROVE  \E i \in DOMAIN base[t.area] :
               LET m == base[t.area][i] IN
               /\ ~m.deleted /\ m.num = t.art.num /\ m.num = BaseNum[t.area] + i - 1
               /\ m.dir = t.art.dir /\ m.dir \in Dirs
  <2>1. t.area \in Areas
    BY <1>2 DEF Shows
  <2>2. PICK i \in Active(t.area) : t.art = ArticleAt(t.area, i)
    BY <1>2 DEF Shows
  <2>3. i \in DOMAIN base[t.area] /\ ~base[t.area][i].deleted
    BY DEF Active
  <2>4. /\ t.art.num = Number(t.area, i) /\ base[t.area][i].fatt
        /\ t.art.dir = base[t.area][i].dir
    BY <1>2, <2>1, <2>2, <2>3, ArticleType DEF TypeOK
  <2>5. /\ base[t.area][i].dir \in Dirs
        /\ base[t.area][i].num = BaseNum[t.area] + i - 1
    BY <2>1, <2>3, <2>4 DEF AttachInv, FilesInv
  <2>6. Number(t.area, i) = base[t.area][i].num
    BY <2>5 DEF Number
  <2> QED BY <2>3, <2>4, <2>5, <2>6
<1>3. Backed(t, base)
  BY <1>1, <1>2 DEF Backed
<1> QED BY <1>1, <1>3, QuietStep

LEMMA BarStep ==
  ASSUME TypeOK, AttachInv, NEW n \in Nodes, NEW act \in Acts, Bar(n, act)
  PROVE  AttachInv' /\ BaseGrows
<1>1. /\ Calm(n) /\ bbs'[n].at \in {"files", "mark"}
      /\ bbs'[n].at = "files" => bbs[n].art.fatt
      /\ bbs'[n].art = bbs[n].art /\ bbs'[n].area = bbs[n].area
  BY BarMoves DEF AttachInv
<1>2. Still /\ bbs[n].at = "bar" /\ Backed(bbs[n], base)
  BY DEF Bar, At, AttachInv, SessionInv
<1>3. Backed(bbs'[n], base)
  BY <1>1, <1>2 DEF Backed
<1> QED BY <1>1, <1>2, <1>3, QuietStep

LEMMA ListFilesStep ==
  ASSUME TypeOK, AttachInv, NEW n \in Nodes, ListFiles(n)
  PROVE  AttachInv' /\ BaseGrows
<1> DEFINE s == bbs[n]
<1>0. AreaTypes
  BY DEF TypeOK
<1>1. /\ Calm(n) /\ bbs'[n].at \in {"mark", "kill"}
      /\ bbs'[n].art = s.art /\ bbs'[n].area = s.area
  BY ListFilesMoves DEF AttachInv
<1>2. s.at = "files" /\ Backed(s, base) /\ Located(s)
  BY DEF ListFiles, At, AttachInv, SessionInv
<1>3. BaseGrows /\ NothingNew /\ UNCHANGED <<dirs, shared>>
  <2>1. s.area \in Areas
    BY <1>2 DEF Located
  <2>2. UNCHANGED base \/ ClearFAttach(s.area, s.art.num)
    BY DEF ListFiles
  <2> QED BY <1>0, <2>1, <2>2, SameGrows, ClearGrows DEF ListFiles
<1>4. PlainNew
  BY <1>3 DEF PlainNew, NothingNew
<1>5. s.art.fatt
  BY <1>2 DEF Backed
<1>6. Backed(bbs'[n], base')
  BY <1>0, <1>1, <1>2, <1>3, <1>5, BackedGrows
<1> QED BY <1>1, <1>3, <1>4, <1>6, CalmStep

LEMMA MarkStep ==
  ASSUME TypeOK, AttachInv, NEW n \in Nodes, Mark(n) \/ MarkBehind(n) \/ Received(n)
  PROVE  AttachInv' /\ BaseGrows
<1>0. AreaTypes
  BY DEF TypeOK
<1>1. Calm(n) /\ bbs'[n].at \notin {"bar", "files", "kill"}
  BY MarkMoves, MarkBehindMoves, ReceivedMoves DEF AttachInv, Clean
<1>2. BaseGrows /\ NothingNew /\ UNCHANGED <<dirs, shared>>
  <2>1. CASE Received(n)
    <3>1. bbs[n].area \in Areas
      BY <2>1 DEF AttachInv, SessionInv, Located, Received, At
    <3> QED BY <1>0, <2>1, <3>1, ReceivedGrows DEF Received
  <2>2. CASE Mark(n) \/ MarkBehind(n)
    <3>1. UNCHANGED <<base, dirs, shared>>
      BY <2>2 DEF Mark, MarkBehind
    <3> QED BY <1>0, <3>1, SameGrows
  <2> QED BY <2>1, <2>2
<1>3. PlainNew
  BY <1>2 DEF PlainNew, NothingNew
<1>4. Backed(bbs'[n], base')
  BY <1>1 DEF Backed
<1> QED BY <1>1, <1>2, <1>3, <1>4, CalmStep

LEMMA MailAttach ==
  ASSUME TypeOK, AttachInv, NEW n \in Nodes, Commands(n) \/ Proceeds(n)
  PROVE  AttachInv' /\ BaseGrows
<1>0. SessionInv /\ AreaTypes
  BY DEF AttachInv, TypeOK
<1>1. CASE Commands(n)
  <2>1. Still
    BY <1>1 DEF Commands, ChangeMessageArea, ToggleCombined, Read, CheckMailBox, Post
  <2>2. Clean(n)
    BY <1>0, <1>1, ChangeMessageAreaMoves, ReadMoves, CheckMailBoxMoves, PostMoves DEF Commands
  <2> QED BY <2>1, <2>2, CleanStep
<1>2. CASE Area(n) \/ Asked(n) \/ Act(n) \/ Write(n)
  <2>1. Still
    BY <1>2 DEF Area, Asked, Act, Write
  <2>2. Clean(n)
    BY <1>0, <1>2, AreaMoves, AskedMoves, ActMoves, WriteMoves
  <2> QED BY <2>1, <2>2, CleanStep
<1>3. CASE Find(n) \/ Hit(n)
  <2>1. Still
    BY <1>3 DEF Find, Hit
  <2>2. Shows(n)
    BY <1>0, <1>3, FindMoves, HitMoves
  <2> QED BY <2>1, <2>2, ShowsStep
<1>4. CASE ListFiles(n)
  BY <1>4, ListFilesStep
<1>5. CASE KillFiles(n)
  BY <1>5, KillStep
<1>6. CASE Mark(n) \/ MarkBehind(n) \/ Received(n)
  BY <1>6, MarkStep
<1>7. CASE MakeDir(n)
  <2>1. CASE Clean(n) /\ Still
    BY <2>1, CleanStep
  <2>2. CASE Moves(n) /\ TakesDir(n)
    <3>1. BaseGrows
      BY <1>0, <2>2, SameGrows DEF TakesDir
    <3> QED BY <2>2, <3>1, TakesStep
  <2> QED BY <1>0, <1>7, <2>1, <2>2, MakeDirMoves
<1>8. CASE \E sent \in BOOLEAN : UploadAttach(n, sent)
  <2>1. Moves(n) /\ FillsDir(n)
    BY <1>0, <1>8, UploadMoves
  <2>2. BaseGrows
    BY <1>0, <2>1, SameGrows DEF FillsDir
  <2> QED BY <2>1, <2>2, FillsStep
<1>9. CASE Save(n)
  BY <1>9, SaveStep
<1>10. CASE \E act \in Acts : Bar(n, act)
  BY <1>10, BarStep
<1> QED BY <1>1, <1>2, <1>3, <1>4, <1>5, <1>6, <1>7, <1>8, <1>9, <1>10 DEF Proceeds, Acts


---------------------------------------------------------------------------
(* Types are kept. *)

\* Whoever is about to add a record has just looked for one.
LEMMA MailMoves ==
  ASSUME TypeOK, SessionInv, NEW n \in Nodes, Commands(n) \/ Proceeds(n)
  PROVE  Moves(n) /\ (bbs'[n].at = "behind" => Mark(n))
<1>1. CASE Commands(n)
  BY <1>1, ChangeMessageAreaMoves, ReadMoves, CheckMailBoxMoves, PostMoves DEF Commands, Clean, Calm
<1>2. CASE Area(n) \/ Asked(n) \/ Act(n) \/ Write(n) \/ KillFiles(n) \/ MarkBehind(n) \/ Received(n)
  BY <1>2, AreaMoves, AskedMoves, ActMoves, WriteMoves, KillFilesMoves, MarkBehindMoves,
     ReceivedMoves DEF Clean, Calm
<1>3. CASE Find(n) \/ Hit(n)
  BY <1>3, FindMoves, HitMoves DEF Shows, Calm
<1>4. CASE ListFiles(n) \/ Mark(n)
  BY <1>4, ListFilesMoves, MarkMoves DEF Calm
<1>5. CASE MakeDir(n)
  BY <1>5, MakeDirMoves DEF Clean, Calm, TakesDir
<1>6. CASE \E sent \in BOOLEAN : UploadAttach(n, sent)
  BY <1>6, UploadMoves DEF FillsDir
<1>7. CASE Save(n)
  BY <1>7, SaveMoves DEF Clean, Calm
<1>8. CASE \E act \in Acts : Bar(n, act)
  BY <1>8, BarMoves DEF Calm
<1> QED BY <1>1, <1>2, <1>3, <1>4, <1>5, <1>6, <1>7, <1>8 DEF Proceeds, Acts

LEMMA DirsTypes ==
  ASSUME AreaTypes, SessionInv, NEW n \in Nodes,
         KillFiles(n) \/ MakeDir(n) \/ (\E sent \in BOOLEAN : UploadAttach(n, sent))
  PROVE  /\ dirs' \in [Dirs -> [state : {"new", "there", "gone"}, files : SUBSET Users]]
         /\ shared' \in SUBSET Dirs
<1> DEFINE s == bbs[n]
<1> DEFINE States == {"new", "there", "gone"}
<1>1. dirs \in [Dirs -> [state : States, files : SUBSET Users]] /\ shared \in SUBSET Dirs
  BY DEF AreaTypes
<1>2. \A d \in Dirs : dirs[d].files \in SUBSET Users /\ dirs[d].state \in States
  BY <1>1
<1>3. \A d \in Dirs, files \in SUBSET Users, state \in States :
        [dirs EXCEPT ![d].files = files, ![d].state = state]
          \in [Dirs -> [state : States, files : SUBSET Users]]
  BY <1>1
<1>4. \A d \in Dirs, files \in SUBSET Users :
        Removed(d, files) \in [Dirs -> [state : States, files : SUBSET Users]]
  <2> TAKE d \in Dirs, files \in SUBSET Users
  <2>1. PICK state \in States : Removed(d, files) = [dirs EXCEPT ![d].files = files, ![d].state = state]
    <3>1. CASE files = {}
      <4>1. "gone" \in States /\ Removed(d, files) = [dirs EXCEPT ![d].files = files, ![d].state = "gone"]
        BY <3>1 DEF Removed
      <4> QED BY <4>1
    <3>2. CASE files # {}
      <4>1. Removed(d, files) = [dirs EXCEPT ![d].files = files, ![d].state = dirs[d].state]
        BY <1>1, <3>2 DEF Removed
      <4> QED BY <1>2, <4>1
    <3> QED BY <3>1, <3>2
  <2>2. [dirs EXCEPT ![d].files = files, ![d].state = state]
          \in [Dirs -> [state : States, files : SUBSET Users]]
    BY <1>3, Zenon
  <2> HIDE DEF States
  <2> QED BY <2>1, <2>2, Zenon
<1>5. CASE KillFiles(n)
  <2>1. s.art.dir \in Dirs
    BY <1>5 DEF KillFiles, At, SessionInv, Backed
  <2>2. dirs[s.art.dir].files \ s.listed \in SUBSET Users
    BY <1>2, <2>1
  <2>3. \/ UNCHANGED <<dirs, shared>>
        \/ dirs' = Removed(s.art.dir, dirs[s.art.dir].files \ s.listed) /\ UNCHANGED shared
    BY <1>5 DEF KillFiles, Still, areaVars
  <2> QED BY <1>1, <1>4, <2>1, <2>2, <2>3
<1>6. CASE MakeDir(n)
  <2>1. UNCHANGED <<dirs, shared>> \/ \E d \in FreeDirs : Take(d)
    BY <1>6 DEF MakeDir, Still, areaVars
  <2>2. ASSUME NEW d \in FreeDirs, Take(d)
        PROVE  /\ dirs' \in [Dirs -> [state : States, files : SUBSET Users]]
               /\ shared' \in SUBSET Dirs
    <3>1. d \in Dirs
      BY DEF FreeDirs
    <3>2. dirs' = [dirs EXCEPT ![d].state = "there"]
      BY <2>2 DEF Take
    <3>3. dirs' \in [Dirs -> [state : States, files : SUBSET Users]]
      BY <1>1, <3>1, <3>2
    <3>4. shared' \in SUBSET Dirs
      BY <1>1, <2>2, <3>1 DEF Take
    <3> QED BY <3>3, <3>4
  <2> QED BY <1>1, <2>1, <2>2
<1>7. ASSUME NEW sent \in BOOLEAN, UploadAttach(n, sent)
      PROVE  /\ dirs' \in [Dirs -> [state : States, files : SUBSET Users]]
             /\ shared' \in SUBSET Dirs
  <2> DEFINE d == s.post.dir
  <2> DEFINE files == dirs[d].files \cup (IF sent THEN {Me(n)} ELSE {})
  <2>1. d \in Dirs
    BY <1>7 DEF UploadAttach, At, SessionInv, Carries
  <2>2. files \in SUBSET Users
    BY <1>2, <2>1, MeIsUser
  <2>3. /\ \/ dirs' = Removed(d, {})
           \/ dirs' = [dirs EXCEPT ![d].state = "there", ![d].files = files]
        /\ UNCHANGED shared
    BY <1>7 DEF UploadAttach
  <2> HIDE DEF d, files
  <2>4. [dirs EXCEPT ![d].state = "there", ![d].files = files]
          \in [Dirs -> [state : States, files : SUBSET Users]]
    BY <1>1, <2>1, <2>2
  <2> QED BY <1>1, <1>4, <2>1, <2>3, <2>4
<1> QED BY <1>5, <1>6, <1>7


---------------------------------------------------------------------------
(* Pointers. *)

Of(r, u) == {k \in DOMAIN r : r[k].who \in Keys(u)}
Pointer(r, u) ==
  LET hits == First(Of(r, u)) IN IF hits = {} THEN 0 ELSE r[CHOOSE k \in hits : TRUE].num

LEMMA LastReadIsPointer ==
  \A a, u : LastRead(a, u) = Pointer(jlr[a], u) /\ LastRead(a, u)' = Pointer(jlr'[a], u)
BY DEF LastRead, Pointer, Of

LEMMA PointerFirst ==
  ASSUME NEW r \in Seq(Records), NEW u, NEW k \in First(Of(r, u))
  PROVE  Pointer(r, u) = r[k].num
<1>1. \A i \in Of(r, u) : i \in Nat
  BY DEF Of
<1>2. \A i, j \in First(Of(r, u)) : i = j
  <2> TAKE i, j \in First(Of(r, u))
  <2>1. i \in Nat /\ j \in Nat /\ i <= j /\ j <= i
    BY <1>1 DEF First
  <2> QED BY <2>1
<1>3. (CHOOSE i \in First(Of(r, u)) : TRUE) = k
  BY <1>2
<1> QED BY <1>3 DEF Pointer

\* It depends on the user's records alone.
LEMMA PointerSame ==
  ASSUME NEW r, NEW s, NEW u, Of(r, u) = Of(s, u), \A k \in Of(r, u) : r[k].num = s[k].num
  PROVE  Pointer(r, u) = Pointer(s, u)
<1> DEFINE hits == First(Of(r, u))
<1>1. hits \in SUBSET Of(r, u)
  BY DEF First
<1>2. /\ Pointer(r, u) = IF hits = {} THEN 0 ELSE r[CHOOSE k \in hits : TRUE].num
      /\ Pointer(s, u) = IF hits = {} THEN 0 ELSE s[CHOOSE k \in hits : TRUE].num
  BY DEF Pointer
<1> HIDE DEF hits
<1> QED BY <1>1, <1>2

\* Whoever has records has a first one.
LEMMA FirstThere ==
  ASSUME NEW S \in SUBSET Nat, IsFiniteSet(S), S # {}
  PROVE  First(S) # {}
BY MinFacts DEF First

\* A record is rewritten in its place,
LEMMA InPlaceFacts ==
  ASSUME AreaTypes, NEW a \in Areas, NEW u, NEW num \in Nat, SetInPlace(a, u, num)
  PROVE  /\ jlr' \in [Areas -> Seq(Records)]
         /\ \A b \in Areas : b # a => jlr'[b] = jlr[b]
         /\ \E k \in RecordOf(a, u) :
              /\ DOMAIN jlr'[a] = DOMAIN jlr[a] /\ jlr'[a][k].num = num
              /\ \A j \in DOMAIN jlr[a] : /\ jlr'[a][j].who = jlr[a][j].who
                                          /\ j # k => jlr'[a][j].num = jlr[a][j].num
<1>1. jlr \in [Areas -> Seq(Records)] /\ jlr[a] \in Seq(Records)
  BY DEF AreaTypes
<1>2. PICK k \in RecordOf(a, u) : jlr' = [jlr EXCEPT ![a][k].num = num]
  BY DEF SetInPlace
<1>3. k \in DOMAIN jlr[a]
  BY DEF RecordOf, First
<1> DEFINE r == [jlr[a][k] EXCEPT !.num = num]
<1>4. jlr[a][k] \in Records
  BY <1>1, <1>3
<1>5. r \in Records /\ r.who = jlr[a][k].who /\ r.num = num
  BY <1>4 DEF Records
<1>6. jlr' = [jlr EXCEPT ![a] = [jlr[a] EXCEPT ![k] = r]]
  BY <1>2
<1> HIDE DEF r
<1> DEFINE t == [jlr[a] EXCEPT ![k] = r]
<1>7. t \in Seq(Records) /\ DOMAIN t = DOMAIN jlr[a]
  BY <1>1, <1>3, <1>5
<1>8. t[k] = r /\ \A j \in DOMAIN jlr[a] : j # k => t[j] = jlr[a][j]
  BY <1>3
<1> HIDE DEF t
<1>9. /\ jlr' \in [Areas -> Seq(Records)] /\ jlr'[a] = t
      /\ \A b \in Areas : b # a => jlr'[b] = jlr[b]
  <2>1. jlr' = [jlr EXCEPT ![a] = t]
    BY <1>6 DEF t
  <2> QED BY <1>1, <1>7, <2>1
<1> QED BY <1>5, <1>7, <1>8, <1>9

\* and that of a new reader is added, or put over another's.
Added(r, s, u, num) ==
  \E k : /\ DOMAIN s = DOMAIN r \cup {k} /\ k \notin DOMAIN r
         /\ s[k].who = u /\ s[k].num = num
         /\ \A j \in DOMAIN r : s[j] = r[j]

LEMMA PutBehindFacts ==
  ASSUME AreaTypes, NEW a \in Areas, NEW u \in Names, NEW num \in Nat, NEW at \in Nat \ {0},
         PutBehind(a, u, num, at)
  PROVE  /\ jlr' \in [Areas -> Seq(Records)] /\ lapped' \in SUBSET Areas
         /\ lapped \subseteq lapped'
         /\ \A b \in Areas : b # a => jlr'[b] = jlr[b]
         /\ a \notin lapped' => Added(jlr[a], jlr'[a], u, num)
<1> DEFINE r == [who |-> u, num |-> num]
<1>1. jlr \in [Areas -> Seq(Records)] /\ jlr[a] \in Seq(Records) /\ lapped \in SUBSET Areas
  BY DEF AreaTypes
<1>2. Len(jlr[a]) \in Nat /\ DOMAIN jlr[a] = 1..Len(jlr[a])
  BY <1>1
<1>3. /\ jlr' = [jlr EXCEPT ![a] = IF at <= Len(jlr[a]) THEN [jlr[a] EXCEPT ![at] = r]
                                   ELSE Append(jlr[a], r)]
      /\ lapped' = IF at <= Len(jlr[a]) THEN lapped \cup {a} ELSE lapped
  BY DEF PutBehind
<1>4. r \in Records /\ r.who = u /\ r.num = num
  BY DEF Records
<1> HIDE DEF r
<1>5. CASE at <= Len(jlr[a])
  <2>1. at \in DOMAIN jlr[a]
    BY <1>2, <1>5
  <2>2. [jlr[a] EXCEPT ![at] = r] \in Seq(Records)
    BY <1>1, <1>4, <2>1
  <2>3. jlr' = [jlr EXCEPT ![a] = [jlr[a] EXCEPT ![at] = r]] /\ lapped' = lapped \cup {a}
    BY <1>3, <1>5
  <2> QED BY <1>1, <2>2, <2>3
<1>6. CASE ~(at <= Len(jlr[a]))
  <2> DEFINE t == Append(jlr[a], r)
  <2> DEFINE k == Len(jlr[a]) + 1
  <2>1. /\ t \in Seq(Records) /\ DOMAIN t = 1..(Len(jlr[a]) + 1) /\ t[k] = r
        /\ \A j \in DOMAIN jlr[a] : t[j] = jlr[a][j]
    BY <1>1, <1>2, <1>4
  <2>2. DOMAIN t = DOMAIN jlr[a] \cup {k} /\ k \notin DOMAIN jlr[a]
    BY <1>2, <2>1
  <2>3. jlr' = [jlr EXCEPT ![a] = t] /\ lapped' = lapped
    BY <1>3, <1>6
  <2> HIDE DEF t, k
  <2>4. /\ jlr' \in [Areas -> Seq(Records)] /\ jlr'[a] = t
        /\ \A b \in Areas : b # a => jlr'[b] = jlr[b]
    BY <1>1, <2>1, <2>3
  <2>5. Added(jlr[a], t, u, num)
    BY <1>4, <2>1, <2>2 DEF Added
  <2> QED BY <1>1, <2>3, <2>4, <2>5
<1> QED BY <1>5, <1>6


\* The two parts of PointersInv where records and numbers are spelled out.
Known(r, u) == \E k \in DOMAIN r : r[k].who = u
Kept(recs, set, over) ==
  \A u \in Users, a \in Areas \ over :
    ~Known(recs[a], Handle[u]) => Pointer(recs[a], u) = set[u][a]
NewReaders(recs, over, sessions) ==
  \A n \in Nodes : sessions[n].at = "behind" /\ sessions[n].area \notin over =>
    ~Known(recs[sessions[n].area], Me(n))

LEMMA PointersForm ==
  /\ PointersInv <=> NewReaders(jlr, lapped, bbs) /\ Kept(jlr, last, lapped)
  /\ PointersInv' <=> NewReaders(jlr', lapped', bbs') /\ Kept(jlr', last', lapped')
<1>1. /\ BehindInv <=> NewReaders(jlr, lapped, bbs)
      /\ BehindInv' <=> NewReaders(jlr', lapped', bbs')
  BY DEF BehindInv, NewReaders, Known, Me
<1>2. /\ PointersKept <=> Kept(jlr, last, lapped)
      /\ PointersKept' <=> Kept(jlr', last', lapped')
  BY LastReadIsPointer DEF PointersKept, Kept, Known
<1> QED BY <1>1, <1>2 DEF PointersInv

\* Most steps leave the pointers alone.
LEMMA PointersStay ==
  ASSUME TypeOK, PointersInv, UNCHANGED <<jlr, lapped, last>>, NEW n \in Nodes, Moves(n),
         bbs'[n].at # "behind"
  PROVE  PointersInv'
<1>1. NewReaders(jlr, lapped, bbs) /\ Kept(jlr, last, lapped)
  BY PointersForm
<1>2. NewReaders(jlr, lapped, bbs')
  BY <1>1, MovesFacts DEF NewReaders
<1> QED BY <1>1, <1>2, PointersForm

\* Whom a record is found for: one without a record under his handle has those
\* under his name.
LEMMA OwnRecords ==
  ASSUME NEW r \in Seq(Records), NEW u \in Users, ~Known(r, Handle[u])
  PROVE  Of(r, u) = {k \in DOMAIN r : r[k].who = u}
BY DEF Of, Known, Keys

\* SetLastRead with a record: it is the first one of the reader.
LEMMA InPlaceKept ==
  ASSUME AreaTypes, last \in [Users -> [Areas -> Nat]], Kept(jlr, last, lapped),
         NEW a \in Areas, NEW u \in Users, NEW num \in Nat, SetInPlace(a, u, num),
         last' = [last EXCEPT ![u][a] = num]
  PROVE  /\ jlr' \in [Areas -> Seq(Records)] /\ last' \in [Users -> [Areas -> Nat]]
         /\ Kept(jlr', last', lapped)
         /\ \A b \in Areas : \A w : Known(jlr'[b], w) <=> Known(jlr[b], w)
<1>1. /\ jlr' \in [Areas -> Seq(Records)]
      /\ \A b \in Areas : b # a => jlr'[b] = jlr[b]
  BY InPlaceFacts
<1>2. PICK k \in RecordOf(a, u) :
         /\ DOMAIN jlr'[a] = DOMAIN jlr[a] /\ jlr'[a][k].num = num
         /\ \A j \in DOMAIN jlr[a] : /\ jlr'[a][j].who = jlr[a][j].who
                                     /\ j # k => jlr'[a][j].num = jlr[a][j].num
  BY InPlaceFacts
<1>3. k \in DOMAIN jlr[a] /\ jlr[a][k].who = u /\ jlr[a] \in Seq(Records) /\ jlr'[a] \in Seq(Records)
  BY <1>1 DEF RecordOf, First, AreaTypes
<1>4. /\ last' \in [Users -> [Areas -> Nat]] /\ last'[u][a] = num
      /\ \A v \in Users, b \in Areas : <<v, b>> # <<u, a>> => last'[v][b] = last[v][b]
  <2>1. \A v \in Users : last[v] \in [Areas -> Nat]
    OBVIOUS
  <2>2. [last[u] EXCEPT ![a] = num] \in [Areas -> Nat]
    BY <2>1
  <2>3. last' = [last EXCEPT ![u] = [last[u] EXCEPT ![a] = num]]
    OBVIOUS
  <2> QED BY <2>1, <2>2, <2>3
<1>5. \A b \in Areas : \A w : Known(jlr'[b], w) <=> Known(jlr[b], w)
  BY <1>1, <1>2 DEF Known
<1>6. ASSUME NEW v \in Users, NEW b \in Areas \ lapped, ~Known(jlr'[b], Handle[v])
      PROVE  Pointer(jlr'[b], v) = last'[v][b]
  <2>1. Pointer(jlr[b], v) = last[v][b]
    BY <1>5, <1>6 DEF Kept
  <2>2. CASE b # a
    BY <1>1, <1>4, <2>1, <2>2
  <2>3. CASE b = a /\ v # u
    <3>1. /\ Of(jlr[a], v) = {j \in DOMAIN jlr[a] : jlr[a][j].who = v}
          /\ Of(jlr'[a], v) = {j \in DOMAIN jlr'[a] : jlr'[a][j].who = v}
      BY <1>3, <1>5, <1>6, <2>3, OwnRecords
    <3>2. Of(jlr[a], v) = Of(jlr'[a], v)
      BY <1>2, <3>1
    <3>3. \A j \in Of(jlr[a], v) : jlr[a][j].num = jlr'[a][j].num
      BY <1>2, <1>3, <2>3, <3>1
    <3>4. Pointer(jlr[a], v) = Pointer(jlr'[a], v)
      BY <3>2, <3>3, PointerSame
    <3> QED BY <1>4, <2>1, <2>3, <3>4
  <2>4. CASE b = a /\ v = u
    <3>0. Of(jlr'[a], u) = {j \in DOMAIN jlr'[a] : jlr'[a][j].who = u}
      BY <1>3, <1>6, <2>4, OwnRecords
    <3>1. Of(jlr'[a], u) = {j \in DOMAIN jlr[a] : jlr[a][j].who = u}
      BY <1>2, <3>0
    <3>2. k \in First(Of(jlr'[a], u))
      BY <3>1 DEF RecordOf
    <3>3. Pointer(jlr'[a], u) = jlr'[a][k].num
      BY <1>3, <3>2, PointerFirst
    <3> QED BY <1>2, <1>4, <2>4, <3>3
  <2> QED BY <2>2, <2>3, <2>4
<1> QED BY <1>1, <1>4, <1>5, <1>6 DEF Kept

\* Without one: a reader who has none yet gets it at the end, or another's
\* record is lost.
LEMMA BehindKept ==
  ASSUME AreaTypes, last \in [Users -> [Areas -> Nat]], Kept(jlr, last, lapped),
         NEW a \in Areas, NEW u \in Users, NEW num \in Nat, NEW at \in Nat \ {0},
         PutBehind(a, u, num, at), last' = [last EXCEPT ![u][a] = num],
         a \notin lapped => ~Known(jlr[a], u)
  PROVE  /\ jlr' \in [Areas -> Seq(Records)] /\ last' \in [Users -> [Areas -> Nat]]
         /\ lapped' \in SUBSET Areas /\ lapped \subseteq lapped'
         /\ Kept(jlr', last', lapped')
         /\ \A b \in Areas \ lapped' : \A w : w # u => (Known(jlr'[b], w) => Known(jlr[b], w))
<1>0. u \in Names
  BY MessageAreasAssumption
<1>1. /\ jlr' \in [Areas -> Seq(Records)] /\ lapped' \in SUBSET Areas /\ lapped \subseteq lapped'
      /\ \A b \in Areas : b # a => jlr'[b] = jlr[b]
  BY <1>0, PutBehindFacts
<1>2. a \notin lapped' => Added(jlr[a], jlr'[a], u, num)
  BY <1>0, PutBehindFacts
<1>3. jlr[a] \in Seq(Records) /\ jlr'[a] \in Seq(Records)
  BY <1>1 DEF AreaTypes
<1>4. /\ last' \in [Users -> [Areas -> Nat]] /\ last'[u][a] = num
      /\ \A v \in Users, b \in Areas : <<v, b>> # <<u, a>> => last'[v][b] = last[v][b]
  <2>1. \A v \in Users : last[v] \in [Areas -> Nat]
    OBVIOUS
  <2>2. [last[u] EXCEPT ![a] = num] \in [Areas -> Nat]
    BY <2>1
  <2>3. last' = [last EXCEPT ![u] = [last[u] EXCEPT ![a] = num]]
    OBVIOUS
  <2> QED BY <2>1, <2>2, <2>3
<1>5. \A b \in Areas \ lapped' : \A w : w # u => (Known(jlr'[b], w) => Known(jlr[b], w))
  BY <1>1, <1>2 DEF Known, Added
<1>6. ASSUME NEW v \in Users, NEW b \in Areas \ lapped', ~Known(jlr'[b], Handle[v])
      PROVE  Pointer(jlr'[b], v) = last'[v][b]
  <2>1. CASE b # a
    <3>1. jlr'[b] = jlr[b] /\ last'[v][b] = last[v][b] /\ b \in Areas \ lapped
      BY <1>1, <1>4, <2>1
    <3>2. Pointer(jlr[b], v) = last[v][b]
      BY <1>6, <3>1 DEF Kept
    <3> QED BY <3>1, <3>2
  <2>2. CASE b = a
    <3>1. PICK k : /\ DOMAIN jlr'[a] = DOMAIN jlr[a] \cup {k} /\ k \notin DOMAIN jlr[a]
                   /\ jlr'[a][k].who = u /\ jlr'[a][k].num = num
                   /\ \A j \in DOMAIN jlr[a] : jlr'[a][j] = jlr[a][j]
      BY <1>2, <1>6, <2>2 DEF Added
    <3>2. Of(jlr'[a], v) = {j \in DOMAIN jlr'[a] : jlr'[a][j].who = v}
      BY <1>3, <1>6, <2>2, OwnRecords
    <3>3. CASE v = u
      <4>1. a \notin lapped /\ ~Known(jlr[a], u)
        BY <1>1, <1>6, <2>2
      <4>2. Of(jlr'[a], u) = {k}
        BY <3>1, <3>2, <3>3, <4>1 DEF Known
      <4>3. k \in Nat
        BY <1>3, <3>1
      <4>4. k \in First(Of(jlr'[a], u))
        BY <4>2, <4>3 DEF First
      <4>5. Pointer(jlr'[a], u) = jlr'[a][k].num
        BY <1>3, <4>4, PointerFirst
      <4> QED BY <1>4, <2>2, <3>1, <3>3, <4>5
    <3>4. CASE v # u
      <4>1. ~Known(jlr[a], Handle[v])
        BY <1>6, <2>2, <3>1 DEF Known
      <4>2. Pointer(jlr[a], v) = last[v][a]
        BY <1>1, <1>6, <2>2, <4>1 DEF Kept
      <4>3. Of(jlr[a], v) = {j \in DOMAIN jlr[a] : jlr[a][j].who = v}
        BY <1>3, <4>1, OwnRecords
      <4>4. Of(jlr[a], v) = Of(jlr'[a], v)
        BY <3>1, <3>2, <3>4, <4>3
      <4>5. \A j \in Of(jlr[a], v) : jlr[a][j].num = jlr'[a][j].num
        BY <3>1, <4>3
      <4>6. Pointer(jlr[a], v) = Pointer(jlr'[a], v)
        BY <4>4, <4>5, PointerSame
      <4> QED BY <1>4, <2>2, <3>4, <4>2, <4>6
    <3> QED BY <3>3, <3>4
  <2> QED BY <2>1, <2>2
<1> QED BY <1>1, <1>4, <1>5, <1>6 DEF Kept


PointerTypes ==
  /\ jlr' \in [Areas -> Seq(Records)] /\ lapped' \in SUBSET Areas
  /\ last' \in [Users -> [Areas -> Nat]]

LEMMA NoRecord ==
  ASSUME AreaTypes, NEW a \in Areas, NEW u, RecordOf(a, u) = {}
  PROVE  ~Known(jlr[a], u)
<1> DEFINE S == {k \in DOMAIN jlr[a] : jlr[a][k].who = u}
<1>1. jlr[a] \in Seq(Records)
  BY DEF AreaTypes
<1>2. S \in SUBSET Nat /\ IsFiniteSet(S)
  <2>1. DOMAIN jlr[a] = 1..Len(jlr[a]) /\ Len(jlr[a]) \in Nat
    BY <1>1
  <2>2. IsFiniteSet(1..Len(jlr[a]))
    BY <2>1, FS_Interval
  <2> QED BY <2>1, <2>2, FS_Subset
<1>3. First(S) = {}
  BY DEF RecordOf
<1>4. S = {}
  <2> HIDE DEF S
  <2> QED BY <1>2, <1>3, FirstThere
<1> QED BY <1>4 DEF Known

LEMMA MarkPointers ==
  ASSUME TypeOK, SessionInv, PointersInv, NEW n \in Nodes, Mark(n)
  PROVE  PointersInv' /\ PointerTypes
<1> DEFINE s == bbs[n]
<1> DEFINE a == s.area
<1> DEFINE u == Me(n)
<1>0. /\ AreaTypes /\ last \in [Users -> [Areas -> Nat]] /\ u \in Users
      /\ NewReaders(jlr, lapped, bbs) /\ Kept(jlr, last, lapped)
  BY MeIsUser, PointersForm DEF TypeOK, ReaderTypes
<1>1. /\ Moves(n) /\ bbs'[n].area = a /\ a \in Areas
      /\ bbs'[n].at = "behind" => RecordOf(a, u) = {} /\ UNCHANGED <<jlr, last>>
  BY MarkMoves DEF Calm
<1>2. UNCHANGED lapped /\ lapped \in SUBSET Areas
  BY <1>0 DEF Mark, AreaTypes
<1>3. s.art.num \in Nat
  <2>1. s \in Sessions
    BY Here DEF OK
  <2> QED BY <2>1 DEF Sessions, Messages
<1>4. CASE bbs'[n].at = "behind"
  <2>1. UNCHANGED <<jlr, last>> /\ RecordOf(a, u) = {}
    BY <1>1, <1>4
  <2>2. ~Known(jlr[a], u)
    BY <1>0, <1>1, <2>1, NoRecord
  <2>3. NewReaders(jlr, lapped, bbs')
    BY <1>0, <1>1, <2>2, MovesFacts DEF NewReaders
  <2>4. PointersInv'
    BY <1>0, <1>2, <2>1, <2>3, PointersForm
  <2> QED BY <1>0, <1>2, <2>1, <2>4 DEF PointerTypes, AreaTypes
<1>5. CASE bbs'[n].at # "behind" /\ UNCHANGED <<jlr, last>>
  BY <1>0, <1>1, <1>2, <1>5, PointersStay DEF PointerTypes, AreaTypes
<1>6. CASE SetInPlace(a, u, s.art.num) /\ last' = [last EXCEPT ![u][a] = s.art.num] /\ bbs'[n].at # "behind"
  <2>1. /\ jlr' \in [Areas -> Seq(Records)] /\ last' \in [Users -> [Areas -> Nat]]
        /\ Kept(jlr', last', lapped)
        /\ \A b \in Areas : \A w : Known(jlr'[b], w) <=> Known(jlr[b], w)
    BY <1>0, <1>1, <1>3, <1>6, InPlaceKept
  <2>2. NewReaders(jlr', lapped, bbs')
    <3> SUFFICES ASSUME NEW m \in Nodes, bbs'[m].at = "behind", bbs'[m].area \notin lapped
                 PROVE  ~Known(jlr'[bbs'[m].area], Me(m))
      BY DEF NewReaders
    <3>1. bbs'[m] = bbs[m]
      BY <1>1, <1>6, MovesFacts
    <3>2. bbs[m].area \in Areas
      BY <3>1 DEF SessionInv, Located
    <3> QED BY <1>0, <2>1, <3>1, <3>2 DEF NewReaders
  <2>3. PointersInv'
    BY <1>2, <2>1, <2>2, PointersForm
  <2> QED BY <1>2, <2>1, <2>3 DEF PointerTypes
<1> QED BY <1>4, <1>5, <1>6 DEF Mark

LEMMA MarkBehindPointers ==
  ASSUME TypeOK, SessionInv, PointersInv, NEW n \in Nodes, MarkBehind(n)
  PROVE  PointersInv' /\ PointerTypes
<1> DEFINE s == bbs[n]
<1> DEFINE a == s.area
<1> DEFINE u == Me(n)
<1> DEFINE num == s.art.num
<1> DEFINE at == s.size + 1
<1>0. /\ AreaTypes /\ last \in [Users -> [Areas -> Nat]] /\ u \in Users
      /\ NewReaders(jlr, lapped, bbs) /\ Kept(jlr, last, lapped)
  BY MeIsUser, PointersForm DEF TypeOK, ReaderTypes
<1>1. Moves(n) /\ bbs'[n].at # "behind"
  BY MarkBehindMoves DEF Clean, Calm
<1>2. s.at = "behind" /\ s \in Sessions /\ a \in Areas
  BY Here DEF MarkBehind, At, OK, Located
<1>3. num \in Nat /\ at \in Nat \ {0}
  BY <1>2 DEF Sessions, Messages
<1>4. PutBehind(a, u, num, at) /\ last' = [last EXCEPT ![u][a] = num]
  BY DEF MarkBehind
<1>5. a \notin lapped => ~Known(jlr[a], u)
  BY <1>0, <1>2 DEF NewReaders
<1> HIDE DEF at, num, u, a
<1>6. /\ jlr' \in [Areas -> Seq(Records)] /\ last' \in [Users -> [Areas -> Nat]]
      /\ lapped' \in SUBSET Areas /\ lapped \subseteq lapped'
      /\ Kept(jlr', last', lapped')
      /\ \A b \in Areas \ lapped' : \A w : w # u => (Known(jlr'[b], w) => Known(jlr[b], w))
  BY <1>0, <1>2, <1>3, <1>4, <1>5, BehindKept
<1>7. NewReaders(jlr', lapped', bbs')
  <2> SUFFICES ASSUME NEW m \in Nodes, bbs'[m].at = "behind", bbs'[m].area \notin lapped'
               PROVE  ~Known(jlr'[bbs'[m].area], Me(m))
    BY DEF NewReaders
  <2>1. m # n /\ bbs'[m] = bbs[m]
    BY <1>1, MovesFacts
  <2>2. Me(m) # u
    BY <2>1, MessageServicesAssumption DEF Me, u
  <2>3. bbs[m].area \in Areas \ lapped'
    BY <2>1 DEF SessionInv, Located
  <2>4. ~Known(jlr[bbs[m].area], Me(m))
    BY <1>0, <1>6, <2>1, <2>3 DEF NewReaders
  <2> QED BY <1>6, <2>1, <2>2, <2>3, <2>4
<1> QED BY <1>6, <1>7, PointersForm DEF PointerTypes

\* Only Mark and MarkBehind set pointers.
LEMMA OthersPointless ==
  ASSUME NEW n \in Nodes, Commands(n) \/ Proceeds(n), ~Mark(n), ~MarkBehind(n)
  PROVE  UNCHANGED <<jlr, lapped, last>>
<1>1. CASE Commands(n)
  BY <1>1 DEF Commands, ChangeMessageArea, ToggleCombined, Read, CheckMailBox, Post, Still,
              areaVars, History
<1>2. CASE Proceeds(n)
  BY <1>2 DEF Proceeds, Area, Asked, Find, Hit, ListFiles, KillFiles, Received, Act, Write,
              MakeDir, UploadAttach, Save, Bar, Still, areaVars, Only, History
<1> QED BY <1>1, <1>2

LEMMA MailPointers ==
  ASSUME TypeOK, SessionInv, PointersInv, NEW n \in Nodes, Commands(n) \/ Proceeds(n)
  PROVE  PointersInv' /\ PointerTypes
<1>1. CASE Mark(n)
  BY <1>1, MarkPointers
<1>2. CASE MarkBehind(n)
  BY <1>2, MarkBehindPointers
<1>3. CASE ~Mark(n) /\ ~MarkBehind(n)
  <2>1. Moves(n) /\ bbs'[n].at # "behind"
    BY <1>3, MailMoves
  <2>2. UNCHANGED <<jlr, lapped, last>>
    BY <1>3, OthersPointless
  <2> QED BY <2>1, <2>2, PointersStay DEF PointerTypes, TypeOK, AreaTypes, ReaderTypes
<1> QED BY <1>1, <1>2, <1>3


---------------------------------------------------------------------------
(* What a step of a session keeps. *)

UserChoices == [area : AreaOrNone, group : Nat, combined : Seq(AreaOrNone)]

LEMMA RegroupedType ==
  ASSUME NEW p \in UserChoices, NEW q \in Regrouped(p)
  PROVE  q \in UserChoices
<1>1. \A group, cur : cur \in AreaOrNone => SearchNext(group, cur) \in AreaOrNone
  <2> TAKE group, cur
  <2> DEFINE hits == First({k \in DOMAIN AreaList : group \in GroupsOf[AreaList[k]]})
  <2>1. SearchNext(group, cur) = IF hits = {} THEN cur ELSE AreaList[CHOOSE k \in hits : TRUE]
    BY DEF SearchNext
  <2>2. \A k \in hits : AreaList[k] \in Areas
    BY DEF First, Areas
  <2> HIDE DEF hits
  <2> QED BY <2>1, <2>2 DEF AreaOrNone
<1>2. ASSUME NEW g \in MsgGroups PROVE ChangeGroup(p, g) \in UserChoices /\ [p EXCEPT !.group = g] \in UserChoices
  <2>1. g \in Nat
    BY MailReaderAssumption
  <2> DEFINE next == SearchNext(g, p.area)
  <2>2. next \in AreaOrNone
    BY <1>1 DEF UserChoices
  <2>3. ChangeGroup(p, g) = [p EXCEPT !.group = g, !.area = next]
    BY DEF ChangeGroup
  <2> HIDE DEF next
  <2> QED BY <2>1, <2>2, <2>3 DEF UserChoices
<1> QED BY <1>2 DEF Regrouped

LEMMA ToggledType ==
  ASSUME NEW c \in Seq(AreaOrNone), NEW a \in Areas
  PROVE  Toggled(c, a) \in Seq(AreaOrNone)
<1>1. DOMAIN c = 1..Len(c) /\ Len(c) \in Nat
  OBVIOUS
<1> DEFINE on == {k \in DOMAIN c : c[k] = a}
<1> DEFINE free == {k \in DOMAIN c : c[k] = "none"}
<1> DEFINE t == [k \in DOMAIN c |-> CASE k \in First(on) -> "none"
                                      [] on = {} /\ k \in First(free) -> a
                                      [] OTHER -> c[k]]
<1>2. Toggled(c, a) = t
  BY DEF Toggled
<1> HIDE DEF on, free
<1>3. \A k \in DOMAIN c : t[k] \in AreaOrNone
  BY DEF AreaOrNone
<1>4. t \in [1..Len(c) -> AreaOrNone]
  BY <1>1, <1>3
<1> HIDE DEF t
<1> QED BY <1>1, <1>2, <1>4, SeqDef

LEMMA ChoicesKept ==
  ASSUME TypeOK, NEW n \in Nodes, Commands(n) \/ Proceeds(n)
  PROVE  prof' \in [Nodes -> UserChoices]
<1>1. prof \in [Nodes -> UserChoices]
  BY DEF TypeOK, ReaderTypes, UserChoices
<1>2. CASE ChangeMessageArea(n)
  <2>1. PICK q \in Regrouped(prof[n]), check \in BOOLEAN :
          \E a \in {b \in Areas : Accessible(b, Me(n), check, q.group)} \cup {q.area} :
            prof' = [prof EXCEPT ![n] = [q EXCEPT !.area = a]]
    BY <1>2 DEF ChangeMessageArea
  <2>2. q \in UserChoices
    BY <1>1, RegroupedType
  <2>3. PICK a \in AreaOrNone : prof' = [prof EXCEPT ![n] = [q EXCEPT !.area = a]]
    BY <2>1, <2>2 DEF UserChoices, AreaOrNone
  <2>4. [q EXCEPT !.area = a] \in UserChoices
    BY <2>2 DEF UserChoices
  <2> QED BY <1>1, <2>3, <2>4
<1>3. CASE ToggleCombined(n)
  <2>1. PICK q \in Regrouped(prof[n]), a \in Areas :
          prof' = [prof EXCEPT ![n] = [q EXCEPT !.combined = Toggled(q.combined, a)]]
    BY <1>3 DEF ToggleCombined
  <2>2. q \in UserChoices
    BY <1>1, RegroupedType
  <2> DEFINE c == Toggled(q.combined, a)
  <2>3. c \in Seq(AreaOrNone)
    BY <2>2, ToggledType DEF UserChoices
  <2> HIDE DEF c
  <2>4. [q EXCEPT !.combined = c] \in UserChoices
    BY <2>2, <2>3 DEF UserChoices
  <2> QED BY <1>1, <2>1, <2>4 DEF c
<1>4. CASE UNCHANGED prof
  BY <1>1, <1>4
<1>5. CASE Proceeds(n)
  <2>1. UNCHANGED prof
    BY <1>5 DEF Proceeds, Area, Asked, Find, Hit, ListFiles, KillFiles, Mark, MarkBehind, Received, Act,
                Write, MakeDir, UploadAttach, Save, Bar, Only
  <2> QED BY <1>1, <2>1
<1>6. CASE Read(n) \/ CheckMailBox(n) \/ Post(n)
  <2>1. UNCHANGED prof
    BY <1>6 DEF Read, CheckMailBox, Post
  <2> QED BY <1>1, <2>1
<1> QED BY <1>2, <1>3, <1>5, <1>6 DEF Commands

LEMMA MailTypes ==
  ASSUME TypeOK, AttachInv, PointersInv, NEW n \in Nodes, Commands(n) \/ Proceeds(n)
  PROVE  AreaTypes' /\ ReaderTypes'
<1>0. SessionInv /\ AreaTypes
  BY DEF AttachInv, TypeOK
<1>1. base' \in [Areas -> Seq(Messages)]
  BY MailAttach DEF BaseGrows
<1>2. PointerTypes
  BY <1>0, MailPointers
<1>3. /\ dirs' \in [Dirs -> [state : {"new", "there", "gone"}, files : SUBSET Users]]
      /\ shared' \in SUBSET Dirs
  <2>1. CASE KillFiles(n) \/ MakeDir(n) \/ (\E sent \in BOOLEAN : UploadAttach(n, sent))
    BY <1>0, <2>1, DirsTypes
  <2>2. CASE UNCHANGED <<dirs, shared>>
    BY <1>0, <2>2 DEF AreaTypes
  <2>3. CASE Commands(n)
    <3>1. UNCHANGED <<dirs, shared>>
      BY <2>3 DEF Commands, ChangeMessageArea, ToggleCombined, Read, CheckMailBox, Post, Still, areaVars
    <3> QED BY <2>2, <3>1
  <2>4. CASE /\ Proceeds(n)
             /\ ~(KillFiles(n) \/ MakeDir(n) \/ (\E sent \in BOOLEAN : UploadAttach(n, sent)))
    <3>1. UNCHANGED <<dirs, shared>>
      BY <2>4 DEF Proceeds, Area, Asked, Find, Hit, ListFiles, Mark, MarkBehind, Received, Act,
                  Write, Save, Bar, Still, areaVars
    <3> QED BY <2>2, <3>1
  <2> QED BY <2>1, <2>3, <2>4
<1>4. bbs' \in [Nodes -> Sessions]
  BY <1>0, MailMoves, MovesFacts
<1>5. prof' \in [Nodes -> UserChoices]
  BY ChoicesKept
<1> QED BY <1>1, <1>2, <1>3, <1>4, <1>5 DEF AreaTypes, ReaderTypes, PointerTypes, UserChoices


---------------------------------------------------------------------------
(* The news client. *)

\* NewsInv where the messages are spelled out.
PositionIn(s, all) ==
  s.cur # None =>
    /\ IsPrefix(s.arts, ArtsIn(all[s.cur]))
    /\ IF s.arts = <<>> THEN s.curNum = 0 ELSE s.curNum \in ArtNums(s.arts)
PostedIn(s, all) ==
  s.at = "posted" =>
    /\ s.group \in Groups /\ s.group # None
    /\ s.num \in ArtNums(ArtsIn(all[s.group]))
NewsOK(s, all) == s \in NewsSessions /\ PositionIn(s, all) /\ PostedIn(s, all)

LEMMA NewsForm ==
  /\ NewsInv <=> \A c \in Conns : PositionIn(news[c], base) /\ PostedIn(news[c], base)
  /\ NewsInv' <=> \A c \in Conns : PositionIn(news'[c], base') /\ PostedIn(news'[c], base')
BY ReadIsArtsIn DEF NewsInv, PostedInv, NewsPosition, PositionIn, PostedIn

LEMMA ArtNumsFacts ==
  ASSUME NEW arts \in Seq(Arts)
  PROVE  /\ ArtNums(arts) \in SUBSET Nat /\ IsFiniteSet(ArtNums(arts))
         /\ arts = <<>> <=> ArtNums(arts) = {}
<1>1. DOMAIN arts = 1..Len(arts) /\ Len(arts) \in Nat
  OBVIOUS
<1>2. \A i \in DOMAIN arts : arts[i].num \in Nat
  <2> TAKE i \in DOMAIN arts
  <2>1. arts[i] \in Arts
    OBVIOUS
  <2> QED BY <2>1 DEF Arts
<1>3. [i \in DOMAIN arts |-> arts[i].num] \in Surjection(DOMAIN arts, ArtNums(arts))
  BY DEF Surjection, ArtNums
<1>4. IsFiniteSet(ArtNums(arts))
  <2>1. IsFiniteSet(DOMAIN arts)
    BY <1>1, FS_Interval
  <2> QED BY <1>3, <2>1, FS_Surjection
<1>5. arts = <<>> <=> DOMAIN arts = {}
  <2>1. arts = <<>> <=> Len(arts) = 0
    BY EmptySeq
  <2> QED BY <1>1, <2>1
<1> QED BY <1>2, <1>4, <1>5 DEF ArtNums

LEMMA ReadJAMFacts ==
  ASSUME AreaTypes, NEW g \in Groups
  PROVE  g \in Areas /\ ReadJAM(g) = ArtsIn(base[g]) /\ ReadJAM(g) \in Seq(Arts)
<1>1. g \in Areas
  BY NewsServerAssumption
<1>2. base[g] \in Seq(Messages)
  BY <1>1 DEF AreaTypes
<1> QED BY <1>1, <1>2, ReadIsArtsIn, ArtsFacts

\* Articles stay articles of their group, whatever happens to the messages.
LEMMA NewsKept ==
  ASSUME AreaTypes, BaseGrows, NEW s, NewsOK(s, base)
  PROVE  NewsOK(s, base')
<1>1. ASSUME NEW g \in Groups
      PROVE  /\ ArtsIn(base[g]) \in Seq(Arts) /\ ArtsIn(base'[g]) \in Seq(Arts)
             /\ Len(ArtsIn(base[g])) <= Len(ArtsIn(base'[g]))
             /\ \A k \in DOMAIN ArtsIn(base[g]) :
                  k \in DOMAIN ArtsIn(base'[g]) /\ ArtsIn(base'[g])[k] = ArtsIn(base[g])[k]
  <2>1. g \in Areas /\ base[g] \in Seq(Messages) /\ base'[g] \in Seq(Messages)
    BY NewsServerAssumption DEF AreaTypes, BaseGrows
  <2>2. \A i \in DOMAIN base[g] : /\ i \in DOMAIN base'[g]
                                  /\ base'[g][i].num = base[g][i].num /\ base'[g][i].id = base[g][i].id
                                  /\ base'[g][i].deleted = base[g][i].deleted
    BY <2>1 DEF BaseGrows
  <2> DEFINE b == base[g]
  <2> DEFINE e == base'[g]
  <2>3. Len(b) <= Len(e)
    <3>1. /\ Len(b) \in Nat /\ DOMAIN b = 1..Len(b)
          /\ Len(e) \in Nat /\ DOMAIN e = 1..Len(e)
      BY <2>1
    <3>2. CASE Len(b) = 0
      BY <3>1, <3>2
    <3>3. CASE Len(b) # 0
      <4>1. Len(b) \in DOMAIN b
        BY <3>1, <3>3
      <4>2. Len(b) \in DOMAIN e
        BY <2>2, <4>1
      <4> QED BY <3>1, <4>2
    <3> QED BY <3>2, <3>3
  <2> QED BY <2>1, <2>2, <2>3, ArtsFacts, ArtsGrow
<1>2. s \in NewsSessions /\ PositionIn(s, base) /\ PostedIn(s, base)
  BY DEF NewsOK
<1>3. PositionIn(s, base')
  <2> SUFFICES ASSUME s.cur # None
               PROVE  IsPrefix(s.arts, ArtsIn(base'[s.cur]))
    BY <1>2 DEF PositionIn
  <2>1. s.cur \in Groups /\ s.arts \in Seq(Arts)
    BY <1>2 DEF NewsSessions
  <2> DEFINE b == ArtsIn(base[s.cur])
  <2> DEFINE e == ArtsIn(base'[s.cur])
  <2>2. /\ b \in Seq(Arts) /\ e \in Seq(Arts) /\ Len(b) <= Len(e)
        /\ \A k \in DOMAIN b : k \in DOMAIN e /\ e[k] = b[k]
    BY <1>1, <2>1
  <2>3. IsPrefix(s.arts, b)
    BY <1>2 DEF PositionIn
  <2> HIDE DEF b, e
  <2>4. Len(s.arts) <= Len(b) /\ \A k \in DOMAIN s.arts : s.arts[k] = b[k]
    BY <2>1, <2>2, <2>3, PrefixFacts
  <2>5. Len(s.arts) <= Len(e) /\ \A k \in DOMAIN s.arts : s.arts[k] = e[k]
    <3>1. /\ Len(s.arts) \in Nat /\ Len(b) \in Nat /\ Len(e) \in Nat
          /\ DOMAIN s.arts = 1..Len(s.arts) /\ DOMAIN b = 1..Len(b)
      BY <2>1, <2>2
    <3>2. \A k \in DOMAIN s.arts : k \in DOMAIN b
      BY <2>4, <3>1
    <3> QED BY <2>2, <2>4, <3>1, <3>2
  <2>6. IsPrefix(s.arts, e)
    BY <2>1, <2>2, <2>5, PrefixFacts
  <2> QED BY <2>6 DEF e
<1>4. PostedIn(s, base')
  <2> SUFFICES ASSUME s.at = "posted"
               PROVE  s.num \in ArtNums(ArtsIn(base'[s.group]))
    BY <1>2 DEF PostedIn
  <2>1. s.group \in Groups /\ s.num \in ArtNums(ArtsIn(base[s.group]))
    BY <1>2 DEF PostedIn
  <2> QED BY <1>1, <2>1 DEF ArtNums
<1> QED BY <1>2, <1>3, <1>4 DEF NewsOK


\* A command leaves its connection with a session that is right.
LEMMA ReplyStep ==
  ASSUME TypeOK, NewsInv, BaseGrows, NEW c \in Conns, NEW t, NewsOK(t, base'),
         news' = [news EXCEPT ![c] = t]
  PROVE  NewsTypes' /\ NewsInv'
<1>1. \A e \in Conns : NewsOK(news[e], base)
  BY NewsForm DEF TypeOK, NewsTypes, NewsOK
<1>2. \A e \in Conns : NewsOK(news[e], base')
  BY <1>1, NewsKept DEF TypeOK
<1>3. \A e \in Conns : NewsOK(news'[e], base')
  BY <1>2 DEF TypeOK, NewsTypes
<1>4. news' \in [Conns -> NewsSessions]
  BY DEF TypeOK, NewsTypes, NewsOK
<1> QED BY <1>3, <1>4, NewsForm DEF NewsOK, NewsTypes

LEMMA NewsHere ==
  ASSUME TypeOK, NewsInv, NEW c \in Conns
  PROVE  NewsOK(news[c], base)
BY NewsForm DEF TypeOK, NewsTypes, NewsOK

LEMMA FreshOK == NewsOK(Fresh, base) /\ NewsOK([Fresh EXCEPT !.at = "gone"], base)
<1>1. /\ Fresh \in NewsSessions /\ Fresh.cur = None /\ Fresh.at = "command"
      /\ [Fresh EXCEPT !.at = "gone"] \in NewsSessions
      /\ [Fresh EXCEPT !.at = "gone"].cur = None /\ [Fresh EXCEPT !.at = "gone"].at = "gone"
  <2>1. <<>> \in Seq(Arts)
    OBVIOUS
  <2>2. Fresh \in NewsSessions /\ Fresh.cur = None /\ Fresh.at = "command"
    BY <2>1 DEF Fresh, NewsSessions
  <2> QED BY <2>2 DEF NewsSessions
<1> QED BY <1>1 DEF NewsOK, PositionIn, PostedIn

\* A session whose articles are those of its group, and whose current number is
\* that of one of them.
LEMMA PlacedOK ==
  ASSUME TypeOK, NEW s \in NewsSessions, s.at # "posted",
         NEW g \in Groups \cup {None}, NEW arts \in Seq(Arts), NEW num \in Nat,
         g # None => /\ IsPrefix(arts, ReadJAM(g))
                     /\ IF arts = <<>> THEN num = 0 ELSE num \in ArtNums(arts)
  PROVE  NewsOK([s EXCEPT !.cur = g, !.arts = arts, !.curNum = num], base)
<1> DEFINE t == [s EXCEPT !.cur = g, !.arts = arts, !.curNum = num]
<1>1. t \in NewsSessions /\ t.at = s.at /\ t.cur = g /\ t.arts = arts /\ t.curNum = num
  BY DEF NewsSessions
<1> HIDE DEF t
<1>2. NewsOK(t, base)
  BY <1>1, ReadIsArtsIn DEF NewsOK, PositionIn, PostedIn
<1> QED BY <1>2 DEF t

\* Every article list of a group begins with itself.
LEMMA PrefixSelf ==
  ASSUME NEW s \in Seq(Arts)
  PROVE  IsPrefix(s, s)
<1>1. Len(s) \in Nat
  OBVIOUS
<1> QED BY <1>1, PrefixFacts


\* What happens to a connection that neither posts nor reads an article list.
LEMMA ServingSame ==
  ASSUME TypeOK, NewsInv, NEW c \in Conns,
         \/ \E u \in Users : CmdUser(c, u)
         \/ CmdPass(c) \/ CmdPost(c) \/ BadArticle(c) \/ Close(c)
  PROVE  \E t : NewsOK(t, base) /\ Reply(c, t)
<1> DEFINE s == news[c]
<1>1. NewsOK(s, base) /\ s \in NewsSessions
  BY NewsHere DEF NewsOK
<1>2. ASSUME NEW t \in NewsSessions, t.cur = s.cur, t.arts = s.arts, t.curNum = s.curNum,
             t.at # "posted"
      PROVE  NewsOK(t, base)
  BY <1>1, <1>2 DEF NewsOK, PositionIn, PostedIn
<1>3. ASSUME NEW u \in Users, CmdUser(c, u) PROVE \E t : NewsOK(t, base) /\ Reply(c, t)
  <2> DEFINE t == [s EXCEPT !.pending = u]
  <2>1. Reply(c, t) /\ s.at = "command"
    BY <1>3 DEF CmdUser, Hears
  <2>2. t \in NewsSessions /\ t.cur = s.cur /\ t.arts = s.arts /\ t.curNum = s.curNum /\ t.at # "posted"
    BY <1>1, <2>1 DEF NewsSessions
  <2> HIDE DEF t
  <2> QED BY <1>2, <2>1, <2>2
<1>4. CASE CmdPass(c)
  <2> DEFINE t == [s EXCEPT !.user = s.pending]
  <2>1. Reply(c, t) /\ s.at = "command" /\ s.pending \in Users
    BY <1>4 DEF CmdPass, Hears
  <2>2. t \in NewsSessions /\ t.cur = s.cur /\ t.arts = s.arts /\ t.curNum = s.curNum /\ t.at # "posted"
    BY <1>1, <2>1 DEF NewsSessions
  <2> HIDE DEF t
  <2> QED BY <1>2, <2>1, <2>2
<1>5. CASE CmdPost(c)
  <2> DEFINE t == [s EXCEPT !.at = "posting"]
  <2>1. Reply(c, t)
    BY <1>5 DEF CmdPost
  <2>2. t \in NewsSessions /\ t.cur = s.cur /\ t.arts = s.arts /\ t.curNum = s.curNum /\ t.at # "posted"
    BY <1>1 DEF NewsSessions
  <2> HIDE DEF t
  <2> QED BY <1>2, <2>1, <2>2
<1>6. CASE BadArticle(c)
  <2> DEFINE t == [s EXCEPT !.at = "command"]
  <2>1. Reply(c, t)
    BY <1>6 DEF BadArticle
  <2>2. t \in NewsSessions /\ t.cur = s.cur /\ t.arts = s.arts /\ t.curNum = s.curNum /\ t.at # "posted"
    BY <1>1 DEF NewsSessions
  <2> HIDE DEF t
  <2> QED BY <1>2, <2>1, <2>2
<1>7. CASE Close(c)
  BY <1>7, FreshOK DEF Close
<1> QED BY <1>3, <1>4, <1>5, <1>6, <1>7

LEMMA ServingGroup ==
  ASSUME TypeOK, NewsInv, NEW c \in Conns, NEW g \in Groups, CmdGroup(c, g)
  PROVE  \E t : NewsOK(t, base) /\ Reply(c, t)
<1> DEFINE arts == ReadJAM(g)
<1> DEFINE num == Low(arts)
<1> DEFINE t == [news[c] EXCEPT !.cur = g, !.arts = arts, !.curNum = num]
<1>1. news[c] \in NewsSessions /\ news[c].at # "posted" /\ Reply(c, t)
  BY NewsHere DEF NewsOK, CmdGroup, Hears
<1>2. arts \in Seq(Arts)
  BY ReadJAMFacts DEF TypeOK
<1>3. IsPrefix(arts, arts)
  BY <1>2, PrefixSelf
<1>4. num \in Nat /\ IF arts = <<>> THEN num = 0 ELSE num \in ArtNums(arts)
  BY <1>2, ArtNumsFacts, MinFacts DEF Low
<1> HIDE DEF num
<1>5. NewsOK(t, base)
  BY <1>1, <1>2, <1>3, <1>4, PlacedOK
<1> QED BY <1>1, <1>5

LEMMA ServingArticle ==
  ASSUME TypeOK, NewsInv, NEW c \in Conns, NEW num \in {0} \cup ArtNums(news[c].arts),
         CmdArticle(c, num)
  PROVE  \E t : NewsOK(t, base) /\ Reply(c, t)
<1> DEFINE s == news[c]
<1> DEFINE want == IF num = 0 THEN s.curNum ELSE num
<1> DEFINE t == [s EXCEPT !.curNum = want]
<1>1. NewsOK(s, base) /\ s \in NewsSessions /\ PositionIn(s, base) /\ s.at = "command"
  BY NewsHere DEF NewsOK, CmdArticle, Hears
<1>2. Reply(c, s) \/ (Reply(c, t) /\ FindArticle(s.arts, want) # {})
  BY DEF CmdArticle
<1>3. ASSUME FindArticle(s.arts, want) # {} PROVE want \in ArtNums(s.arts)
  BY <1>3 DEF FindArticle, First, ArtNums
<1>4. ArtNums(s.arts) \in SUBSET Nat /\ (s.arts = <<>> <=> ArtNums(s.arts) = {})
  BY <1>1, ArtNumsFacts DEF NewsSessions
<1> HIDE DEF want
<1>5. ASSUME FindArticle(s.arts, want) # {}
      PROVE  NewsOK(t, base)
  <2>1. want \in ArtNums(s.arts) /\ want \in Nat /\ s.arts # <<>>
    BY <1>3, <1>4, <1>5
  <2>2. t \in NewsSessions /\ t.cur = s.cur /\ t.arts = s.arts /\ t.curNum = want /\ t.at = s.at
    BY <1>1, <2>1 DEF NewsSessions
  <2> HIDE DEF t
  <2> QED BY <1>1, <2>1, <2>2 DEF NewsOK, PositionIn, PostedIn
<1> QED BY <1>1, <1>2, <1>5

LEMMA ServingID ==
  ASSUME TypeOK, NewsInv, NEW c \in Conns, NEW id, CmdArticleID(c, id)
  PROVE  \E t : NewsOK(t, base) /\ Reply(c, t)
<1> DEFINE s == news[c]
<1>1. s \in NewsSessions /\ PositionIn(s, base) /\ s.at = "command"
  BY NewsHere DEF NewsOK, CmdArticleID, Hears
<1>2. PICK k \in GroupWithID(s, id) : \E i \in FindID(ArtsOf(s, AreaList[k]), id) :
        Reply(c, [s EXCEPT !.cur = AreaList[k], !.arts = ArtsOf(s, AreaList[k]),
                           !.curNum = ArtsOf(s, AreaList[k])[i].num])
  BY DEF CmdArticleID
<1> DEFINE g == AreaList[k]
<1> DEFINE arts == ArtsOf(s, g)
<1>3. PICK i \in FindID(arts, id) : Reply(c, [s EXCEPT !.cur = g, !.arts = arts, !.curNum = arts[i].num])
  BY <1>2
<1>4. g \in Groups
  BY DEF GroupWithID, First
<1> HIDE DEF g
<1>5. arts \in Seq(Arts) /\ (g # None => IsPrefix(arts, ReadJAM(g)))
  <2>1. CASE g = s.cur
    <3>1. arts = s.arts /\ s.arts \in Seq(Arts)
      BY <1>1, <2>1 DEF ArtsOf, NewsSessions
    <3> QED BY <1>1, <2>1, <3>1, ReadIsArtsIn DEF PositionIn
  <2>2. CASE g # s.cur
    <3>1. arts = ReadJAM(g) /\ arts \in Seq(Arts)
      BY <1>4, <2>2, ReadJAMFacts DEF ArtsOf, TypeOK
    <3> QED BY <3>1, PrefixSelf
  <2> QED BY <2>1, <2>2
<1> HIDE DEF arts
<1>6. i \in DOMAIN arts
  BY DEF FindID, First
<1> DEFINE num == arts[i].num
<1>7. num \in ArtNums(arts) /\ num \in Nat /\ arts # <<>>
  BY <1>5, <1>6, ArtNumsFacts DEF ArtNums
<1> HIDE DEF num
<1>8. NewsOK([s EXCEPT !.cur = g, !.arts = arts, !.curNum = num], base)
  BY <1>1, <1>4, <1>5, <1>7, PlacedOK
<1> QED BY <1>3, <1>8 DEF num

LEMMA ServingMove ==
  ASSUME TypeOK, NewsInv, NEW c \in Conns, NEW next \in BOOLEAN, CmdMove(c, next)
  PROVE  \E t : NewsOK(t, base) /\ Reply(c, t)
<1> DEFINE s == news[c]
<1> DEFINE there == {m \in ArtNums(s.arts) : IF next THEN m > s.curNum ELSE m < s.curNum}
<1> DEFINE num == IF next THEN Min(there) ELSE Max(there)
<1> DEFINE t == [s EXCEPT !.curNum = num]
<1>1. s \in NewsSessions /\ PositionIn(s, base) /\ s.at = "command" /\ there # {} /\ Reply(c, t)
  BY NewsHere DEF NewsOK, CmdMove, Hears
<1>2. /\ ArtNums(s.arts) \in SUBSET Nat /\ IsFiniteSet(ArtNums(s.arts))
      /\ s.arts = <<>> <=> ArtNums(s.arts) = {}
  BY <1>1, ArtNumsFacts DEF NewsSessions
<1>3. there \in SUBSET Nat /\ IsFiniteSet(there) /\ there \in SUBSET ArtNums(s.arts)
  <2>1. there \in SUBSET ArtNums(s.arts)
    OBVIOUS
  <2> HIDE DEF there
  <2> QED BY <1>2, <2>1, FS_Subset
<1> HIDE DEF there
<1>4. Min(there) \in there /\ Max(there) \in there
  BY <1>1, <1>3, MinFacts, MaxFacts
<1>5. num \in ArtNums(s.arts) /\ num \in Nat /\ s.arts # <<>>
  BY <1>2, <1>3, <1>4
<1> HIDE DEF num
<1>6. t \in NewsSessions /\ t.cur = s.cur /\ t.arts = s.arts /\ t.curNum = num /\ t.at = s.at
  BY <1>1, <1>5 DEF NewsSessions
<1> HIDE DEF t
<1>7. NewsOK(t, base)
  BY <1>1, <1>5, <1>6 DEF NewsOK, PositionIn, PostedIn
<1> QED BY <1>1, <1>7

\* The base read again has the article posted.
LEMMA ServingPosted ==
  ASSUME TypeOK, NewsInv, NEW c \in Conns, Posted(c)
  PROVE  \E t : NewsOK(t, base) /\ Reply(c, t)
<1> DEFINE s == news[c]
<1> DEFINE arts == ReadJAM(s.group)
<1> DEFINE t == [s EXCEPT !.at = "command", !.cur = s.group, !.arts = arts,
                          !.curNum = s.num, !.group = None, !.num = 0]
<1>1. s \in NewsSessions /\ PostedIn(s, base) /\ s.at = "posted" /\ Reply(c, t)
  BY NewsHere DEF NewsOK, Posted
<1>2. s.group \in Groups /\ s.num \in ArtNums(arts)
  BY <1>1, ReadIsArtsIn DEF PostedIn
<1>3. arts \in Seq(Arts)
  BY <1>2, ReadJAMFacts DEF TypeOK
<1>4. arts # <<>> /\ IsPrefix(arts, arts)
  BY <1>2, <1>3, ArtNumsFacts, PrefixSelf
<1>5. arts = ArtsIn(base[s.group])
  BY ReadIsArtsIn
<1> HIDE DEF arts
<1>6. t \in NewsSessions /\ t.at = "command" /\ t.cur = s.group /\ t.arts = arts /\ t.curNum = s.num
  BY <1>1, <1>2, <1>3 DEF NewsSessions
<1> HIDE DEF t
<1>7. NewsOK(t, base)
  BY <1>2, <1>4, <1>5, <1>6 DEF NewsOK, PositionIn, PostedIn
<1> QED BY <1>1, <1>7


LEMMA ArticleStep ==
  ASSUME TypeOK, NewsInv, NEW c \in Conns, NEW g \in Groups, NEW id \in PostIds, Article(c, g, id)
  PROVE  /\ BaseGrows /\ PlainNew
         /\ NewsTypes' /\ NewsInv'
<1> DEFINE s == news[c]
<1> DEFINE m == Message(0, id, "client", "All", FALSE)
<1> DEFINE l == Len(base[g]) + 1
<1> DEFINE num == NextNumber(g)
<1> DEFINE t == [s EXCEPT !.at = "posted", !.group = g, !.num = num]
<1>1. /\ NewsOK(s, base) /\ s \in NewsSessions /\ g \in Areas /\ g # None /\ AreaTypes
      /\ Appended(g, m)
  BY NewsHere, NewsServerAssumption DEF NewsOK, Article, TypeOK
<1>2. m \in Messages /\ m.dir = "none" /\ m.fatt = FALSE /\ m.deleted = FALSE
  BY NewsServerAssumption, MessageAreasAssumption DEF Message, Messages
<1> HIDE DEF m
<1>3. /\ BaseGrows /\ l \in DOMAIN base'[g] /\ num \in Nat \ {0}
  BY <1>1, <1>2, AppendedGrows
<1>4. PICK p \in Messages : /\ p.dir = m.dir /\ p.fatt = m.fatt /\ p.deleted = m.deleted
                            /\ p.num = num /\ OneNew(g, p) /\ base'[g][l] = p
  BY <1>1, <1>2, AppendedGrows
<1>5. PlainNew
  BY <1>2, <1>4, MessageAreasAssumption DEF PlainNew, OneNew
<1>6. news' = [news EXCEPT ![c] = t]
  <2>1. news' = [news EXCEPT ![c].at = "posted", ![c].group = g, ![c].num = num]
    BY DEF Article
  <2>2. news \in [Conns -> NewsSessions]
    BY DEF TypeOK, NewsTypes
  <2> HIDE DEF num
  <2> QED BY <2>1, <2>2 DEF NewsSessions
<1> HIDE DEF num
<1>7. /\ t \in NewsSessions /\ t.at = "posted" /\ t.group = g /\ t.num = num
      /\ t.cur = s.cur /\ t.arts = s.arts /\ t.curNum = s.curNum
  BY <1>1, <1>3 DEF NewsSessions
<1> HIDE DEF t
<1>8. num \in ArtNums(ArtsIn(base'[g]))
  <2>1. base'[g] \in Seq(Messages)
    BY <1>1, <1>3 DEF BaseGrows
  <2>2. l \in ActiveIn(base'[g])
    BY <1>2, <1>3, <1>4 DEF ActiveIn
  <2>3. PICK k \in DOMAIN ArtsIn(base'[g]) : ArtsIn(base'[g])[k] = ArtOf(p, l)
    BY <1>4, <2>1, <2>2, ArtsFacts
  <2>4. ArtOf(p, l).num = num
    BY <1>3, <1>4 DEF ArtOf
  <2> QED BY <2>3, <2>4 DEF ArtNums
<1>9. NewsOK(s, base')
  BY <1>1, <1>3, NewsKept
<1>10. NewsOK(t, base')
  BY <1>1, <1>7, <1>8, <1>9 DEF NewsOK, PositionIn, PostedIn
<1>11. NewsTypes' /\ NewsInv'
  BY <1>3, <1>6, <1>10, ReplyStep
<1> QED BY <1>3, <1>5, <1>11

---------------------------------------------------------------------------
(* The invariant. *)

LEMMA NewsStays ==
  ASSUME TypeOK, NewsInv, BaseGrows, UNCHANGED news
  PROVE  NewsTypes' /\ NewsInv'
<1>1. \A e \in Conns : NewsOK(news[e], base)
  BY NewsHere
<1>2. \A e \in Conns : NewsOK(news[e], base')
  BY <1>1, NewsKept DEF TypeOK
<1> QED BY <1>2, NewsForm DEF NewsOK, TypeOK, NewsTypes

LEMMA SessionStep ==
  ASSUME IInv, NEW n \in Nodes, Commanded(n) \/ Proceeding(n)
  PROVE  IInv'
<1>1. (Commands(n) \/ Proceeds(n)) /\ UNCHANGED news
  BY DEF Commanded, Proceeding, newsVars
<1>2. TypeOK /\ AttachInv /\ SessionInv /\ PointersInv /\ NewsInv
  BY DEF IInv, AttachInv
<1>3. AttachInv' /\ BaseGrows
  BY <1>1, <1>2, MailAttach
<1>4. PointersInv'
  BY <1>1, <1>2, MailPointers
<1>5. AreaTypes' /\ ReaderTypes'
  BY <1>1, <1>2, MailTypes
<1>6. NewsTypes' /\ NewsInv'
  BY <1>1, <1>2, <1>3, NewsStays
<1> QED BY <1>3, <1>4, <1>5, <1>6 DEF IInv, TypeOK

\* A command of a news client leaves the readers alone and posts at most.
LEMMA ServingBase ==
  ASSUME IInv, NEW c \in Conns, Serving(c)
  PROVE  /\ BaseGrows /\ PlainNew /\ UNCHANGED <<bbs, prof, last, jlr, dirs, lapped, shared>>
         /\ NewsTypes' /\ NewsInv'
<1>1. NewsStep(c) /\ UNCHANGED <<bbs, prof, last>>
  BY DEF Serving, readerVars
<1>2. TypeOK /\ AttachInv /\ PointersInv /\ NewsInv /\ AreaTypes
  BY DEF IInv, TypeOK
<1>3. /\ BaseGrows /\ PlainNew /\ UNCHANGED <<jlr, dirs, lapped, shared>>
      /\ NewsTypes' /\ NewsInv'
  <2>1. CASE \E g \in Groups, id \in PostIds : Article(c, g, id)
    <3>1. UNCHANGED <<jlr, dirs, lapped, shared>>
      BY <2>1 DEF Article
    <3> QED BY <1>2, <2>1, <3>1, ArticleStep
  <2>2. ASSUME \E t : NewsOK(t, base) /\ Reply(c, t)
        PROVE  <1>3
    <3>1. PICK t : NewsOK(t, base) /\ Reply(c, t)
      BY <2>2
    <3>2. news' = [news EXCEPT ![c] = t] /\ UNCHANGED <<base, jlr, dirs, lapped, shared>>
      BY <3>1 DEF Reply, areaVars
    <3>3. BaseGrows /\ NothingNew
      BY <1>2, <3>2, SameGrows
    <3>4. PlainNew
      BY <3>3 DEF PlainNew, NothingNew
    <3>5. NewsOK(t, base')
      BY <3>1, <3>2
    <3> QED BY <1>2, <3>2, <3>3, <3>4, <3>5, ReplyStep
  <2>3. CASE \/ \E u \in Users : CmdUser(c, u)
             \/ CmdPass(c) \/ CmdPost(c) \/ BadArticle(c) \/ Close(c)
    BY <1>2, <2>2, <2>3, ServingSame
  <2>4. CASE \E g \in Groups : CmdGroup(c, g)
    BY <1>2, <2>2, <2>4, ServingGroup
  <2>5. CASE \E num \in {0} \cup ArtNums(news[c].arts) : CmdArticle(c, num)
    BY <1>2, <2>2, <2>5, ServingArticle
  <2>6. CASE \E id : CmdArticleID(c, id)
    BY <1>2, <2>2, <2>6, ServingID
  <2>7. CASE \E next \in BOOLEAN : CmdMove(c, next)
    BY <1>2, <2>2, <2>7, ServingMove
  <2>8. CASE Posted(c)
    BY <1>2, <2>2, <2>8, ServingPosted
  <2> QED BY <1>1, <2>1, <2>3, <2>4, <2>5, <2>6, <2>7, <2>8 DEF NewsStep
<1> QED BY <1>1, <1>3

LEMMA ServingStep ==
  ASSUME IInv, NEW c \in Conns, Serving(c)
  PROVE  IInv'
<1>1. UNCHANGED <<bbs, prof, last>>
  BY DEF Serving, readerVars
<1>2. TypeOK /\ AttachInv /\ PointersInv /\ NewsInv /\ AreaTypes
  BY DEF IInv, TypeOK
<1>3. /\ BaseGrows /\ PlainNew /\ UNCHANGED <<jlr, dirs, lapped, shared>>
      /\ NewsTypes' /\ NewsInv'
  BY ServingBase
<1>4. AttachInv'
  BY <1>1, <1>2, <1>3, StillStep
<1>5. PointersInv'
  <2>1. NewReaders(jlr, lapped, bbs) /\ Kept(jlr, last, lapped)
    BY <1>2, PointersForm
  <2> QED BY <1>1, <1>3, <2>1, PointersForm
<1>6. AreaTypes' /\ ReaderTypes'
  BY <1>1, <1>2, <1>3 DEF TypeOK, AreaTypes, ReaderTypes, BaseGrows
<1> QED BY <1>3, <1>4, <1>5, <1>6 DEF IInv, TypeOK


LEMMA InitInvariant == Init => IInv
<1> SUFFICES ASSUME Init PROVE IInv
  OBVIOUS
<1>1. PICK s \in Starts :
        /\ base = s.base /\ jlr = s.jlr
        /\ dirs = [d \in Dirs |-> [state |-> "new", files |-> {}]]
        /\ lapped = {} /\ shared = {}
        /\ MailReaderInit(s) /\ NewsServerInit(s)
  BY DEF Init
<1>2. /\ base \in [Areas -> Seq(Messages)] /\ jlr \in [Areas -> Seq(Records)]
      /\ \A a \in Areas : \A i \in DOMAIN base[a] : ~base[a][i].fatt /\ base[a][i].dir \notin Dirs
  BY <1>1, StartsAssumption
<1>3. AreaTypes
  BY <1>1, <1>2 DEF AreaTypes
<1>4. bbs = [n \in Nodes |-> Quiet] /\ \A n \in Nodes : bbs[n] = Quiet
  BY <1>1 DEF MailReaderInit
<1>5. /\ last = [u \in Users |-> [a \in Areas |-> LastRead(a, u)]]
      /\ prof = Profiles
  BY <1>1 DEF MailReaderInit
<1>6. last \in [Users -> [Areas -> Nat]] /\ \A u \in Users, a \in Areas : last[u][a] = LastRead(a, u)
  <2>1. \A a \in Areas, u \in Users : LastRead(a, u) \in Nat
    BY <1>3, LastReadNat
  <2> QED BY <1>5, <2>1
<1>7. ReaderTypes
  BY <1>4, <1>5, <1>6, QuietType, MailReaderAssumption DEF ReaderTypes, AreaOrNone
<1>8. \A c \in Conns : NewsOK(news[c], base)
  BY <1>1, FreshOK DEF NewsServerInit
<1>9. NewsTypes
  BY <1>1, FreshOK DEF NewsServerInit, NewsTypes, NewsOK
<1>10. NewsInv
  BY <1>8, NewsForm DEF NewsOK
<1>11. \A n \in Nodes : /\ Located(bbs[n]) /\ Carries(bbs[n]) /\ bbs[n].at = "menu"
                        /\ ~bbs[n].post.fatt /\ bbs[n].post.dir \notin Dirs
  BY <1>4, QuietOK DEF OK, Idle
<1>12. SessionInv
  BY <1>11 DEF SessionInv, Backed
<1>13. FilesInv /\ OneOwner /\ NewFree /\ FilesThere
  BY <1>2, <1>11 DEF FilesInv, OneOwner, NewFree, FilesThere
<1>14. PointersInv
  BY <1>6, <1>11 DEF PointersInv, BehindInv, PointersKept
<1> QED BY <1>3, <1>7, <1>9, <1>10, <1>12, <1>13, <1>14 DEF IInv, TypeOK, AttachInv

LEMMA StutterStep ==
  ASSUME IInv, UNCHANGED vars
  PROVE  IInv'
<1>1. /\ UNCHANGED <<base, jlr, dirs, lapped, shared, bbs, prof, last, news>>
  BY DEF vars, areaVars, readerVars, newsVars
<1>2. TypeOK /\ AttachInv /\ PointersInv /\ NewsInv /\ AreaTypes
  BY DEF IInv, TypeOK
<1>3. BaseGrows /\ NothingNew
  BY <1>1, <1>2, SameGrows
<1>4. PlainNew
  BY <1>3 DEF PlainNew, NothingNew
<1>5. AttachInv'
  BY <1>1, <1>2, <1>3, <1>4, StillStep
<1>6. NewsTypes' /\ NewsInv'
  BY <1>1, <1>2, <1>3, NewsStays
<1>7. PointersInv'
  <2>1. NewReaders(jlr, lapped, bbs) /\ Kept(jlr, last, lapped)
    BY <1>2, PointersForm
  <2> QED BY <1>1, <2>1, PointersForm
<1>8. AreaTypes' /\ ReaderTypes'
  BY <1>1, <1>2 DEF TypeOK, AreaTypes, ReaderTypes
<1> QED BY <1>5, <1>6, <1>7, <1>8 DEF IInv, TypeOK

\* What a step of MessageServices keeps: the types, who has each attach
\* directory, which readers have a record, and where each news client is.
THEOREM Inductive == Spec => []IInv
<1>1. IInv /\ [Next]_vars => IInv'
  <2> SUFFICES ASSUME IInv, [Next]_vars PROVE IInv'
    OBVIOUS
  <2>1. CASE \E n \in Nodes : Commanded(n) \/ Proceeding(n)
    BY <2>1, SessionStep
  <2>2. CASE \E c \in Conns : Serving(c)
    BY <2>2, ServingStep
  <2>3. CASE UNCHANGED vars
    BY <2>3, StutterStep
  <2> QED BY <2>1, <2>2, <2>3 DEF Next
<1> QED BY InitInvariant, <1>1, PTL DEF Spec

\* Every variable keeps its type: callers, news clients and the files they share
\* never leave the states the code has for them.
THEOREM TypeInvariant == Spec => []TypeOK
<1>1. IInv => TypeOK
  BY DEF IInv
<1> QED BY <1>1, Inductive, PTL

\* No two messages have the same directory of attached files, and the files a
\* message announces are there: createTempDir takes a name nobody has or an
\* empty directory, jamFindMsg finds the message the files are listed of, and
\* files are removed only with the bit of the one message they belong to.
THEOREM AttachmentsStayApart == Spec => []AttachmentsApart
<1>1. IInv => AttachmentsApart
  <2> SUFFICES ASSUME FilesInv, OneOwner, FilesThere PROVE AttachmentsApart
    BY DEF IInv, AttachInv
  <2> SUFFICES ASSUME NEW a \in Areas, NEW b \in Areas,
                      NEW i \in DOMAIN base[a], NEW j \in DOMAIN base[b],
                      base[a][i].fatt, base[a][i].dir \notin shared
               PROVE  /\ base[b][j].dir = base[a][i].dir => a = b /\ i = j
                      /\ dirs[base[a][i].dir].files # {}
    BY DEF AttachmentsApart
  <2>1. base[a][i].dir \in Dirs \ shared
    BY DEF FilesInv
  <2> QED BY <2>1 DEF OneOwner, FilesThere
<1> QED BY <1>1, Inductive, PTL

\* The pointer jamLastRead finds is the one SetLastRead set last, unless two new
\* readers took the same place of the file or the user has a record under his
\* handle.
THEOREM PointersStayKept == Spec => []PointersKept
<1>1. IInv => PointersKept
  BY DEF IInv, PointersInv
<1> QED BY <1>1, Inductive, PTL

\* A news client's articles are the first ones of its group as it is now, and
\* its current article is one of them.
THEOREM NewsPositionKept == Spec => []NewsPosition
<1>1. IInv => NewsPosition
  BY DEF IInv, NewsInv
<1> QED BY <1>1, Inductive, PTL

---------------------------------------------------------------------------
(* What a reader has been shown. *)

\* In an area numbered without gaps message k is in slot k - BaseNum[a] + 1; b
\* is the list of the area's messages.
GapFree(a, b) == \A i \in DOMAIN b : b[i].num \in {0, BaseNum[a] + i - 1}
Slot(a, k) == k - BaseNum[a] + 1

\* Nobody shows message k to u: it is deleted or he may not read it.
Shut(a, b, u, k) ==
  /\ Slot(a, k) \in DOMAIN b
  /\ b[Slot(a, k)].deleted \/ ~CanRead(a, b[Slot(a, k)], u)

\* He may read it, and it is there.
Due(a, b, u, k) == Slot(a, k) \in DOMAIN b /\ ~Shut(a, b, u, k)

\* Of the numbers lo..hi, those not posted yet included, u saw all that are not
\* shut to him.  A message posted cannot break it, and one shown only helps.
Covered(a, b, u, saw, lo, hi) ==
  \A k \in Nat : lo <= k /\ k <= hi /\ BaseNum[a] <= k /\ ~Shut(a, b, u, k) => <<a, k>> \in saw

\* How far a session has come in its area: up to the message on the screen, or
\* to the one before the next it looks for.
Seeking == {"find", "write", "attach", "upload", "save"}
Showing == {"bar", "files", "kill", "mark", "behind", "act"}
Reached(s) == IF s.at \in Seeking THEN s.cur - 1 ELSE s.art.num
Ahead(s) == IF s.at \in Seeking THEN s.cur ELSE s.art.num

\* The session of u while it scans for new messages,
Scanning(s, u, b, saw, astray) ==
  s.straight /\ s.at \in Seeking \cup Showing /\ GapFree(s.area, b[s.area]) =>
    /\ 1 <= s.from /\ s.from <= Ahead(s)
    /\ Covered(s.area, b[s.area], u, saw, s.from, Reached(s))
    /\ \A k \in s.owed : s.from <= k /\ Due(s.area, b[s.area], u, k)
    /\ <<u, s.area>> \notin astray => Covered(s.area, b[s.area], u, saw, 1, s.from - 1)

\* when it has left an area,
Scanned(s, b, saw) ==
  s.ended => /\ s.at = "area" /\ s.area \in Areas
             /\ GapFree(s.area, b[s.area]) => \A k \in s.owed : <<s.area, k>> \in saw

\* and its flags at any time.
Flags(s) ==
  /\ s.newScan => s.forward /\ ~s.individual
  /\ s.straight => s.newScan /\ s.onward /\ ~s.first /\ s.task = "read"
  /\ s.task = "none" => s.at \in {"menu", "write", "attach", "upload", "save"} /\ s.back = "menu"
  /\ s.at = "ask" => ~s.straight
  /\ s.at \in {"area", "ask", "find"} \/ s.back = "find" => s.task = "read"
  /\ s.at \in {"hit", "rcvd"} \/ s.back = "hit" => s.task = "mailbox"

ReadOK(s, u, b, saw, astray) ==
  /\ Flags(s) /\ Scanning(s, u, b, saw, astray) /\ Scanned(s, b, saw)
  /\ s.at = "behind" => s.straight \/ <<u, s.area>> \in astray

\* Whoever is about to add a record has none, and the records that came
\* meanwhile are their users' last ones: putting one over another takes a
\* pointer away, it never brings an older one back.
ComesLast(r, p) == r[p].who \in Users /\ \A j \in DOMAIN r : r[j].who \in Keys(r[p].who) => j <= p
Late(r, u, size) ==
  /\ \A p \in DOMAIN r : r[p].who # u
  /\ \A p \in DOMAIN r : p > size => ComesLast(r, p)

ShownType == shown \in [Users -> SUBSET (Areas \X Nat)]
LateInv == \A n \in Nodes : bbs[n].at = "behind" => Late(jlr[bbs[n].area], Me(n), bbs[n].size)
BehindPointers ==
  \A u \in Users, a \in Areas : <<u, a>> \notin strayed /\ GapFree(a, base[a]) =>
    Covered(a, base[a], u, shown[u], 1, LastRead(a, u))
ReadersOK == \A n \in Nodes : ReadOK(bbs[n], Me(n), base, shown[Me(n)], strayed)

ReadInv == ShownType /\ ReadersOK /\ LateInv /\ BehindPointers

---------------------------------------------------------------------------
(* What a step of others keeps. *)

LEMMA ShutKept ==
  ASSUME AreaTypes, BaseGrows, NEW a \in Areas, NEW u, NEW k
  PROVE  /\ Shut(a, base[a], u, k) => Shut(a, base'[a], u, k)
         /\ Due(a, base[a], u, k) => Due(a, base'[a], u, k)
         /\ GapFree(a, base'[a]) => GapFree(a, base[a])
<1> DEFINE i == Slot(a, k)
<1>1. ASSUME i \in DOMAIN base[a]
      PROVE  /\ i \in DOMAIN base'[a] /\ base'[a][i].deleted = base[a][i].deleted
             /\ CanRead(a, base'[a][i], u) <=> CanRead(a, base[a][i], u)
  <2>1. /\ i \in DOMAIN base'[a] /\ base'[a][i].deleted = base[a][i].deleted
        /\ base'[a][i].from = base[a][i].from /\ base'[a][i].to = base[a][i].to
        /\ base'[a][i].private = base[a][i].private
    BY <1>1 DEF BaseGrows
  <2> QED BY <2>1 DEF CanRead
<1>2. GapFree(a, base'[a]) => GapFree(a, base[a])
  BY DEF GapFree, BaseGrows
<1> HIDE DEF i
<1>3. /\ Shut(a, base[a], u, k) => Shut(a, base'[a], u, k)
      /\ Due(a, base[a], u, k) => Due(a, base'[a], u, k)
  BY <1>1 DEF Shut, Due, i
<1> QED BY <1>2, <1>3

LEMMA CoveredKept ==
  ASSUME AreaTypes, BaseGrows, NEW a \in Areas, NEW u, NEW lo, NEW hi, NEW saw, NEW more,
         saw \subseteq more, Covered(a, base[a], u, saw, lo, hi)
  PROVE  Covered(a, base'[a], u, more, lo, hi)
<1> SUFFICES ASSUME NEW k \in Nat, lo <= k, k <= hi, BaseNum[a] <= k, ~Shut(a, base'[a], u, k)
             PROVE  <<a, k>> \in more
  BY DEF Covered
<1>1. ~Shut(a, base[a], u, k)
  BY ShutKept
<1> QED BY <1>1 DEF Covered

\* Whoever else posts, reads or marks: what a reader has seen he has seen.
LEMMA ReadKept ==
  ASSUME AreaTypes, BaseGrows, NEW s, Located(s), NEW u, NEW saw, NEW more, saw \subseteq more,
         NEW astray, NEW further, astray \subseteq further, ReadOK(s, u, base, saw, astray)
  PROVE  ReadOK(s, u, base', more, further)
<1>1. /\ Flags(s) /\ Scanning(s, u, base, saw, astray) /\ Scanned(s, base, saw)
      /\ s.at = "behind" => s.straight \/ <<u, s.area>> \in astray
  BY DEF ReadOK
<1>2. Scanning(s, u, base', more, further)
  <2> SUFFICES ASSUME s.straight, s.at \in Seeking \cup Showing, GapFree(s.area, base'[s.area])
               PROVE  /\ 1 <= s.from /\ s.from <= Ahead(s)
                      /\ Covered(s.area, base'[s.area], u, more, s.from, Reached(s))
                      /\ \A k \in s.owed : s.from <= k /\ Due(s.area, base'[s.area], u, k)
                      /\ <<u, s.area>> \notin further =>
                           Covered(s.area, base'[s.area], u, more, 1, s.from - 1)
    BY DEF Scanning
  <2>1. s.area \in Areas
    BY DEF Located, Seeking, Showing
  <2>2. GapFree(s.area, base[s.area])
    BY <2>1, ShutKept
  <2>3. /\ 1 <= s.from /\ s.from <= Ahead(s)
        /\ Covered(s.area, base[s.area], u, saw, s.from, Reached(s))
        /\ \A k \in s.owed : s.from <= k /\ Due(s.area, base[s.area], u, k)
        /\ <<u, s.area>> \notin astray => Covered(s.area, base[s.area], u, saw, 1, s.from - 1)
    BY <1>1, <2>2, Zenon DEF Scanning
  <2>4. \A k \in s.owed : s.from <= k /\ Due(s.area, base'[s.area], u, k)
    BY <2>1, <2>3, ShutKept
  <2>5. Covered(s.area, base'[s.area], u, more, s.from, Reached(s))
    BY <2>1, <2>3, CoveredKept
  <2>6. <<u, s.area>> \notin further => Covered(s.area, base'[s.area], u, more, 1, s.from - 1)
    BY <2>1, <2>3, CoveredKept
  <2> QED BY <2>3, <2>4, <2>5, <2>6, Zenon
<1>3. Scanned(s, base', more)
  BY <1>1, ShutKept DEF Scanned
<1> QED BY <1>1, <1>2, <1>3 DEF ReadOK

\* Pointers are behind what was shown as long as they stay where they are.
PointerShown(r, b, saw, astray) ==
  \A u \in Users, a \in Areas : <<u, a>> \notin astray /\ GapFree(a, b[a]) =>
    Covered(a, b[a], u, saw[u], 1, Pointer(r[a], u))

LEMMA PointerShownForm ==
  /\ BehindPointers <=> PointerShown(jlr, base, shown, strayed)
  /\ BehindPointers' <=> PointerShown(jlr', base', shown', strayed')
BY LastReadIsPointer DEF BehindPointers, PointerShown

LEMMA PointerShownKept ==
  ASSUME AreaTypes, BaseGrows, NEW saw, NEW more, \A u \in Users : saw[u] \subseteq more[u],
         NEW astray, NEW further, astray \subseteq further, NEW r,
         PointerShown(r, base, saw, astray)
  PROVE  PointerShown(r, base', more, further)
<1> SUFFICES ASSUME NEW u \in Users, NEW a \in Areas, <<u, a>> \notin further, GapFree(a, base'[a])
             PROVE  Covered(a, base'[a], u, more[u], 1, Pointer(r[a], u))
  BY DEF PointerShown
<1>1. GapFree(a, base[a]) /\ <<u, a>> \notin astray
  BY ShutKept
<1>2. Covered(a, base[a], u, saw[u], 1, Pointer(r[a], u))
  BY <1>1 DEF PointerShown
<1> QED BY <1>2, CoveredKept

---------------------------------------------------------------------------
(* The search for the next message in an area numbered without gaps. *)

\* Wherever it starts, it finds the first message not deleted from that number on.
LEMMA NextIsFirst ==
  ASSUME AreaTypes, NEW a \in Areas, GapFree(a, base[a]), NEW cur \in Int, 1 <= cur
  PROVE  NextActive(a, cur, TRUE) = First({i \in Active(a) : Slot(a, cur) <= i})
<1> DEFINE from == Max({cur, 1})
<1> DEFINE n == Len(base[a])
<1> DEFINE slot == from - BaseNum[a] + 1
<1> DEFINE start == IF slot \in 1..n THEN slot ELSE 1
<1> DEFINE due == {i \in Active(a) : Number(a, i) >= from}
<1>1. from = cur
  <2> DEFINE S == {cur, 1}
  <2>1. S \in SUBSET Nat /\ S # {} /\ IsFiniteSet(S)
    <3>1. IsFiniteSet({cur}) /\ IsFiniteSet({cur} \cup {1})
      BY FS_Singleton, FS_AddElement
    <3>2. {cur} \cup {1} = {cur, 1}
      OBVIOUS
    <3> QED BY <3>1, <3>2
  <2>2. Max(S) \in S /\ \A y \in S : y <= Max(S)
    BY <2>1, MaxFacts
  <2> QED BY <2>2
<1>2. base[a] \in Seq(Messages) /\ BaseNum[a] \in Nat \ {0} /\ n \in Nat /\ DOMAIN base[a] = 1..n
  BY MessageAreasAssumption DEF AreaTypes
<1>3. \A i \in Active(a) : i \in 1..n /\ Number(a, i) = BaseNum[a] + i - 1
  <2> TAKE i \in Active(a)
  <2>1. i \in DOMAIN base[a]
    BY DEF Active
  <2>2. base[a][i].num \in {0, BaseNum[a] + i - 1}
    BY <2>1 DEF GapFree
  <2>3. BaseNum[a] + i - 1 > 0
    BY <1>2, <2>1
  <2> QED BY <1>2, <2>1, <2>2, <2>3 DEF Number
<1>4. NextActive(a, cur, TRUE) =
        IF \E i \in due : i >= start THEN First({i \in due : i >= start}) ELSE First(due)
  BY DEF NextActive
<1>5. due = {i \in Active(a) : Slot(a, cur) <= i}
  BY <1>1, <1>2, <1>3 DEF Slot
<1>6. \A i \in due : i >= start
  BY <1>1, <1>2, <1>3
<1> HIDE DEF due, start
<1>7. {i \in due : i >= start} = due
  BY <1>6
<1> QED BY <1>4, <1>5, <1>6, <1>7

LEMMA NextFacts ==
  ASSUME AreaTypes, NEW a \in Areas, GapFree(a, base[a]), NEW cur \in Int, 1 <= cur, NEW u
  PROVE  /\ \A i \in NextActive(a, cur, TRUE) :
              LET art == ArticleAt(a, i) IN
              /\ i \in Active(a) /\ art.num \in Nat /\ cur <= art.num /\ BaseNum[a] <= art.num
              /\ Slot(a, art.num) = i
              /\ Shut(a, base[a], u, art.num) <=> ~CanRead(a, art, u)
              /\ \A k \in Nat : cur <= k /\ k < art.num /\ BaseNum[a] <= k => Shut(a, base[a], u, k)
         /\ NextActive(a, cur, TRUE) = {} =>
              \A k \in Nat : cur <= k => ~Due(a, base[a], u, k)
<1> DEFINE ahead == {i \in Active(a) : Slot(a, cur) <= i}
<1>1. NextActive(a, cur, TRUE) = First(ahead)
  BY NextIsFirst
<1>2. base[a] \in Seq(Messages) /\ BaseNum[a] \in Nat \ {0} /\ DOMAIN base[a] = 1..Len(base[a])
      /\ Len(base[a]) \in Nat
  BY MessageAreasAssumption DEF AreaTypes
<1>3. Active(a) \in SUBSET Nat /\ IsFiniteSet(Active(a))
  BY ActiveFacts
<1>4. \A i \in Active(a) : /\ i \in DOMAIN base[a] /\ ~base[a][i].deleted
                           /\ ArticleAt(a, i).num = BaseNum[a] + i - 1
  <2> TAKE i \in Active(a)
  <2>1. i \in DOMAIN base[a] /\ ~base[a][i].deleted
    BY DEF Active
  <2>2. base[a][i].num \in {0, BaseNum[a] + i - 1}
    BY <2>1 DEF GapFree
  <2>3. Number(a, i) = BaseNum[a] + i - 1
    BY <1>2, <2>1, <2>2 DEF Number
  <2> QED BY <2>1, <2>3, ArticleType
<1>5. ASSUME NEW i \in First(ahead)
      PROVE  LET art == ArticleAt(a, i) IN
             /\ i \in Active(a) /\ art.num \in Nat /\ cur <= art.num /\ BaseNum[a] <= art.num
             /\ Slot(a, art.num) = i
             /\ Shut(a, base[a], u, art.num) <=> ~CanRead(a, art, u)
             /\ \A k \in Nat : cur <= k /\ k < art.num /\ BaseNum[a] <= k => Shut(a, base[a], u, k)
  <2> DEFINE art == ArticleAt(a, i)
  <2>1. i \in Active(a) /\ Slot(a, cur) <= i /\ \A j \in ahead : i <= j
    BY DEF First
  <2>2. i \in 1..Len(base[a]) /\ art.num = BaseNum[a] + i - 1
    BY <1>2, <1>4, <2>1
  <2>3. /\ art.num \in Nat /\ cur <= art.num /\ BaseNum[a] <= art.num /\ Slot(a, art.num) = i
    BY <1>2, <2>1, <2>2 DEF Slot
  <2>4. CanRead(a, art, u) <=> CanRead(a, base[a][i], u)
    <3>1. base[a][i] \in Messages
      BY <1>2, <2>2
    <3>2. /\ art.private = base[a][i].private /\ art.to = base[a][i].to
          /\ art.from = base[a][i].from
      BY <3>1 DEF ArticleAt, Messages
    <3> QED BY <3>2 DEF CanRead
  <2>5. Shut(a, base[a], u, art.num) <=> ~CanRead(a, art, u)
    BY <1>4, <2>1, <2>3, <2>4 DEF Shut
  <2>6. ASSUME NEW k \in Nat, cur <= k, k < art.num, BaseNum[a] <= k
        PROVE  Shut(a, base[a], u, k)
    <3>1. Slot(a, k) \in DOMAIN base[a] /\ Slot(a, cur) <= Slot(a, k) /\ Slot(a, k) < i
      BY <1>2, <2>2, <2>6 DEF Slot
    <3>2. Slot(a, k) \in Int /\ i \in Int
      BY <1>2, <2>2, <3>1
    <3>3. Slot(a, k) \notin ahead
      <4> HIDE DEF ahead
      <4> QED BY <2>1, <3>1, <3>2
    <3> QED BY <3>1, <3>3 DEF Shut, Active
  <2> QED BY <2>1, <2>3, <2>5, <2>6
<1>6. ASSUME First(ahead) = {}, NEW k \in Nat, cur <= k
      PROVE  ~Due(a, base[a], u, k)
  <2>1. ahead \in SUBSET Nat /\ IsFiniteSet(ahead)
    BY <1>3, FS_Subset
  <2> HIDE DEF ahead
  <2>2. ahead = {}
    BY <1>6, <2>1, FirstThere
  <2>3. Slot(a, cur) <= Slot(a, k)
    BY <1>2, <1>6 DEF Slot
  <2> QED BY <2>2, <2>3 DEF Due, Shut, Active, ahead
<1> QED BY <1>1, <1>5, <1>6

---------------------------------------------------------------------------
(* What setting a pointer does to the pointers read. *)

LEMMA OnlyOwn ==
  ASSUME HandlesApart, NEW u \in Users, NEW v \in Users, u \in Keys(v)
  PROVE  u = v
BY DEF HandlesApart, Keys

LEMMA FirstOf ==
  ASSUME NEW r \in Seq(Records), NEW u, Of(r, u) # {}
  PROVE  \E f \in First(Of(r, u)) : f \in DOMAIN r /\ f \in Nat
<1>1. DOMAIN r = 1..Len(r) /\ Len(r) \in Nat
  OBVIOUS
<1>2. Of(r, u) \in SUBSET DOMAIN r
  BY DEF Of
<1>3. IsFiniteSet(1..Len(r))
  BY <1>1, FS_Interval
<1>4. Of(r, u) \in SUBSET Nat /\ IsFiniteSet(Of(r, u))
  BY <1>1, <1>2, <1>3, FS_Subset
<1>5. First(Of(r, u)) # {}
  BY <1>4, FirstThere
<1>6. First(Of(r, u)) \in SUBSET Of(r, u)
  BY DEF First
<1> QED BY <1>1, <1>2, <1>5, <1>6

\* A record rewritten in its place changes its user's pointer alone.
LEMMA InPlacePointer ==
  ASSUME HandlesApart, NEW r \in Seq(Records), NEW s \in Seq(Records), NEW u \in Users, NEW num,
         NEW k \in DOMAIN r, r[k].who = u, DOMAIN s = DOMAIN r, s[k].num = num,
         \A j \in DOMAIN r : s[j].who = r[j].who /\ (j # k => s[j].num = r[j].num),
         NEW v \in Users
  PROVE  Pointer(s, v) = Pointer(r, v) \/ (v = u /\ Pointer(s, v) = num)
<1>1. Of(s, v) = Of(r, v)
  BY DEF Of
<1>2. CASE v # u
  <2>1. k \notin Of(r, v)
    BY <1>2, OnlyOwn DEF Of
  <2>2. \A j \in Of(r, v) : r[j].num = s[j].num
    BY <2>1 DEF Of
  <2> QED BY <1>1, <2>2, PointerSame
<1>3. CASE v = u
  <2>1. k \in Of(r, v)
    BY <1>3 DEF Of, Keys
  <2>2. PICK f \in First(Of(r, v)) : f \in DOMAIN r
    BY <2>1, FirstOf
  <2>3. Pointer(r, v) = r[f].num
    BY <2>2, PointerFirst
  <2>4. Pointer(s, v) = s[f].num
    BY <1>1, <2>2, PointerFirst
  <2> QED BY <1>3, <2>2, <2>3, <2>4
<1> QED BY <1>2, <1>3

\* A record of u at place p: behind all others, or over one that came after he
\* had looked for the end of the file.
PutAt(r, s, u, num, p) ==
  /\ p \in Nat /\ DOMAIN s = DOMAIN r \cup {p} /\ s[p].who = u /\ s[p].num = num
  /\ \A j \in DOMAIN r : j # p => s[j] = r[j]
  /\ \A j \in DOMAIN r : p <= j => ComesLast(r, j)
  /\ \A j \in DOMAIN r : r[j].who # u

LEMMA PutPointer ==
  ASSUME HandlesApart, NEW r \in Seq(Records), NEW s \in Seq(Records), NEW u \in Users, NEW num,
         NEW p, PutAt(r, s, u, num, p), NEW v \in Users
  PROVE  \/ Pointer(s, v) \in {0, Pointer(r, v)}
         \/ v = u /\ Pointer(s, v) = num
<1>0. /\ p \in Nat /\ DOMAIN s = DOMAIN r \cup {p} /\ s[p].who = u /\ s[p].num = num
      /\ \A j \in DOMAIN r : j # p => s[j] = r[j]
      /\ \A j \in DOMAIN r : p <= j => ComesLast(r, j)
  BY DEF PutAt
<1>1. CASE v = u
  <2>1. p \in Of(s, v)
    BY <1>0, <1>1 DEF Of, Keys
  <2>2. PICK f \in First(Of(s, v)) : f \in DOMAIN s /\ f \in Nat
    BY <2>1, FirstOf
  <2>3. Pointer(s, v) = s[f].num
    BY <2>2, PointerFirst
  <2>4. CASE f = p
    BY <1>0, <1>1, <2>3, <2>4
  <2>5. CASE f # p
    <3>1. f \in DOMAIN r /\ s[f] = r[f]
      BY <1>0, <2>2, <2>5
    <3>2. f \in Of(r, v)
      BY <2>2, <3>1 DEF First, Of
    <3>3. Of(r, v) \subseteq Of(s, v)
      <4> SUFFICES ASSUME NEW j \in Of(r, v) PROVE j \in Of(s, v)
        OBVIOUS
      <4>1. CASE j = p
        BY <2>1, <4>1
      <4>2. CASE j # p
        BY <1>0, <4>2 DEF Of
      <4> QED BY <4>1, <4>2
    <3>4. f \in First(Of(r, v))
      BY <2>2, <3>2, <3>3 DEF First
    <3>5. Pointer(r, v) = r[f].num
      BY <3>4, PointerFirst
    <3> QED BY <2>3, <3>1, <3>5
  <2> QED BY <2>4, <2>5
<1>2. CASE v # u
  <2>1. p \notin Of(s, v)
    BY <1>0, <1>2, OnlyOwn DEF Of
  <2>2. Of(s, v) = Of(r, v) \ {p}
    BY <1>0, <2>1 DEF Of
  <2>3. CASE p \notin Of(r, v)
    <3>1. \A j \in Of(r, v) : r[j].num = s[j].num
      BY <1>0, <2>3 DEF Of
    <3>2. Of(s, v) = Of(r, v)
      BY <2>2, <2>3
    <3> QED BY <3>1, <3>2, PointerSame
  <2>4. CASE p \in Of(r, v)
    <3>1. PICK f \in First(Of(r, v)) : f \in DOMAIN r /\ f \in Nat
      BY <2>4, FirstOf
    <3>2. CASE f # p
      <4>1. f \in First(Of(s, v))
        BY <2>2, <3>1, <3>2 DEF First
      <4>2. Pointer(s, v) = s[f].num
        BY <4>1, PointerFirst
      <4>3. Pointer(r, v) = r[f].num
        BY <3>1, PointerFirst
      <4> QED BY <1>0, <3>1, <3>2, <4>2, <4>3
    <3>3. CASE f = p
      <4>1. p \in DOMAIN r /\ r[p].who \in Keys(v)
        BY <2>4 DEF Of
      <4>2. ComesLast(r, p)
        BY <1>0, <4>1
      <4>3. r[p].who = v
        BY <4>1, <4>2, OnlyOwn DEF ComesLast
      <4>4. \A j \in Of(r, v) : j <= p /\ p <= j
        BY <3>1, <3>3, <4>2, <4>3 DEF Of, First, ComesLast
      <4>5. \A j \in Of(r, v) : j \in Nat
        BY DEF Of
      <4>6. Of(s, v) = {}
        BY <1>0, <2>2, <4>4, <4>5
      <4> QED BY <4>6 DEF Pointer, First
    <3> QED BY <3>2, <3>3
  <2> QED BY <2>3, <2>4
<1> QED BY <1>1, <1>2

\* Others who are about to add a record still have none, and none of those that
\* came meanwhile has an older one behind it.
LEMMA PutLate ==
  ASSUME HandlesApart, NEW r \in Seq(Records), NEW s \in Seq(Records), NEW u \in Users, NEW num,
         NEW p, PutAt(r, s, u, num, p), NEW v \in Users, v # u, NEW size, Late(r, v, size)
  PROVE  Late(s, v, size)
<1>0. /\ p \in Nat /\ DOMAIN s = DOMAIN r \cup {p} /\ s[p].who = u
      /\ \A j \in DOMAIN r : j # p => s[j] = r[j]
      /\ \A j \in DOMAIN r : p <= j => ComesLast(r, j)
      /\ \A j \in DOMAIN r : r[j].who # u
      /\ \A j \in DOMAIN r : j \in Nat
  BY DEF PutAt
<1>1. \A q \in DOMAIN s : s[q].who # v
  BY <1>0 DEF Late
<1>2. ASSUME NEW q \in DOMAIN s, q > size
      PROVE  ComesLast(s, q)
  <2>1. CASE q = p
    <3> SUFFICES ASSUME NEW j \in DOMAIN s, s[j].who \in Keys(u), ~(j <= p) PROVE FALSE
      BY <1>0, <2>1 DEF ComesLast
    <3>1. j \in DOMAIN r /\ s[j] = r[j] /\ p <= j
      BY <1>0
    <3>2. r[j].who \in Users
      BY <1>0, <3>1 DEF ComesLast
    <3>3. r[j].who = u
      BY <3>1, <3>2, OnlyOwn
    <3> QED BY <1>0, <3>1, <3>3
  <2>2. CASE q # p
    <3>1. q \in DOMAIN r /\ s[q] = r[q]
      BY <1>0, <2>2
    <3>2. ComesLast(r, q)
      BY <1>2, <3>1 DEF Late
    <3>3. u \notin Keys(r[q].who)
      BY <1>0, <3>1, <3>2, OnlyOwn DEF ComesLast
    <3> QED BY <1>0, <3>1, <3>2, <3>3 DEF ComesLast
  <2> QED BY <2>1, <2>2
<1> QED BY <1>1, <1>2 DEF Late

---------------------------------------------------------------------------
(* A session's own steps: what it claims of itself. *)

Same(s, t) ==
  /\ t.straight = s.straight /\ t.newScan = s.newScan /\ t.onward = s.onward
  /\ t.individual = s.individual /\ t.forward = s.forward /\ t.first = s.first
  /\ t.task = s.task /\ t.from = s.from /\ t.area = s.area /\ t.owed = s.owed
  /\ t.ended = s.ended

\* One that does not scan, or is between two areas, claims nothing.
LEMMA LooseOK ==
  ASSUME NEW s, Flags(s), ~s.ended, ~s.straight \/ s.at \notin Seeking \cup Showing,
         NEW u, NEW b, NEW saw, NEW astray, s.at = "behind" => <<u, s.area>> \in astray
  PROVE  ReadOK(s, u, b, saw, astray)
BY DEF ReadOK, Scanning, Scanned

LEMMA QuietRead ==
  ASSUME NEW u, NEW b, NEW saw, NEW astray
  PROVE  Flags(Quiet) /\ ReadOK(Quiet, u, b, saw, astray)
<1>1. Flags(Quiet) /\ ~Quiet.ended /\ ~Quiet.straight /\ Quiet.at = "menu"
  BY DEF Quiet, Flags
<1> QED BY <1>1, LooseOK

\* One that goes on with its message, or with what it writes, has seen as much
\* as before.
LEMMA SameOK ==
  ASSUME NEW s, NEW t, NEW u, NEW b, NEW saw, NEW astray, NEW further, astray \subseteq further,
         ReadOK(s, u, b, saw, astray), Same(s, t), Flags(t),
         \/ s.at \in Seeking /\ t.at \in Seeking /\ t.cur = s.cur
         \/ s.at \in Showing /\ t.at \in Showing /\ t.art = s.art,
         t.at = "behind" => s.straight \/ <<u, s.area>> \in further
  PROVE  ReadOK(t, u, b, saw, further)
<1>1. /\ Scanning(s, u, b, saw, astray) /\ Scanned(s, b, saw)
  BY DEF ReadOK
<1>2. ~s.ended
  BY <1>1 DEF Scanned, Seeking, Showing
<1>3. Ahead(t) = Ahead(s) /\ Reached(t) = Reached(s)
  BY DEF Ahead, Reached, Seeking, Showing
<1>4. Scanning(t, u, b, saw, further)
  <2>1. /\ t.straight = s.straight /\ t.from = s.from /\ t.area = s.area /\ t.owed = s.owed
    BY DEF Same
  <2>2. s.at \in Seeking \cup Showing
    OBVIOUS
  <2> QED BY <1>1, <1>3, <2>1, <2>2 DEF Scanning
<1>5. Scanned(t, b, saw)
  BY <1>2 DEF Scanned, Same
<1> QED BY <1>4, <1>5 DEF ReadOK, Same

\* An area is begun behind the pointer.
LEMMA BeginRead ==
  ASSUME AreaTypes, NEW n \in Nodes, NEW s \in Sessions, NEW a \in Areas, NEW start \in Nat,
         NEW saw, NEW astray, ~s.ended, s.task = "read", s.back # "hit", ~s.first,
         s.newScan => s.forward /\ ~s.individual, s.straight => s.newScan /\ s.onward,
         <<Me(n), a>> \notin astray /\ GapFree(a, base[a]) =>
           Covered(a, base[a], Me(n), saw, 1, LastRead(a, Me(n)))
  PROVE  ReadOK(Begin(n, s, a, start), Me(n), base, saw, astray)
<1> DEFINE u == Me(n)
<1> DEFINE from == CASE s.newScan -> LastRead(a, Me(n)) + 1
                     [] ~s.newScan /\ ~s.forward /\ start = 0 -> s.high
                     [] OTHER -> Max({start, 1})
<1> DEFINE fresh == {Number(a, i) : i \in {k \in Active(a) : /\ Number(a, k) >= from
                                                            /\ CanRead(a, ArticleAt(a, k), Me(n))}}
<1> DEFINE over == [s EXCEPT !.at = "area", !.i = @ + 1, !.high = 0]
<1> DEFINE owed == IF s.newScan THEN fresh ELSE {}
<1> DEFINE low == IF s.newScan THEN from ELSE 0
<1> DEFINE find == [s EXCEPT !.at = "find", !.high = 0, !.area = a, !.cur = from,
                             !.onward = s.forward, !.from = low, !.straight = s.newScan,
                             !.owed = owed, !.ended = FALSE]
<1>1. Begin(n, s, a, start) \in {over, find}
  BY DEF Begin
<1>2. ReadOK(over, u, base, saw, astray)
  <2>1. /\ over.at = "area" /\ over.newScan = s.newScan /\ over.straight = s.straight
        /\ over.onward = s.onward /\ over.individual = s.individual /\ over.forward = s.forward
        /\ over.task = s.task /\ over.back = s.back /\ over.ended = s.ended /\ over.first = s.first
    BY DEF Sessions
  <2> HIDE DEF over
  <2>2. Flags(over)
    BY <2>1 DEF Flags
  <2> QED BY <2>1, <2>2, LooseOK DEF Seeking, Showing
<1>3. ReadOK(find, u, base, saw, astray)
  <2> HIDE DEF owed, low, from
  <2>1. /\ find.at = "find" /\ find.newScan = s.newScan /\ find.straight = s.newScan
        /\ find.onward = s.forward /\ find.individual = s.individual /\ find.forward = s.forward
        /\ find.task = s.task /\ find.back = s.back /\ find.ended = FALSE /\ find.first = s.first
        /\ find.area = a /\ find.cur = from /\ find.from = low /\ find.owed = owed
    BY DEF Sessions
  <2> HIDE DEF find
  <2>2. Flags(find)
    BY <2>1 DEF Flags
  <2>3. CASE ~s.newScan
    BY <2>1, <2>2, <2>3, LooseOK
  <2>4. CASE s.newScan
    <3>1. from = LastRead(a, u) + 1 /\ LastRead(a, u) \in Nat /\ low = from /\ owed = fresh
      BY <2>4, LastReadNat DEF owed, low, from
    <3>2. Ahead(find) = from /\ Reached(find) = from - 1
      BY <2>1 DEF Ahead, Reached, Seeking
    <3>3. Covered(a, base[a], u, saw, from, from - 1)
      BY <3>1 DEF Covered
    <3>4. ASSUME GapFree(a, base[a]), NEW k \in fresh
          PROVE  from <= k /\ Due(a, base[a], u, k)
      <4>1. PICK i \in Active(a) : k = Number(a, i) /\ k >= from /\ CanRead(a, ArticleAt(a, i), u)
        OBVIOUS
      <4>2. i \in DOMAIN base[a] /\ ~base[a][i].deleted
        BY <4>1 DEF Active
      <4>3. k \in Nat /\ BaseNum[a] \in Nat \ {0} /\ base[a] \in Seq(Messages)
        BY <4>1, <4>2, NumberNat, MessageAreasAssumption DEF AreaTypes
      <4>4. base[a][i].num \in {0, BaseNum[a] + i - 1} /\ i \in Nat
        BY <3>4, <4>2, <4>3 DEF GapFree
      <4>5. k = BaseNum[a] + i - 1
        BY <4>1, <4>3, <4>4 DEF Number
      <4>6. Slot(a, k) = i
        BY <4>3, <4>4, <4>5 DEF Slot
      <4>7. CanRead(a, base[a][i], u)
        <5>1. base[a][i] \in Messages
          BY <4>2, <4>3
        <5>2. /\ ArticleAt(a, i).private = base[a][i].private
              /\ ArticleAt(a, i).to = base[a][i].to /\ ArticleAt(a, i).from = base[a][i].from
          BY <5>1 DEF ArticleAt, Messages
        <5> QED BY <4>1, <5>2 DEF CanRead
      <4> QED BY <3>1, <4>1, <4>2, <4>3, <4>6, <4>7 DEF Due, Shut
    <3> HIDE DEF fresh
    <3>5. from - 1 = LastRead(a, u) /\ 1 <= from /\ from <= from
      BY <3>1
    <3>6. Scanning(find, u, base, saw, astray)
      BY <2>1, <3>1, <3>2, <3>3, <3>4, <3>5 DEF Scanning
    <3> QED BY <2>1, <2>2, <3>6 DEF ReadOK, Scanned
  <2> QED BY <2>3, <2>4
<1> HIDE DEF over, find
<1> QED BY <1>1, <1>2, <1>3

---------------------------------------------------------------------------
(* The next message. *)

ShownGrows == ShownType' /\ \A u \in Users : shown[u] \subseteq shown'[u]

LEMMA ShowGrows ==
  ASSUME ShownType, NEW u \in Users, NEW a \in Areas, NEW k \in Nat,
         shown' = [shown EXCEPT ![u] = @ \cup {<<a, k>>}]
  PROVE  ShownGrows /\ shown'[u] = shown[u] \cup {<<a, k>>}
BY DEF ShownType, ShownGrows

LEMMA ShownStays ==
  ASSUME ShownType, UNCHANGED shown
  PROVE  ShownGrows
BY DEF ShownType, ShownGrows

LEMMA GoesTo ==
  ASSUME TypeOK, NEW n \in Nodes, NEW t, Goto(n, t)
  PROVE  bbs'[n] = t
BY DEF TypeOK, ReaderTypes, Goto

\* Where Leaves leads.
LEMMA LeavesFacts ==
  ASSUME NEW s \in Sessions, NEW act
  PROVE  \/ Leaves(s, act) = Quiet
         \/ LET t == Leaves(s, act) IN
            /\ t.at = "area" /\ t.newScan = s.newScan /\ t.straight = s.straight
            /\ t.onward = s.onward /\ t.individual = s.individual /\ t.forward = s.forward
            /\ t.task = s.task /\ t.back = s.back /\ t.first = s.first
            /\ t.area = s.area /\ t.owed = s.owed
            /\ t.ended = IF act = "last" THEN s.ended ELSE s.straight
<1> DEFINE back == [s EXCEPT !.at = "area", !.i = @ - 1, !.art = NoMessage, !.act = "next"]
<1> DEFINE ahead == [s EXCEPT !.at = "area", !.i = @ + 1, !.art = NoMessage, !.act = "next",
                              !.ended = s.straight]
<1>1. \/ Leaves(s, act) = Quiet
      \/ act = "last" /\ Leaves(s, act) = back
      \/ act # "last" /\ Leaves(s, act) = ahead
  BY DEF Leaves
<1>2. /\ back.at = "area" /\ back.newScan = s.newScan /\ back.straight = s.straight
      /\ back.onward = s.onward /\ back.individual = s.individual /\ back.forward = s.forward
      /\ back.task = s.task /\ back.back = s.back /\ back.first = s.first
      /\ back.area = s.area /\ back.owed = s.owed /\ back.ended = s.ended
  BY DEF Sessions
<1>3. /\ ahead.at = "area" /\ ahead.newScan = s.newScan /\ ahead.straight = s.straight
      /\ ahead.onward = s.onward /\ ahead.individual = s.individual /\ ahead.forward = s.forward
      /\ ahead.task = s.task /\ ahead.back = s.back /\ ahead.first = s.first
      /\ ahead.area = s.area /\ ahead.owed = s.owed /\ ahead.ended = s.straight
  BY DEF Sessions
<1> HIDE DEF back, ahead
<1> QED BY <1>1, <1>2, <1>3

\* A session that does not scan leaves an area owing nobody.
LEMMA LeavesLoose ==
  ASSUME NEW s \in Sessions, NEW act, Flags(s), ~s.ended, s.task = "read",
         ~s.straight \/ act = "last", NEW u, NEW b, NEW saw, NEW astray
  PROVE  ReadOK(Leaves(s, act), u, b, saw, astray)
<1> DEFINE t == Leaves(s, act)
<1>1. CASE t = Quiet
  BY <1>1, QuietRead
<1>2. CASE /\ t.at = "area" /\ t.newScan = s.newScan /\ t.straight = s.straight
           /\ t.onward = s.onward /\ t.individual = s.individual /\ t.forward = s.forward
           /\ t.task = s.task /\ t.back = s.back /\ t.first = s.first
           /\ t.ended = IF act = "last" THEN s.ended ELSE s.straight
  <2> HIDE DEF t
  <2>1. Flags(t) /\ ~t.ended
    BY <1>2 DEF Flags
  <2> QED BY <1>2, <2>1, LooseOK DEF Seeking, Showing, t
<1> QED BY <1>1, <1>2, LeavesFacts

\* What Find does: nothing found, a message passed over, or one shown.
LEMMA FindForms ==
  ASSUME TypeOK, SessionInv, NEW n \in Nodes, Find(n)
  PROVE  LET s == bbs[n]
             t == bbs'[n]
             next == NextActive(s.area, s.cur, s.onward)
         IN /\ s \in Sessions /\ s.at = "find" /\ s.area \in Areas
            /\ \/ next = {} /\ t = Leaves(s, "next") /\ UNCHANGED shown
               \/ \E i \in next :
                    LET art == ArticleAt(s.area, i)
                        on == Onward(s, art.num)
                    IN \/ /\ (s.newScan /\ art.num < s.from) \/ ~CanRead(s.area, art, Me(n))
                          /\ \/ PastFirst(on) /\ t = Leaves(s, "next")
                             \/ ~PastFirst(on) /\ t = [s EXCEPT !.cur = on]
                          /\ UNCHANGED shown
                       \/ /\ CanRead(s.area, art, Me(n))
                          /\ t = [s EXCEPT !.at = "bar", !.art = art]
                          /\ shown' = [shown EXCEPT ![Me(n)] = @ \cup {<<s.area, art.num>>}]
<1>1. bbs[n] \in Sessions /\ bbs[n].at = "find" /\ bbs[n].area \in Areas
  BY Here DEF Find, At, OK, Located
<1>2. \A t : Goto(n, t) => bbs'[n] = t
  BY GoesTo
<1> QED BY <1>1, <1>2 DEF Find

LEMMA FindRead ==
  ASSUME TypeOK, SessionInv, ShownType, NEW n \in Nodes, Find(n),
         ReadOK(bbs[n], Me(n), base, shown[Me(n)], strayed)
  PROVE  ReadOK(bbs'[n], Me(n), base, shown'[Me(n)], strayed) /\ ShownGrows
<1> DEFINE s == bbs[n]
<1> DEFINE t == bbs'[n]
<1> DEFINE a == s.area
<1> DEFINE u == Me(n)
<1> DEFINE b == base[a]
<1> DEFINE next == NextActive(a, s.cur, s.onward)
<1>1. s \in Sessions /\ s.at = "find" /\ a \in Areas /\ u \in Users /\ AreaTypes
  BY FindForms, MeIsUser DEF TypeOK
<1>2. /\ Flags(s) /\ Scanning(s, u, base, shown[u], strayed) /\ Scanned(s, base, shown[u])
      /\ s.task = "read" /\ ~s.ended
  BY <1>1 DEF ReadOK, Flags, Scanned
<1>3. s.straight /\ GapFree(a, b) =>
        /\ 1 <= s.from /\ s.from <= s.cur
        /\ Covered(a, b, u, shown[u], s.from, s.cur - 1)
        /\ \A k \in s.owed : s.from <= k /\ Due(a, b, u, k)
        /\ <<u, a>> \notin strayed => Covered(a, b, u, shown[u], 1, s.from - 1)
  BY <1>1, <1>2 DEF Scanning, Ahead, Reached, Seeking
<1>4. s.cur \in Int /\ s.from \in Nat /\ s.owed \in SUBSET Nat
  BY <1>1 DEF Sessions, Numbers
<1>5. s.straight => s.onward /\ s.newScan
  BY <1>2 DEF Flags
<1>6. s.straight /\ GapFree(a, b) =>
        /\ 1 <= s.cur
        /\ \A i \in next :
             LET art == ArticleAt(a, i) IN
             /\ art.num \in Nat /\ s.cur <= art.num /\ BaseNum[a] <= art.num
             /\ Shut(a, b, u, art.num) <=> ~CanRead(a, art, u)
             /\ \A k \in Nat : s.cur <= k /\ k < art.num /\ BaseNum[a] <= k => Shut(a, b, u, k)
        /\ next = {} => \A k \in Nat : s.cur <= k => ~Due(a, b, u, k)
  <2> SUFFICES ASSUME s.straight, GapFree(a, b)
               PROVE  /\ 1 <= s.cur
                      /\ \A i \in next :
                           LET art == ArticleAt(a, i) IN
                           /\ art.num \in Nat /\ s.cur <= art.num /\ BaseNum[a] <= art.num
                           /\ Shut(a, b, u, art.num) <=> ~CanRead(a, art, u)
                           /\ \A k \in Nat : s.cur <= k /\ k < art.num /\ BaseNum[a] <= k
                                => Shut(a, b, u, k)
                      /\ next = {} => \A k \in Nat : s.cur <= k => ~Due(a, b, u, k)
    OBVIOUS
  <2>1. 1 <= s.cur /\ s.cur \in Int /\ s.onward = TRUE
    <3>1. s.onward \in BOOLEAN
      BY <1>1 DEF Sessions
    <3> QED BY <1>3, <1>4, <1>5, <3>1
  <2>2. next = NextActive(a, s.cur, TRUE)
    BY <2>1
  <2> HIDE DEF next, s
  <2> QED BY <1>1, <2>1, <2>2, NextFacts
<1>7. CASE next = {} /\ t = Leaves(s, "next") /\ UNCHANGED shown
  <2>1. CASE ~s.straight
    BY <1>1, <1>2, <1>7, <2>1, LeavesLoose, ShownStays
  <2>2. CASE s.straight
    <3>1. CASE t = Quiet
      BY <1>7, <3>1, QuietRead, ShownStays
    <3>2. CASE /\ t.at = "area" /\ t.newScan = s.newScan /\ t.straight = s.straight
               /\ t.onward = s.onward /\ t.individual = s.individual /\ t.forward = s.forward
               /\ t.task = s.task /\ t.back = s.back /\ t.first = s.first
               /\ t.area = a /\ t.owed = s.owed /\ t.ended = s.straight
      <4> HIDE DEF t
      <4>1. Flags(t)
        BY <1>2, <3>2 DEF Flags
      <4>2. ASSUME GapFree(a, b), NEW k \in s.owed
            PROVE  <<a, k>> \in shown[u]
        <5>1. k \in Nat /\ s.from <= k /\ Due(a, b, u, k)
          BY <1>3, <1>4, <2>2, <4>2
        <5>2. ~(s.cur <= k)
          BY <1>6, <1>7, <2>2, <4>2, <5>1
        <5>3. BaseNum[a] <= k
          <6>1. BaseNum[a] \in Nat /\ DOMAIN b = 1..Len(b)
            BY <1>1, MessageAreasAssumption DEF AreaTypes
          <6>2. Slot(a, k) \in 1..Len(b)
            BY <5>1, <6>1 DEF Due
          <6>3. 1 <= Slot(a, k)
            BY <6>2
          <6> QED BY <5>1, <6>1, <6>3 DEF Slot
        <5> QED BY <1>3, <1>4, <2>2, <4>2, <5>1, <5>2, <5>3 DEF Covered, Due
      <4>3. Scanned(t, base, shown[u])
        BY <1>1, <3>2, <4>2 DEF Scanned
      <4>4. ReadOK(t, u, base, shown[u], strayed)
        BY <3>2, <4>1, <4>3 DEF ReadOK, Scanning, Seeking, Showing
      <4> QED BY <1>7, <4>4, ShownStays DEF t
    <3> QED BY <1>1, <1>7, <3>1, <3>2, LeavesFacts
  <2> QED BY <2>1, <2>2
<1>8. ASSUME NEW i \in next, UNCHANGED shown,
             (s.newScan /\ ArticleAt(a, i).num < s.from) \/ ~CanRead(a, ArticleAt(a, i), u),
             \/ PastFirst(Onward(s, ArticleAt(a, i).num)) /\ t = Leaves(s, "next")
             \/ ~PastFirst(Onward(s, ArticleAt(a, i).num))
                  /\ t = [s EXCEPT !.cur = Onward(s, ArticleAt(a, i).num)]
      PROVE  ReadOK(t, u, base, shown'[u], strayed) /\ ShownGrows
  <2> DEFINE art == ArticleAt(a, i)
  <2> DEFINE on == Onward(s, art.num)
  <2>1. CASE ~s.straight /\ t = Leaves(s, "next")
    BY <1>1, <1>2, <1>8, <2>1, LeavesLoose, ShownStays
  <2>2. CASE t = [s EXCEPT !.cur = on]
    <3>1. Same(s, t) /\ t.at = "find" /\ t.cur = on /\ t.back = s.back
      BY <1>1, <2>2 DEF Same, Sessions
    <3> HIDE DEF t
    <3>2. Flags(t)
      BY <1>1, <1>2, <3>1 DEF Flags, Same
    <3>3. ~t.ended /\ t.straight = s.straight /\ t.area = a /\ t.from = s.from /\ t.owed = s.owed
      BY <1>2, <3>1 DEF Same
    <3>4. CASE ~s.straight
      BY <1>8, <3>1, <3>2, <3>3, <3>4, LooseOK, ShownStays DEF t
    <3>5. CASE s.straight
      <4>1. ASSUME GapFree(a, b)
            PROVE  on = art.num + 1 /\ s.from <= on /\ Covered(a, b, u, shown[u], s.from, on - 1)
        <5>1. /\ art.num \in Nat /\ s.cur <= art.num
              /\ Shut(a, b, u, art.num) <=> ~CanRead(a, art, u)
              /\ \A k \in Nat : s.cur <= k /\ k < art.num /\ BaseNum[a] <= k => Shut(a, b, u, k)
          BY <1>6, <3>5, <4>1
        <5>2. on = art.num + 1
          BY <1>5, <3>5 DEF Onward
        <5>3. s.from <= s.cur /\ Covered(a, b, u, shown[u], s.from, s.cur - 1)
          BY <1>3, <3>5, <4>1
        <5> HIDE DEF art, on
        <5>4. ~CanRead(a, art, u)
          BY <1>4, <1>8, <5>1, <5>3 DEF art
        <5>5. ASSUME NEW k \in Nat, s.from <= k, k <= on - 1, BaseNum[a] <= k, ~Shut(a, b, u, k)
              PROVE  <<a, k>> \in shown[u]
          <6>1. k <= art.num /\ k # art.num
            BY <5>1, <5>2, <5>4, <5>5
          <6>2. ~(s.cur <= k)
            BY <5>1, <5>5, <6>1
          <6>3. k <= s.cur - 1
            BY <1>4, <6>2
          <6> QED BY <5>3, <5>5, <6>3 DEF Covered
        <5>6. Covered(a, b, u, shown[u], s.from, on - 1)
          BY <5>5 DEF Covered
        <5>7. s.from <= on
          BY <1>4, <5>1, <5>2, <5>3
        <5> QED BY <5>2, <5>6, <5>7
      <4> HIDE DEF on
      <4>2. Ahead(t) = on /\ Reached(t) = on - 1
        BY <3>1 DEF Ahead, Reached, Seeking
      <4>3. Scanning(t, u, base, shown[u], strayed)
        BY <1>3, <3>1, <3>3, <3>5, <4>1, <4>2 DEF Scanning
      <4>4. ReadOK(t, u, base, shown[u], strayed)
        BY <3>1, <3>2, <3>3, <4>3 DEF ReadOK, Scanned
      <4> QED BY <1>8, <4>4, ShownStays DEF t
    <3> QED BY <3>4, <3>5
  <2>3. CASE s.straight /\ PastFirst(on) /\ t = Leaves(s, "next")
    <3>1. on = art.num + 1 /\ art.num \in Nat
      <4>1. art.num \in Nat
        <5>1. i \in Active(a)
          BY NextActiveFacts
        <5>2. i \in DOMAIN base[a]
          BY <5>1 DEF Active
        <5> QED BY <1>1, <5>2, ArticleType, NumberNat
      <4> QED BY <1>5, <2>3, <4>1 DEF Onward
    <3>2. ~PastFirst(on)
      BY <3>1 DEF PastFirst
    <3> QED BY <2>3, <3>2
  <2> QED BY <1>8, <2>1, <2>2, <2>3
<1>9. ASSUME NEW i \in next, CanRead(a, ArticleAt(a, i), u),
             t = [s EXCEPT !.at = "bar", !.art = ArticleAt(a, i)],
             shown' = [shown EXCEPT ![u] = @ \cup {<<a, ArticleAt(a, i).num>>}]
      PROVE  ReadOK(t, u, base, shown'[u], strayed) /\ ShownGrows
  <2> DEFINE art == ArticleAt(a, i)
  <2>0. art.num \in Nat
    <3>1. i \in Active(a)
      BY NextActiveFacts
    <3>2. i \in DOMAIN base[a]
      BY <3>1 DEF Active
    <3> QED BY <1>1, <3>2, ArticleType, NumberNat
  <2>1. Same(s, t) /\ t.at = "bar" /\ t.art = art /\ t.back = s.back
    BY <1>1, <1>9 DEF Same, Sessions
  <2>7. shown' = [shown EXCEPT ![u] = @ \cup {<<a, art.num>>}]
    BY <1>9
  <2> HIDE DEF t, art
  <2>2. ShownGrows /\ shown'[u] = shown[u] \cup {<<a, art.num>>}
    <3> DEFINE num == art.num
    <3>1. num \in Nat /\ shown' = [shown EXCEPT ![u] = @ \cup {<<a, num>>}]
      BY <2>0, <2>7
    <3> HIDE DEF num, u, a
    <3>2. u \in Users /\ a \in Areas
      BY <1>1
    <3>3. ShownGrows /\ shown'[u] = shown[u] \cup {<<a, num>>}
      BY <3>1, <3>2, ShowGrows, Zenon
    <3> QED BY <3>3 DEF num
  <2>3. Flags(t)
    BY <1>1, <1>2, <2>1 DEF Flags, Same
  <2>4. ~t.ended /\ t.straight = s.straight /\ t.area = a /\ t.from = s.from /\ t.owed = s.owed
    BY <1>2, <2>1 DEF Same
  <2>5. CASE ~s.straight
    BY <2>1, <2>2, <2>3, <2>4, <2>5, LooseOK DEF t
  <2>6. CASE s.straight
    <3>1. ASSUME GapFree(a, b)
          PROVE  s.from <= art.num /\ Covered(a, b, u, shown'[u], s.from, art.num)
      <4>1. /\ s.cur <= art.num
            /\ \A k \in Nat : s.cur <= k /\ k < art.num /\ BaseNum[a] <= k => Shut(a, b, u, k)
        BY <1>6, <2>6, <3>1 DEF art
      <4>2. s.from <= s.cur /\ Covered(a, b, u, shown[u], s.from, s.cur - 1)
        BY <1>3, <2>6, <3>1
      <4>3. ASSUME NEW k \in Nat, s.from <= k, k <= art.num, BaseNum[a] <= k, ~Shut(a, b, u, k)
            PROVE  <<a, k>> \in shown'[u]
        <5>1. CASE k = art.num
          BY <2>2, <5>1
        <5>2. CASE k # art.num
          <6>1. ~(s.cur <= k)
            BY <2>0, <4>1, <4>3, <5>2
          <6>2. k <= s.cur - 1
            BY <1>4, <6>1
          <6> QED BY <2>2, <4>2, <4>3, <6>2 DEF Covered
        <5> QED BY <5>1, <5>2
      <4>4. Covered(a, b, u, shown'[u], s.from, art.num)
        BY <4>3 DEF Covered
      <4> QED BY <1>4, <2>0, <4>1, <4>2, <4>4
    <3>2. <<u, a>> \notin strayed /\ GapFree(a, b) => Covered(a, b, u, shown'[u], 1, s.from - 1)
      BY <1>3, <2>2, <2>6 DEF Covered
    <3>3. Ahead(t) = art.num /\ Reached(t) = art.num
      BY <2>1 DEF Ahead, Reached, Seeking
    <3>4. Scanning(t, u, base, shown'[u], strayed)
      BY <1>3, <2>4, <2>6, <3>1, <3>2, <3>3 DEF Scanning
    <3> QED BY <2>1, <2>2, <2>3, <2>4, <3>4 DEF ReadOK, Scanned, t
  <2> QED BY <2>5, <2>6
<1> QED BY <1>7, <1>8, <1>9, FindForms

---------------------------------------------------------------------------
(* The other steps of a session. *)

\* Places a session writes at.
Writing == {"write", "attach", "upload", "save"}

LEMMA GoOn ==
  ASSUME NEW s, NEW t, NEW u, NEW b, NEW saw, NEW astray, NEW further, astray \subseteq further,
         ReadOK(s, u, b, saw, astray), Same(s, t), t.back = s.back,
         \/ s.at \in Writing /\ t.at \in Writing /\ t.cur = s.cur
         \/ s.at \in Showing /\ t.at \in Showing /\ t.art = s.art,
         t.at = "behind" => s.straight \/ <<u, s.area>> \in further
  PROVE  ReadOK(t, u, b, saw, further)
<1>1. Flags(s)
  BY DEF ReadOK
<1>2. Flags(t)
  BY <1>1 DEF Flags, Same, Writing, Showing
<1>3. Writing \subseteq Seeking
  BY DEF Writing, Seeking
<1> QED BY <1>2, <1>3, SameOK

\* From a message to the search for it, or for the one behind it.
LEMMA AheadOK ==
  ASSUME NEW s \in Sessions, NEW t, NEW u, NEW saw, NEW astray,
         ReadOK(s, u, base, saw, astray), Same(s, t), s.at \in Showing, t.at \in Seeking,
         t.cur = s.art.num \/ (t.cur = Onward(s, s.art.num)), Flags(t)
  PROVE  ReadOK(t, u, base, saw, astray)
<1> DEFINE a == s.area
<1>1. Flags(s) /\ Scanning(s, u, base, saw, astray) /\ Scanned(s, base, saw)
  BY DEF ReadOK
<1>2. ~s.ended
  BY <1>1 DEF Scanned, Showing
<1>3. s.art.num \in Nat /\ s.from \in Nat
  BY DEF Sessions, Messages
<1>4. s.at \notin Seeking /\ t.at # "behind"
  BY DEF Seeking, Showing
<1>5. /\ t.straight = s.straight /\ t.area = a /\ t.from = s.from /\ t.owed = s.owed
      /\ t.ended = s.ended
  BY DEF Same
<1>6. CASE ~s.straight
  BY <1>2, <1>4, <1>5, <1>6, LooseOK
<1>7. CASE s.straight
  <2>1. t.cur \in {s.art.num, s.art.num + 1}
    <3>1. s.onward
      BY <1>1, <1>7 DEF Flags
    <3> QED BY <3>1 DEF Onward
  <2>2. Ahead(t) = t.cur /\ Reached(t) = t.cur - 1
    BY DEF Ahead, Reached
  <2>3. ASSUME GapFree(a, base[a])
        PROVE  /\ 1 <= s.from /\ s.from <= t.cur
               /\ Covered(a, base[a], u, saw, s.from, t.cur - 1)
               /\ \A k \in s.owed : s.from <= k /\ Due(a, base[a], u, k)
               /\ <<u, a>> \notin astray => Covered(a, base[a], u, saw, 1, s.from - 1)
    <3>1. /\ 1 <= s.from /\ s.from <= s.art.num
          /\ Covered(a, base[a], u, saw, s.from, s.art.num)
          /\ \A k \in s.owed : s.from <= k /\ Due(a, base[a], u, k)
          /\ <<u, a>> \notin astray => Covered(a, base[a], u, saw, 1, s.from - 1)
      BY <1>1, <1>4, <1>7, <2>3 DEF Scanning, Ahead, Reached
    <3>2. s.from <= t.cur /\ \A k \in Nat : k <= t.cur - 1 => k <= s.art.num
      BY <1>3, <2>1, <3>1
    <3>3. Covered(a, base[a], u, saw, s.from, t.cur - 1)
      BY <3>1, <3>2 DEF Covered
    <3> QED BY <3>1, <3>2, <3>3
  <2>4. Scanning(t, u, base, saw, astray)
    BY <1>5, <2>2, <2>3 DEF Scanning
  <2> QED BY <1>2, <1>4, <1>5, <2>4 DEF ReadOK, Scanned
<1> QED BY <1>6, <1>7

LEMMA ReadOnRead ==
  ASSUME NEW s \in Sessions, s.at = "act", s.task # "mailbox", NEW u, NEW saw, NEW astray,
         ReadOK(s, u, base, saw, astray)
  PROVE  ReadOK(ReadOn(s), u, base, saw, astray)
<1> DEFINE on == Onward(s, s.art.num)
<1> DEFINE back == IF s.onward THEN s.art.num - 1 ELSE s.art.num + 1
<1> DEFINE find(cur) == [s EXCEPT !.at = "find", !.cur = cur, !.art = NoMessage, !.act = "next"]
<1> DEFINE turn == [find(back) EXCEPT !.onward = ~@, !.straight = FALSE]
<1> DEFINE write == [s EXCEPT !.at = "write", !.cur = on, !.back = "find"]
<1>1. Flags(s) /\ Scanned(s, base, saw) /\ s.art.num \in Nat
  BY DEF ReadOK, Sessions, Messages
<1>2. s.task = "read" /\ ~s.ended
  <2>1. s.task \in Tasks
    BY DEF Sessions
  <2> QED BY <1>1, <2>1 DEF Flags, Scanned, Tasks
<1>3. s.straight => ~s.individual /\ ~PastFirst(on)
  BY <1>1 DEF Flags, Onward, PastFirst
<1>4. \/ ReadOn(s) \in {Quiet, find(s.art.num), find(on), turn, write, Leaves(s, "last")}
      \/ ~s.straight /\ ReadOn(s) = Leaves(s, "next")
  BY <1>3 DEF ReadOn
<1> HIDE DEF on, back
<1>5. \A cur : Same(s, find(cur)) /\ find(cur).at = "find" /\ find(cur).cur = cur /\ find(cur).back = s.back
  BY DEF Same, Sessions
<1>6. Same(s, write) /\ write.at = "write" /\ write.cur = on /\ write.back = "find"
  BY DEF Same, Sessions
<1>7. /\ turn.at = "find" /\ turn.straight = FALSE /\ turn.newScan = s.newScan
      /\ turn.individual = s.individual /\ turn.forward = s.forward /\ turn.task = s.task
      /\ turn.ended = s.ended /\ turn.back = s.back
  <2>1. turn = [s EXCEPT !.at = "find", !.cur = back, !.art = NoMessage, !.act = "next",
                         !.onward = ~s.onward, !.straight = FALSE]
    BY DEF Sessions
  <2> HIDE DEF turn
  <2> QED BY <2>1 DEF Sessions
<1> HIDE DEF find, write, turn
<1>8. ReadOK(turn, u, base, saw, astray)
  <2>1. Flags(turn)
    BY <1>1, <1>2, <1>7 DEF Flags
  <2> QED BY <1>2, <1>7, <2>1, LooseOK
<1>9. ReadOK(write, u, base, saw, astray)
  <2>1. Flags(write)
    BY <1>1, <1>2, <1>6 DEF Flags, Same
  <2> QED BY <1>6, <2>1, AheadOK DEF on, Showing, Seeking
<1>10. ReadOK(find(s.art.num), u, base, saw, astray) /\ ReadOK(find(on), u, base, saw, astray)
  <2>1. \A cur : Flags(find(cur))
    <3> TAKE cur
    <3>1. Same(s, find(cur)) /\ find(cur).at = "find" /\ find(cur).back = s.back
      BY <1>5
    <3> QED BY <1>1, <1>2, <3>1 DEF Flags, Same
  <2>2. \A cur \in {s.art.num, on} : ReadOK(find(cur), u, base, saw, astray)
    <3> TAKE cur \in {s.art.num, on}
    <3>1. /\ Same(s, find(cur)) /\ find(cur).at = "find" /\ find(cur).cur = cur /\ Flags(find(cur))
      BY <1>5, <2>1
    <3> QED BY <3>1, AheadOK DEF on, Showing, Seeking
  <2> QED BY <2>2
<1>11. /\ ReadOK(Leaves(s, "last"), u, base, saw, astray)
       /\ ~s.straight => ReadOK(Leaves(s, "next"), u, base, saw, astray)
  BY <1>1, <1>2, LeavesLoose
<1> QED BY <1>4, <1>8, <1>9, <1>10, <1>11, QuietRead

\* The mailbox scans for nothing.
LEMMA HitOnRead ==
  ASSUME NEW s \in Sessions, s.at = "act", s.task = "mailbox", NEW u, NEW saw, NEW astray,
         ReadOK(s, u, base, saw, astray)
  PROVE  ReadOK(HitOn(s), u, base, saw, astray)
<1> DEFINE hit(i) == [s EXCEPT !.at = "hit", !.i = i, !.art = NoMessage, !.act = "next"]
<1> DEFINE write == [s EXCEPT !.at = "write", !.i = @ + 1, !.back = "hit"]
<1>1. Flags(s) /\ ~s.ended
  BY DEF ReadOK, Scanned
<1>2. HitOn(s) \in {Quiet, hit(s.i), hit(s.i - 1), hit(s.i + 1), write}
  BY DEF HitOn
<1>3. \A i : Same(s, hit(i)) /\ hit(i).at = "hit" /\ hit(i).back = s.back
  BY DEF Same, Sessions
<1>4. Same(s, write) /\ write.at = "write" /\ write.back = "hit"
  BY DEF Same, Sessions
<1> HIDE DEF hit, write
<1>5. ReadOK(write, u, base, saw, astray)
  <2>1. Flags(write) /\ ~write.ended /\ ~write.straight
    BY <1>1, <1>4 DEF Flags, Same
  <2> QED BY <1>4, <2>1, LooseOK
<1>6. ASSUME NEW i PROVE ReadOK(hit(i), u, base, saw, astray)
  <2>1. Same(s, hit(i)) /\ hit(i).at = "hit" /\ hit(i).back = s.back
    BY <1>3
  <2>2. Flags(hit(i)) /\ ~hit(i).ended /\ ~hit(i).straight
    BY <1>1, <2>1 DEF Flags, Same
  <2> QED BY <2>1, <2>2, LooseOK
<1> QED BY <1>2, <1>5, <1>6, QuietRead

\* What was written is done with: the reading goes on where it was.
LEMMA BackRead ==
  ASSUME NEW s \in Sessions, s.at \in Writing, NEW u, NEW saw, NEW astray,
         ReadOK(s, u, base, saw, astray)
  PROVE  ReadOK(Back(s), u, base, saw, astray)
<1> DEFINE t == [s EXCEPT !.at = s.back, !.back = "menu", !.post = NoMessage, !.art = NoMessage,
                          !.act = "next"]
<1>1. Back(s) = Quiet \/ (s.back # "menu" /\ Back(s) = t)
  BY DEF Back
<1>2. s.back \in {"menu", "find", "hit"}
  BY DEF Sessions
<1>3. Same(s, t) /\ t.at = s.back /\ t.back = "menu" /\ t.cur = s.cur
  BY DEF Same, Sessions
<1> HIDE DEF t
<1>4. Flags(s) /\ ~s.ended
  BY DEF ReadOK, Scanned, Writing
<1>5. CASE s.back = "find"
  <2>1. Flags(t)
    BY <1>3, <1>4, <1>5 DEF Flags, Same
  <2> QED BY <1>1, <1>3, <1>5, <2>1, SameOK, QuietRead DEF Seeking, Writing
<1>6. CASE s.back = "hit"
  <2>1. Flags(t) /\ ~t.ended /\ ~t.straight
    BY <1>3, <1>4, <1>6 DEF Flags, Same
  <2> QED BY <1>1, <1>3, <1>6, <2>1, LooseOK, QuietRead
<1> QED BY <1>1, <1>2, <1>5, <1>6, QuietRead

---------------------------------------------------------------------------
(* A step of a session. *)

ReadersHere == ShownType /\ ReadersOK /\ BehindPointers

\* What holds of the session after its own step, of the messages before it.
Owns(n) ==
  /\ ReadOK(bbs'[n], Me(n), base, shown'[Me(n)], strayed')
  /\ ShownGrows /\ strayed \subseteq strayed'

LEMMA OwnStays ==
  ASSUME TypeOK, ReadersHere, NEW n \in Nodes, NEW t, bbs'[n] = t, UNCHANGED <<shown, strayed>>,
         ReadOK(t, Me(n), base, shown[Me(n)], strayed)
  PROVE  Owns(n)
BY ShownStays DEF Owns, ReadersHere

LEMMA Mine ==
  ASSUME TypeOK, SessionInv, ReadersHere, NEW n \in Nodes
  PROVE  /\ bbs[n] \in Sessions /\ Located(bbs[n])
         /\ ReadOK(bbs[n], Me(n), base, shown[Me(n)], strayed) /\ Flags(bbs[n])
         /\ bbs[n].ended => bbs[n].at = "area"
BY Here DEF OK, ReadersHere, ReadersOK, ReadOK, Scanned

LEMMA CommandOwns ==
  ASSUME TypeOK, SessionInv, ReadersHere, NEW n \in Nodes, Commands(n)
  PROVE  Owns(n)
<1>1. UNCHANGED <<shown, strayed>>
  BY DEF Commands, ChangeMessageArea, ToggleCombined, Read, CheckMailBox, Post, History
<1>2. \A t : Goto(n, t) => bbs'[n] = t
  BY GoesTo
<1>3. CASE UNCHANGED bbs
  BY <1>1, <1>3, Mine, OwnStays
<1>4. CASE Read(n)
  <2>1. PICK list, combined :
          bbs'[n] = [Quiet EXCEPT !.at = "area", !.task = "read", !.list = list, !.i = 1,
                                  !.combined = combined, !.first = TRUE]
    BY <1>2, <1>4 DEF Read
  <2>2. Flags(bbs'[n]) /\ ~bbs'[n].ended /\ ~bbs'[n].straight /\ bbs'[n].at = "area"
    BY <2>1 DEF Quiet, Flags
  <2> QED BY <1>1, <2>2, LooseOK, OwnStays
<1>5. CASE CheckMailBox(n)
  <2>1. PICK hits : bbs'[n] = [Quiet EXCEPT !.at = "hit", !.task = "mailbox", !.hits = hits, !.i = 1]
    BY <1>2, <1>5 DEF CheckMailBox
  <2>2. Flags(bbs'[n]) /\ ~bbs'[n].ended /\ ~bbs'[n].straight /\ bbs'[n].at = "hit"
    BY <2>1 DEF Quiet, Flags
  <2> QED BY <1>1, <2>2, LooseOK, OwnStays
<1>6. CASE Post(n)
  <2>1. PICK area : bbs'[n] = [Quiet EXCEPT !.at = "write", !.act = "enter", !.area = area]
    BY <1>2, <1>6 DEF Post
  <2>2. Flags(bbs'[n]) /\ ~bbs'[n].ended /\ ~bbs'[n].straight /\ bbs'[n].at = "write"
    BY <2>1 DEF Quiet, Flags
  <2> QED BY <1>1, <2>2, LooseOK, OwnStays
<1> QED BY <1>3, <1>4, <1>5, <1>6 DEF Commands, ChangeMessageArea, ToggleCombined

LEMMA BeginOwns ==
  ASSUME TypeOK, ReadersHere, NEW n \in Nodes, NEW s \in Sessions, NEW a \in Areas,
         NEW start \in Nat, ~s.ended, ~s.first, Flags(s), s.at \in {"area", "ask"}
  PROVE  ReadOK(Begin(n, s, a, start), Me(n), base, shown[Me(n)], strayed)
<1>1. <<Me(n), a>> \notin strayed /\ GapFree(a, base[a]) =>
        Covered(a, base[a], Me(n), shown[Me(n)], 1, LastRead(a, Me(n)))
  BY MeIsUser DEF ReadersHere, BehindPointers
<1>2. /\ s.task = "read" /\ s.back # "hit"
      /\ s.newScan => s.forward /\ ~s.individual
      /\ s.straight => s.newScan /\ s.onward
  BY DEF Flags
<1>3. AreaTypes
  BY DEF TypeOK
<1> QED BY <1>1, <1>2, <1>3, BeginRead

LEMMA AreaOwns ==
  ASSUME TypeOK, SessionInv, ReadersHere, NEW n \in Nodes, Area(n)
  PROVE  Owns(n)
<1> DEFINE s == bbs[n]
<1> DEFINE a == s.list[s.i]
<1> DEFINE high == [s EXCEPT !.high = High(a), !.ended = FALSE]
<1> DEFINE over == [s EXCEPT !.i = @ + 1, !.ended = FALSE]
<1> DEFINE ask == [high EXCEPT !.at = "ask"]
<1>1. s \in Sessions /\ s.at = "area" /\ Flags(s) /\ UNCHANGED <<shown, strayed>>
  BY Mine DEF Area, At, Only, History
<1>2. \/ bbs'[n] = Quiet
      \/ bbs'[n] = over
      \/ /\ Accessible(a, Me(n), FALSE, 0)
         /\ \/ s.first /\ bbs'[n] = ask
            \/ ~s.first /\ bbs'[n] = Begin(n, high, a, 0)
  <2>1. \A t : Goto(n, t) => bbs'[n] = t
    BY GoesTo
  <2> QED BY <2>1 DEF Area
<1>3. CASE bbs'[n] = Quiet
  BY <1>1, <1>3, QuietRead, OwnStays
<1>4. CASE bbs'[n] = over
  <2>1. /\ over.at = "area" /\ over.newScan = s.newScan /\ over.straight = s.straight
        /\ over.onward = s.onward /\ over.individual = s.individual /\ over.forward = s.forward
        /\ over.task = s.task /\ over.back = s.back /\ over.first = s.first /\ ~over.ended
    BY <1>1 DEF Sessions
  <2> HIDE DEF over
  <2>2. Flags(over)
    BY <1>1, <2>1 DEF Flags
  <2>3. ReadOK(over, Me(n), base, shown[Me(n)], strayed)
    BY <2>1, <2>2, LooseOK DEF Seeking, Showing
  <2> QED BY <1>1, <1>4, <2>3, OwnStays
<1>5. ASSUME Accessible(a, Me(n), FALSE, 0)
      PROVE  /\ high \in Sessions /\ a \in Areas /\ Flags(high) /\ ~high.ended
             /\ high.at = "area" /\ high.first = s.first /\ high.straight = s.straight
  <2>1. a \in Areas
    BY <1>5, MeIsUser, ReadableArea
  <2>2. High(a) \in Nat
    BY <2>1, HighNat DEF TypeOK
  <2>3. high \in Sessions
    BY <1>1, <2>2 DEF Sessions
  <2>4. /\ high.at = "area" /\ high.newScan = s.newScan /\ high.straight = s.straight
        /\ high.onward = s.onward /\ high.individual = s.individual /\ high.forward = s.forward
        /\ high.task = s.task /\ high.back = s.back /\ high.first = s.first /\ ~high.ended
    BY <1>1 DEF Sessions
  <2> HIDE DEF high
  <2>5. Flags(high)
    BY <1>1, <2>4 DEF Flags
  <2> QED BY <2>1, <2>3, <2>4, <2>5
<1>6. CASE Accessible(a, Me(n), FALSE, 0) /\ s.first /\ bbs'[n] = ask
  <2> HIDE DEF high
  <2>1. /\ ask.at = "ask" /\ ask.newScan = high.newScan /\ ask.straight = high.straight
        /\ ask.onward = high.onward /\ ask.individual = high.individual
        /\ ask.forward = high.forward /\ ask.task = high.task /\ ask.back = high.back
        /\ ask.first = high.first /\ ask.ended = high.ended
    BY <1>5, <1>6 DEF Sessions
  <2> HIDE DEF ask
  <2>2. Flags(ask) /\ ~ask.ended
    BY <1>5, <1>6, <2>1 DEF Flags
  <2>3. ReadOK(ask, Me(n), base, shown[Me(n)], strayed)
    BY <2>1, <2>2, LooseOK DEF Seeking, Showing
  <2> QED BY <1>1, <1>6, <2>3, OwnStays
<1>7. CASE Accessible(a, Me(n), FALSE, 0) /\ ~s.first /\ bbs'[n] = Begin(n, high, a, 0)
  <2> HIDE DEF high, a
  <2>1. ReadOK(Begin(n, high, a, 0), Me(n), base, shown[Me(n)], strayed)
    BY <1>5, <1>7, BeginOwns
  <2> QED BY <1>1, <1>7, <2>1, OwnStays
<1> QED BY <1>2, <1>3, <1>4, <1>6, <1>7

LEMMA AskedOwns ==
  ASSUME TypeOK, SessionInv, ReadersHere, NEW n \in Nodes, Asked(n)
  PROVE  Owns(n)
<1> DEFINE s == bbs[n]
<1> DEFINE a == s.list[s.i]
<1>1. /\ s \in Sessions /\ s.at = "ask" /\ Flags(s) /\ ~s.ended /\ a \in Areas
      /\ UNCHANGED <<shown, strayed>>
  BY Mine DEF Asked, At, Only, History, Located
<1>2. PICK type \in {"forward", "reverse", "individual", "new", "quit"} :
        \E start \in IF type \in {"new", "quit"} THEN {0} ELSE 0..s.high :
          Goto(n, IF type = "quit" \/ (type = "individual" /\ start = 0) THEN Quiet
                  ELSE Begin(n, [s EXCEPT !.first = FALSE, !.newScan = type = "new",
                                          !.individual = type = "individual",
                                          !.forward = type # "reverse"], a, start))
  BY DEF Asked
<1>3. PICK new \in BOOLEAN, one \in BOOLEAN, forward \in BOOLEAN :
        new = (type = "new") /\ one = (type = "individual") /\ forward = (type # "reverse")
  OBVIOUS
<1>4. new => ~one /\ forward
  BY <1>3
<1> DEFINE t == [s EXCEPT !.first = FALSE, !.newScan = new, !.individual = one, !.forward = forward]
<1>5. PICK start \in IF type \in {"new", "quit"} THEN {0} ELSE 0..s.high :
        Goto(n, Quiet) \/ Goto(n, Begin(n, t, a, start))
  BY <1>2, <1>3
<1>6. start \in Nat
  <2>1. s.high \in Nat
    BY <1>1 DEF Sessions
  <2> QED BY <1>5, <2>1
<1>7. t \in Sessions
  BY <1>1 DEF Sessions
<1>8. /\ t.first = FALSE /\ t.newScan = new /\ t.individual = one /\ t.forward = forward
      /\ t.straight = s.straight /\ t.onward = s.onward /\ t.task = s.task /\ t.back = s.back
      /\ t.at = "ask" /\ t.ended = s.ended
  BY <1>1 DEF Sessions
<1>9. bbs'[n] = Quiet \/ bbs'[n] = Begin(n, t, a, start)
  <2> HIDE DEF t
  <2> QED BY <1>5, GoesTo
<1>10. ~s.straight
  BY <1>1 DEF Flags
<1> HIDE DEF t, a
<1>11. Flags(t)
  BY <1>1, <1>4, <1>8, <1>10 DEF Flags
<1>12. ReadOK(Begin(n, t, a, start), Me(n), base, shown[Me(n)], strayed)
  BY <1>1, <1>6, <1>7, <1>8, <1>11, BeginOwns
<1> QED BY <1>1, <1>9, <1>12, QuietRead, OwnStays

LEMMA HitOwns ==
  ASSUME TypeOK, SessionInv, ReadersHere, NEW n \in Nodes, Hit(n)
  PROVE  Owns(n)
<1> DEFINE s == bbs[n]
<1> DEFINE h == s.hits[s.i]
<1> DEFINE over == [s EXCEPT !.i = @ + 1]
<1> DEFINE show(i) == [s EXCEPT !.at = "bar", !.area = h.area, !.art = ArticleAt(h.area, i)]
<1>1. /\ s \in Sessions /\ s.at = "hit" /\ Flags(s) /\ ~s.ended /\ ~s.straight
      /\ UNCHANGED strayed /\ ShownType /\ Me(n) \in Users
  BY Mine, MeIsUser DEF Hit, At, Flags, ReadersHere
<1>2. \/ UNCHANGED shown /\ bbs'[n] \in {Quiet, over}
      \/ /\ s.i \in DOMAIN s.hits
         /\ \E i \in FindMsg(h.area, h.num) :
              /\ bbs'[n] = show(i)
              /\ shown' = [shown EXCEPT ![Me(n)] = @ \cup {<<h.area, ArticleAt(h.area, i).num>>}]
  <2>1. \A t : Goto(n, t) => bbs'[n] = t
    BY GoesTo
  <2> QED BY <2>1 DEF Hit
<1>3. CASE UNCHANGED shown /\ bbs'[n] = Quiet
  BY <1>1, <1>3, QuietRead, OwnStays
<1>4. CASE UNCHANGED shown /\ bbs'[n] = over
  <2>1. Same(s, over) /\ over.at = "hit" /\ over.back = s.back
    BY <1>1 DEF Same, Sessions
  <2> HIDE DEF over
  <2>2. Flags(over) /\ ~over.ended /\ ~over.straight
    BY <1>1, <2>1 DEF Flags, Same
  <2>3. ReadOK(over, Me(n), base, shown[Me(n)], strayed)
    BY <2>1, <2>2, LooseOK
  <2> QED BY <1>1, <1>4, <2>3, OwnStays
<1>5. ASSUME s.i \in DOMAIN s.hits, NEW i \in FindMsg(h.area, h.num), bbs'[n] = show(i),
             shown' = [shown EXCEPT ![Me(n)] = @ \cup {<<h.area, ArticleAt(h.area, i).num>>}]
      PROVE  Owns(n)
  <2>1. h.area \in Areas
    <3>1. s.hits \in Seq(MailHits)
      BY <1>1 DEF Sessions
    <3>2. h \in MailHits
      BY <1>5, <3>1
    <3> QED BY <3>2 DEF MailHits
  <2>2. i \in DOMAIN base[h.area]
    BY FindMsgFacts DEF Active
  <2>3. ArticleAt(h.area, i).num \in Nat
    BY <2>1, <2>2, ArticleType, NumberNat DEF TypeOK
  <2>4. ShownGrows
    <3> DEFINE a == h.area
    <3> DEFINE num == ArticleAt(h.area, i).num
    <3>1. a \in Areas /\ num \in Nat /\ shown' = [shown EXCEPT ![Me(n)] = @ \cup {<<a, num>>}]
      BY <1>5, <2>1, <2>3
    <3> HIDE DEF a, num
    <3> QED BY <1>1, <3>1, ShowGrows, Zenon
  <2> DEFINE t == show(i)
  <2>5. /\ t.at = "bar" /\ t.newScan = s.newScan /\ t.straight = s.straight
        /\ t.individual = s.individual /\ t.forward = s.forward
        /\ t.task = s.task /\ t.back = s.back /\ t.ended = s.ended
    BY <1>1 DEF Sessions
  <2>6. bbs'[n] = t
    BY <1>5
  <2> HIDE DEF t
  <2>7. Flags(t) /\ ~t.ended /\ ~t.straight
    BY <1>1, <2>5 DEF Flags
  <2>8. ReadOK(t, Me(n), base, shown'[Me(n)], strayed')
    BY <2>5, <2>7, LooseOK
  <2> QED BY <1>1, <2>4, <2>6, <2>8 DEF Owns
<1> QED BY <1>2, <1>3, <1>4, <1>5

\* Steps around the message on the screen.
LEMMA BarOwns ==
  ASSUME TypeOK, SessionInv, ReadersHere, NEW n \in Nodes,
         \/ \E act : Bar(n, act)
         \/ ListFiles(n) \/ KillFiles(n) \/ Received(n)
  PROVE  Owns(n)
<1> DEFINE s == bbs[n]
<1>1. /\ s \in Sessions /\ Flags(s) /\ ~s.ended
      /\ s.at \in {"bar", "files", "kill", "rcvd"} /\ UNCHANGED <<shown, strayed>>
  BY Mine DEF Bar, ListFiles, KillFiles, Received, At, Only, History
<1> DEFINE Nexts == IF s.at = "rcvd" THEN {"act"} ELSE {"files", "mark", "kill"}
<1>2. ASSUME NEW at, NEW key, NEW listed,
             bbs'[n] = [s EXCEPT !.at = at, !.act = key, !.listed = listed],
             at \in Nexts
      PROVE  Owns(n)
  <2> DEFINE t == [s EXCEPT !.at = at, !.act = key, !.listed = listed]
  <2>1. Same(s, t) /\ t.at = at /\ t.back = s.back /\ t.art = s.art
    BY <1>1 DEF Same, Sessions
  <2>2. bbs'[n] = t
    BY <1>2
  <2> HIDE DEF t
  <2>3. CASE s.at = "rcvd"
    <3>1. Flags(t) /\ ~t.ended /\ ~t.straight
      BY <1>1, <1>2, <2>1, <2>3 DEF Flags, Same
    <3>2. ReadOK(t, Me(n), base, shown[Me(n)], strayed)
      BY <1>2, <2>1, <2>3, <3>1, LooseOK
    <3> QED BY <1>1, <2>2, <3>2, OwnStays
  <2>4. CASE s.at # "rcvd"
    <3>1. s.at \in Showing /\ t.at \in Showing /\ t.at # "behind"
      BY <1>1, <1>2, <2>1, <2>4 DEF Showing
    <3>2. ReadOK(s, Me(n), base, shown[Me(n)], strayed)
      BY Mine
    <3>3. ReadOK(t, Me(n), base, shown[Me(n)], strayed)
      BY <2>1, <3>1, <3>2, GoOn
    <3> QED BY <1>1, <2>2, <3>3, OwnStays
  <2> QED BY <2>3, <2>4
<1>3. \A t : Goto(n, t) => bbs'[n] = t
  BY GoesTo
<1>4. /\ \A at, key : [s EXCEPT !.at = at, !.act = key]
                        = [s EXCEPT !.at = at, !.act = key, !.listed = s.listed]
      /\ \A at : [s EXCEPT !.at = at] = [s EXCEPT !.at = at, !.act = s.act, !.listed = s.listed]
      /\ \A at, listed : [s EXCEPT !.at = at, !.listed = listed]
                           = [s EXCEPT !.at = at, !.act = s.act, !.listed = listed]
  BY <1>1 DEF Sessions
<1>5. /\ s.at = "rcvd" => "act" \in Nexts
      /\ s.at # "rcvd" => /\ "files" \in Nexts
                          /\ "mark" \in Nexts
                          /\ "kill" \in Nexts
  OBVIOUS
<1> HIDE DEF Nexts
<1>6. ASSUME NEW act, Bar(n, act)
      PROVE  Owns(n)
  <2>1. s.at # "rcvd"
    BY <1>6 DEF Bar, At
  <2>2. CASE bbs'[n] = [s EXCEPT !.at = "files", !.act = "again"]
    <3>1. bbs'[n] = [s EXCEPT !.at = "files", !.act = "again", !.listed = s.listed]
      BY <1>4, <2>2
    <3> QED BY <1>2, <1>5, <2>1, <3>1, Zenon
  <2>3. CASE bbs'[n] = [s EXCEPT !.at = "mark", !.act = act]
    <3>1. bbs'[n] = [s EXCEPT !.at = "mark", !.act = act, !.listed = s.listed]
      BY <1>4, <2>3
    <3> QED BY <1>2, <1>5, <2>1, <3>1, Zenon
  <2> QED BY <1>3, <1>6, <2>2, <2>3 DEF Bar
<1>7. CASE ListFiles(n)
  <2>1. s.at # "rcvd"
    BY <1>7 DEF ListFiles, At
  <2>2. CASE bbs'[n] = [s EXCEPT !.at = "mark"]
    <3>1. bbs'[n] = [s EXCEPT !.at = "mark", !.act = s.act, !.listed = s.listed]
      BY <1>4, <2>2
    <3> QED BY <1>2, <1>5, <2>1, <3>1, Zenon
  <2>3. CASE bbs'[n] = [s EXCEPT !.at = "kill", !.listed = dirs[s.art.dir].files]
    <3> DEFINE listed == dirs[s.art.dir].files
    <3>1. bbs'[n] = [s EXCEPT !.at = "kill", !.act = s.act, !.listed = listed]
      BY <1>4, <2>3
    <3> HIDE DEF listed
    <3> QED BY <1>2, <1>5, <2>1, <3>1, Zenon
  <2> QED BY <1>3, <1>7, <2>2, <2>3 DEF ListFiles
<1>8. CASE KillFiles(n)
  <2>1. s.at # "rcvd"
    BY <1>8 DEF KillFiles, At
  <2>2. bbs'[n] = [s EXCEPT !.at = "mark", !.listed = {}]
    BY <1>3, <1>8 DEF KillFiles
  <2>3. bbs'[n] = [s EXCEPT !.at = "mark", !.act = s.act, !.listed = {}]
    BY <1>4, <2>2
  <2> QED BY <1>2, <1>5, <2>1, <2>3, Zenon
<1>9. CASE Received(n)
  <2>1. "act" \in Nexts
    BY <1>5, <1>9 DEF Received, At
  <2>2. bbs'[n] = [s EXCEPT !.at = "act"]
    BY <1>3, <1>9 DEF Received
  <2>3. bbs'[n] = [s EXCEPT !.at = "act", !.act = s.act, !.listed = s.listed]
    BY <1>4, <2>2
  <2> QED BY <1>2, <2>1, <2>3, Zenon
<1> QED BY <1>6, <1>7, <1>8, <1>9

\* Setting the pointer: who does it elsewhere than in a scan says so.
LEMMA MarkOwns ==
  ASSUME TypeOK, SessionInv, ReadersHere, NEW n \in Nodes, Mark(n) \/ MarkBehind(n)
  PROVE  Owns(n)
<1> DEFINE s == bbs[n]
<1>1. /\ s \in Sessions /\ Flags(s) /\ ~s.ended /\ s.at \in {"mark", "behind"}
      /\ UNCHANGED shown /\ strayed \subseteq strayed'
      /\ ReadOK(s, Me(n), base, shown[Me(n)], strayed)
  BY Mine DEF Mark, MarkBehind, At
<1>2. PICK at, size :
        /\ bbs'[n] = [s EXCEPT !.at = at, !.size = size]
        /\ \/ at = "rcvd" /\ s.task = "mailbox"
           \/ at = "act"
           \/ at = "behind" /\ (s.straight \/ <<Me(n), s.area>> \in strayed')
  <2>1. \A t : Goto(n, t) => bbs'[n] = t
    BY GoesTo
  <2>2. CASE Mark(n)
    <3>1. \/ bbs'[n] = [s EXCEPT !.at = IF s.task = "mailbox" THEN "rcvd" ELSE "act"]
          \/ bbs'[n] = [s EXCEPT !.at = "behind", !.size = Len(jlr[s.area])]
      BY <2>1, <2>2 DEF Mark
    <3>2. s.straight \/ <<Me(n), s.area>> \in strayed'
      BY <2>2 DEF Mark
    <3>3. \A at : [s EXCEPT !.at = at] = [s EXCEPT !.at = at, !.size = s.size]
      BY <1>1 DEF Sessions
    <3> DEFINE on == IF s.task = "mailbox" THEN "rcvd" ELSE "act"
    <3>4. (on = "rcvd" /\ s.task = "mailbox") \/ on = "act"
      OBVIOUS
    <3>5. bbs'[n] = [s EXCEPT !.at = on] \/ bbs'[n] = [s EXCEPT !.at = "behind", !.size = Len(jlr[s.area])]
      BY <3>1
    <3> HIDE DEF on
    <3> QED BY <3>2, <3>3, <3>4, <3>5
  <2>3. CASE MarkBehind(n)
    <3> DEFINE on == IF s.task = "mailbox" THEN "rcvd" ELSE "act"
    <3>1. bbs'[n] = [s EXCEPT !.size = 0, !.at = on]
      BY <2>1, <2>3 DEF MarkBehind
    <3>2. (on = "rcvd" /\ s.task = "mailbox") \/ on = "act"
      OBVIOUS
    <3> HIDE DEF on
    <3>3. [s EXCEPT !.size = 0, !.at = on] = [s EXCEPT !.at = on, !.size = 0]
      BY <1>1 DEF Sessions
    <3> QED BY <3>1, <3>2, <3>3
  <2> QED BY <2>2, <2>3
<1> DEFINE t == [s EXCEPT !.at = at, !.size = size]
<1>3. Same(s, t) /\ t.at = at /\ t.back = s.back /\ t.art = s.art
  BY <1>1 DEF Same, Sessions
<1>4. bbs'[n] = t
  BY <1>2
<1> HIDE DEF t
<1>5. ReadOK(t, Me(n), base, shown[Me(n)], strayed')
  <2>1. CASE at = "rcvd"
    <3>1. Flags(t) /\ ~t.ended /\ ~t.straight
      BY <1>1, <1>2, <1>3, <2>1 DEF Flags, Same
    <3> QED BY <1>3, <2>1, <3>1, LooseOK
  <2>2. CASE at # "rcvd"
    <3>1. s.at \in Showing /\ t.at \in Showing
      BY <1>1, <1>2, <1>3, <2>2 DEF Showing
    <3>2. t.at = "behind" => s.straight \/ <<Me(n), s.area>> \in strayed'
      BY <1>2, <1>3
    <3> QED BY <1>1, <1>3, <3>1, <3>2, GoOn
  <2> QED BY <2>1, <2>2
<1>6. ShownGrows
  BY <1>1, ShownStays DEF ReadersHere
<1> QED BY <1>1, <1>4, <1>5, <1>6 DEF Owns

LEMMA ActOwns ==
  ASSUME TypeOK, SessionInv, ReadersHere, NEW n \in Nodes, Act(n)
  PROVE  Owns(n)
<1> DEFINE s == bbs[n]
<1>1. /\ s \in Sessions /\ s.at = "act" /\ UNCHANGED <<shown, strayed>>
      /\ ReadOK(s, Me(n), base, shown[Me(n)], strayed)
  BY Mine DEF Act, At, Only, History
<1>2. \/ s.task = "mailbox" /\ bbs'[n] = HitOn(s)
      \/ s.task # "mailbox" /\ bbs'[n] = ReadOn(s)
  <2>1. \A t : Goto(n, t) => bbs'[n] = t
    BY GoesTo
  <2> QED BY <2>1 DEF Act
<1> HIDE DEF s
<1> QED BY <1>1, <1>2, HitOnRead, ReadOnRead, OwnStays

\* What is written changes nothing of the reading it interrupts.
LEMMA WriteOwns ==
  ASSUME TypeOK, SessionInv, ReadersHere, NEW n \in Nodes,
         Write(n) \/ MakeDir(n) \/ (\E sent : UploadAttach(n, sent)) \/ Save(n)
  PROVE  Owns(n)
<1> DEFINE s == bbs[n]
<1>1. /\ s \in Sessions /\ s.at \in Writing /\ UNCHANGED <<shown, strayed>>
      /\ ReadOK(s, Me(n), base, shown[Me(n)], strayed)
  BY Mine DEF Write, MakeDir, UploadAttach, Save, At, Only, History, Writing
<1>2. \A t : Goto(n, t) => bbs'[n] = t
  BY GoesTo
<1>3. \A at \in Writing : \A post : Same(s, [s EXCEPT !.at = at, !.post = post])
        /\ [s EXCEPT !.at = at, !.post = post].at = at
        /\ [s EXCEPT !.at = at, !.post = post].back = s.back
        /\ [s EXCEPT !.at = at, !.post = post].cur = s.cur
  BY <1>1 DEF Same, Sessions
<1>4. ASSUME NEW at \in Writing, NEW post, bbs'[n] = [s EXCEPT !.at = at, !.post = post]
      PROVE  Owns(n)
  <2> DEFINE t == [s EXCEPT !.at = at, !.post = post]
  <2>1. Same(s, t) /\ t.at = at /\ t.back = s.back /\ t.cur = s.cur
    BY <1>3
  <2>2. bbs'[n] = t /\ at # "behind"
    BY <1>4 DEF Writing
  <2> HIDE DEF t
  <2>3. ReadOK(t, Me(n), base, shown[Me(n)], strayed)
    BY <1>1, <2>1, <2>2, GoOn
  <2> QED BY <1>1, <2>2, <2>3, OwnStays
<1>5. CASE bbs'[n] = Back(s)
  <2>1. ReadOK(Back(s), Me(n), base, shown[Me(n)], strayed)
    BY <1>1, BackRead
  <2> QED BY <1>1, <1>5, <2>1, OwnStays
<1>6. CASE Write(n)
  <2>1. \/ bbs'[n] = Back(s)
        \/ \E attach \in BOOLEAN : \E post :
             bbs'[n] = [s EXCEPT !.at = IF attach THEN "attach" ELSE "save", !.post = post]
    BY <1>2, <1>6 DEF Write
  <2>2. \A attach \in BOOLEAN : (IF attach THEN "attach" ELSE "save") \in Writing
    BY DEF Writing
  <2> QED BY <1>4, <1>5, <2>1, <2>2
<1>7. CASE MakeDir(n)
  <2>1. \/ bbs'[n] = [s EXCEPT !.at = "save"]
        \/ \E d : bbs'[n] = [s EXCEPT !.at = "upload", !.post.dir = d]
    BY <1>2, <1>7 DEF MakeDir
  <2>2. /\ [s EXCEPT !.at = "save"] = [s EXCEPT !.at = "save", !.post = s.post]
        /\ \A d : [s EXCEPT !.at = "upload", !.post.dir = d]
                    = [s EXCEPT !.at = "upload", !.post = [s.post EXCEPT !.dir = d]]
    BY <1>1 DEF Sessions
  <2> QED BY <1>4, <2>1, <2>2 DEF Writing
<1>8. CASE \E sent : UploadAttach(n, sent)
  <2>1. PICK sent : UploadAttach(n, sent)
    BY <1>8
  <2>2. ASSUME NEW fatt, NEW dir,
               bbs'[n] = [s EXCEPT !.at = "save", !.post.fatt = fatt, !.post.dir = dir]
        PROVE  Owns(n)
    <3>1. bbs'[n] = [s EXCEPT !.at = "save", !.post = [s.post EXCEPT !.fatt = fatt, !.dir = dir]]
      BY <1>1, <2>2 DEF Sessions
    <3> QED BY <1>4, <3>1 DEF Writing
  <2> QED BY <1>2, <2>1, <2>2 DEF UploadAttach
<1>9. CASE Save(n)
  BY <1>2, <1>5, <1>9 DEF Save
<1> QED BY <1>6, <1>7, <1>8, <1>9

LEMMA SessionOwns ==
  ASSUME TypeOK, SessionInv, ReadersHere, NEW n \in Nodes, Commands(n) \/ Proceeds(n)
  PROVE  Owns(n)
<1>1. CASE Commands(n)
  BY <1>1, CommandOwns
<1>2. CASE Find(n)
  <2>1. ReadOK(bbs'[n], Me(n), base, shown'[Me(n)], strayed) /\ ShownGrows
    BY <1>2, Mine, FindRead DEF ReadersHere
  <2>2. UNCHANGED strayed
    BY <1>2 DEF Find
  <2> QED BY <2>1, <2>2 DEF Owns
<1>3. CASE Proceeds(n) /\ ~Find(n)
  BY <1>3, AreaOwns, AskedOwns, HitOwns, BarOwns, MarkOwns, ActOwns, WriteOwns DEF Proceeds
<1> QED BY <1>1, <1>2, <1>3

---------------------------------------------------------------------------
(* What a step does to the pointers read and to the records in the making. *)

LEMMA InPlaceLate ==
  ASSUME NEW r, NEW s, NEW u, NEW size, Late(r, u, size),
         DOMAIN s = DOMAIN r, \A j \in DOMAIN r : s[j].who = r[j].who
  PROVE  Late(s, u, size)
BY DEF Late, ComesLast

LEMMA PutBehindAt ==
  ASSUME AreaTypes, NEW a \in Areas, NEW u \in Names, NEW num \in Nat, NEW size \in Nat,
         Late(jlr[a], u, size), PutBehind(a, u, num, size + 1)
  PROVE  /\ jlr' \in [Areas -> Seq(Records)]
         /\ \A b \in Areas : b # a => jlr'[b] = jlr[b]
         /\ \E p : PutAt(jlr[a], jlr'[a], u, num, p)
<1> DEFINE old == jlr[a]
<1> DEFINE at == size + 1
<1> DEFINE r == [who |-> u, num |-> num]
<1>1. jlr \in [Areas -> Seq(Records)] /\ old \in Seq(Records)
  BY DEF AreaTypes
<1>2. Len(old) \in Nat /\ DOMAIN old = 1..Len(old)
  BY <1>1
<1>3. jlr' = [jlr EXCEPT ![a] = IF at <= Len(old) THEN [old EXCEPT ![at] = r] ELSE Append(old, r)]
  BY DEF PutBehind
<1>4. r \in Records /\ r.who = u /\ r.num = num
  BY DEF Records
<1>5. /\ \A j \in DOMAIN old : old[j].who # u
      /\ \A j \in DOMAIN old : at <= j => ComesLast(old, j)
  BY <1>2 DEF Late
<1>6. at \in Nat
  OBVIOUS
<1> HIDE DEF r, at, old
<1>7. CASE at <= Len(old)
  <2> DEFINE t == [old EXCEPT ![at] = r]
  <2>1. at \in DOMAIN old
    BY <1>2, <1>7 DEF at
  <2>2. /\ t \in Seq(Records) /\ DOMAIN t = DOMAIN old \cup {at} /\ t[at] = r
        /\ \A j \in DOMAIN old : j # at => t[j] = old[j]
    <3>1. t \in Seq(Records)
      BY <1>1, <1>4, <2>1
    <3>2. DOMAIN t = DOMAIN old
      OBVIOUS
    <3>3. DOMAIN old = DOMAIN old \cup {at}
      BY <2>1
    <3>4. t[at] = r /\ \A j \in DOMAIN old : j # at => t[j] = old[j]
      BY <2>1
    <3> QED BY <3>1, <3>2, <3>3, <3>4
  <2>3. jlr' = [jlr EXCEPT ![a] = t]
    BY <1>3, <1>7
  <2> HIDE DEF t
  <2>4. PutAt(old, t, u, num, at)
    BY <1>4, <1>5, <1>6, <2>2 DEF PutAt
  <2>5. /\ jlr' \in [Areas -> Seq(Records)] /\ jlr'[a] = t
        /\ \A b \in Areas : b # a => jlr'[b] = jlr[b]
    BY <1>1, <2>2, <2>3
  <2> QED BY <2>4, <2>5 DEF old
<1>8. CASE ~(at <= Len(old))
  <2> DEFINE t == Append(old, r)
  <2> DEFINE p == Len(old) + 1
  <2>1. /\ t \in Seq(Records) /\ DOMAIN t = 1..p /\ t[p] = r
        /\ \A j \in DOMAIN old : t[j] = old[j]
    BY <1>1, <1>2, <1>4
  <2>2. DOMAIN t = DOMAIN old \cup {p} /\ p \in Nat /\ \A j \in DOMAIN old : ~(p <= j)
    BY <1>2, <2>1
  <2>3. jlr' = [jlr EXCEPT ![a] = t]
    BY <1>3, <1>8
  <2> HIDE DEF t, p
  <2>4. PutAt(old, t, u, num, p)
    BY <1>4, <1>5, <2>1, <2>2 DEF PutAt
  <2>5. /\ jlr' \in [Areas -> Seq(Records)] /\ jlr'[a] = t
        /\ \A b \in Areas : b # a => jlr'[b] = jlr[b]
    BY <1>1, <2>1, <2>3
  <2> QED BY <2>4, <2>5 DEF old
<1> QED BY <1>7, <1>8

\* A reader's pointer goes where he has been shown everything, or he has strayed.
LEMMA PointerGoes ==
  ASSUME TypeOK, SessionInv, ReadersHere, NEW n \in Nodes, bbs[n].at \in {"mark", "behind"},
         strayed \subseteq strayed', bbs[n].straight \/ <<Me(n), bbs[n].area>> \in strayed',
         \A b \in Areas : b # bbs[n].area => jlr'[b] = jlr[b],
         \A v \in Users :
           \/ Pointer(jlr'[bbs[n].area], v) \in {0, Pointer(jlr[bbs[n].area], v)}
           \/ v = Me(n) /\ Pointer(jlr'[bbs[n].area], v) = bbs[n].art.num
  PROVE  PointerShown(jlr', base, shown, strayed')
<1> DEFINE s == bbs[n]
<1>1. PointerShown(jlr, base, shown, strayed)
  BY PointerShownForm DEF ReadersHere
<1> SUFFICES ASSUME NEW u \in Users, NEW a \in Areas, <<u, a>> \notin strayed', GapFree(a, base[a])
             PROVE  Covered(a, base[a], u, shown[u], 1, Pointer(jlr'[a], u))
  BY DEF PointerShown
<1>2. <<u, a>> \notin strayed
  OBVIOUS
<1>3. Covered(a, base[a], u, shown[u], 1, Pointer(jlr[a], u))
  BY <1>1, <1>2 DEF PointerShown
<1>4. CASE Pointer(jlr'[a], u) = Pointer(jlr[a], u)
  BY <1>3, <1>4
<1>5. CASE Pointer(jlr'[a], u) = 0
  BY <1>5 DEF Covered
<1>6. CASE a = s.area /\ u = Me(n) /\ Pointer(jlr'[a], u) = s.art.num
  <2>1. s \in Sessions /\ ReadOK(s, u, base, shown[u], strayed)
    BY <1>6, Mine
  <2>2. s.from \in Nat /\ s.art.num \in Nat
    BY <2>1 DEF Sessions, Messages
  <2>3. s.straight
    BY <1>6
  <2>4. /\ Covered(a, base[a], u, shown[u], s.from, s.art.num)
        /\ Covered(a, base[a], u, shown[u], 1, s.from - 1)
    <3>1. s.at \in Showing /\ s.at \notin Seeking
      BY DEF Showing, Seeking
    <3>2. Scanning(s, u, base, shown[u], strayed)
      BY <2>1 DEF ReadOK
    <3> QED BY <1>2, <1>6, <2>3, <3>1, <3>2 DEF Scanning, Reached
  <2>5. Covered(a, base[a], u, shown[u], 1, s.art.num)
    <3> SUFFICES ASSUME NEW k \in Nat, 1 <= k, k <= s.art.num, BaseNum[a] <= k,
                        ~Shut(a, base[a], u, k)
                 PROVE  <<a, k>> \in shown[u]
      BY DEF Covered
    <3>1. s.from <= k \/ k <= s.from - 1
      BY <2>2
    <3> QED BY <2>4, <3>1 DEF Covered
  <2> QED BY <1>6, <2>5
<1> QED BY <1>4, <1>5, <1>6

\* Who else is about to add a record is not the one who sets his pointer.
LEMMA NotMine ==
  ASSUME NEW n \in Nodes, NEW m \in Nodes, m # n
  PROVE  Me(m) # Me(n)
BY MessageServicesAssumption DEF Me

LEMMA MarkReads ==
  ASSUME HandlesApart, TypeOK, SessionInv, ReadersHere, LateInv, NEW n \in Nodes, Mark(n)
  PROVE  LateInv' /\ PointerShown(jlr', base, shown, strayed')
<1> DEFINE s == bbs[n]
<1> DEFINE a == s.area
<1> DEFINE u == Me(n)
<1>1. /\ Moves(n) /\ bbs'[n].area = a /\ a \in Areas /\ s \in Sessions /\ u \in Users
      /\ bbs'[n].at = "behind" => RecordOf(a, u) = {} /\ UNCHANGED jlr
  BY MarkMoves, MeIsUser, Mine DEF Calm
<1>2. AreaTypes /\ jlr[a] \in Seq(Records)
  BY <1>1 DEF TypeOK, AreaTypes
<1>3. \A m \in Nodes : m # n => bbs'[m] = bbs[m]
  BY <1>1, MovesFacts
<1>4. \A m \in Nodes : bbs[m].at = "behind" =>
        bbs[m].area \in Areas /\ Late(jlr[bbs[m].area], Me(m), bbs[m].size)
  BY Mine DEF LateInv, Located
<1>5. s.at = "mark" /\ strayed \subseteq strayed' /\ (s.straight \/ <<u, a>> \in strayed')
  BY DEF Mark, At
<1>6. CASE UNCHANGED jlr
  <2>1. PointerShown(jlr', base, shown, strayed')
    BY <1>5, <1>6, PointerGoes
  <2>2. ASSUME NEW m \in Nodes, bbs'[m].at = "behind"
        PROVE  Late(jlr'[bbs'[m].area], Me(m), bbs'[m].size)
    <3>1. CASE m # n
      BY <1>3, <1>4, <1>6, <2>2, <3>1
    <3>2. CASE m = n
      <4>1. ~Known(jlr[a], u)
        BY <1>1, <1>2, <2>2, <3>2, NoRecord
      <4>2. bbs'[n].size = Len(jlr[a])
        <5> DEFINE on == IF s.task = "mailbox" THEN "rcvd" ELSE "act"
        <5>1. \/ bbs'[n] = [s EXCEPT !.at = on]
              \/ bbs'[n] = [s EXCEPT !.at = "behind", !.size = Len(jlr[a])]
          BY GoesTo DEF Mark
        <5>2. on # "behind"
          OBVIOUS
        <5> HIDE DEF on
        <5> QED BY <1>1, <2>2, <3>2, <5>1, <5>2 DEF Sessions
      <4>3. Late(jlr[a], u, Len(jlr[a]))
        BY <1>2, <4>1 DEF Late, Known
      <4> QED BY <1>1, <1>6, <3>2, <4>2, <4>3
    <3> QED BY <3>1, <3>2
  <2> QED BY <2>1, <2>2 DEF LateInv
<1>7. CASE SetInPlace(a, u, s.art.num) /\ bbs'[n].at # "behind"
  <2>1. s.art.num \in Nat
    BY <1>1 DEF Sessions, Messages
  <2>2. PICK k \in RecordOf(a, u) :
          /\ jlr' \in [Areas -> Seq(Records)]
          /\ \A b \in Areas : b # a => jlr'[b] = jlr[b]
          /\ DOMAIN jlr'[a] = DOMAIN jlr[a] /\ jlr'[a][k].num = s.art.num
          /\ \A j \in DOMAIN jlr[a] : /\ jlr'[a][j].who = jlr[a][j].who
                                      /\ j # k => jlr'[a][j].num = jlr[a][j].num
    BY <1>1, <1>2, <1>7, <2>1, InPlaceFacts
  <2>3. k \in DOMAIN jlr[a] /\ jlr[a][k].who = u
    BY DEF RecordOf, First
  <2>4. jlr'[a] \in Seq(Records)
    BY <1>1, <2>2
  <2>5. \A v \in Users : \/ Pointer(jlr'[a], v) = Pointer(jlr[a], v)
                         \/ v = u /\ Pointer(jlr'[a], v) = s.art.num
    <3> DEFINE old == jlr[a]
    <3> DEFINE new == jlr'[a]
    <3> DEFINE num == s.art.num
    <3>1. /\ DOMAIN new = DOMAIN old /\ new[k].num = num
          /\ \A j \in DOMAIN old : new[j].who = old[j].who /\ (j # k => new[j].num = old[j].num)
      BY <2>2
    <3>2. /\ old \in Seq(Records) /\ new \in Seq(Records) /\ u \in Users
          /\ k \in DOMAIN old /\ old[k].who = u
      BY <1>1, <1>2, <2>3, <2>4
    <3> HIDE DEF old, new, num, u
    <3>3. \A v \in Users : Pointer(new, v) = Pointer(old, v) \/ (v = u /\ Pointer(new, v) = num)
      BY <3>1, <3>2, InPlacePointer
    <3> QED BY <3>3 DEF old, new, num
  <2>6. PointerShown(jlr', base, shown, strayed')
    BY <1>5, <2>2, <2>5, PointerGoes
  <2>7. ASSUME NEW m \in Nodes, bbs'[m].at = "behind"
        PROVE  Late(jlr'[bbs'[m].area], Me(m), bbs'[m].size)
    <3>1. bbs'[m] = bbs[m]
      BY <1>3, <1>7, <2>7
    <3>2. Late(jlr[bbs[m].area], Me(m), bbs[m].size) /\ bbs[m].area \in Areas
      BY <1>4, <2>7, <3>1
    <3>3. CASE bbs[m].area = a
      BY <2>2, <3>1, <3>2, <3>3, InPlaceLate
    <3>4. CASE bbs[m].area # a
      BY <2>2, <3>1, <3>2, <3>4
    <3> QED BY <3>3, <3>4
  <2> QED BY <2>6, <2>7 DEF LateInv
<1>8. UNCHANGED jlr \/ (SetInPlace(a, u, s.art.num) /\ bbs'[n].at # "behind")
  <2>1. CASE RecordOf(a, u) # {}
    <3>1. SetInPlace(a, u, s.art.num)
      BY <2>1 DEF Mark
    <3> QED BY <1>1, <2>1, <3>1
  <2>2. CASE RecordOf(a, u) = {}
    BY <2>2 DEF Mark
  <2> QED BY <2>1, <2>2
<1> QED BY <1>6, <1>7, <1>8

LEMMA MarkBehindReads ==
  ASSUME HandlesApart, TypeOK, SessionInv, ReadersHere, LateInv, NEW n \in Nodes, MarkBehind(n)
  PROVE  LateInv' /\ PointerShown(jlr', base, shown, strayed')
<1> DEFINE s == bbs[n]
<1> DEFINE a == s.area
<1> DEFINE u == Me(n)
<1> DEFINE num == s.art.num
<1>1. /\ Moves(n) /\ bbs'[n].at # "behind" /\ s \in Sessions /\ u \in Users
      /\ s.at = "behind" /\ a \in Areas
  BY MarkBehindMoves, MeIsUser, Mine DEF Clean, Calm, MarkBehind, At, Located
<1>2. AreaTypes /\ jlr[a] \in Seq(Records)
  BY <1>1 DEF TypeOK, AreaTypes
<1>3. \A m \in Nodes : m # n => bbs'[m] = bbs[m]
  BY <1>1, MovesFacts
<1>4. \A m \in Nodes : bbs[m].at = "behind" =>
        bbs[m].area \in Areas /\ Late(jlr[bbs[m].area], Me(m), bbs[m].size)
  BY Mine DEF LateInv, Located
<1>5. UNCHANGED strayed /\ (s.straight \/ <<u, a>> \in strayed')
  BY <1>1, Mine DEF MarkBehind, ReadOK
<1>6. num \in Nat /\ s.size \in Nat /\ u \in Names
  BY <1>1, MessageAreasAssumption DEF Sessions, Messages
<1>7. PutBehind(a, u, num, s.size + 1)
  BY DEF MarkBehind
<1>8. /\ jlr' \in [Areas -> Seq(Records)]
      /\ \A b \in Areas : b # a => jlr'[b] = jlr[b]
      /\ \E p : PutAt(jlr[a], jlr'[a], u, num, p)
  BY <1>1, <1>2, <1>4, <1>6, <1>7, PutBehindAt
<1>9. PICK p : PutAt(jlr[a], jlr'[a], u, num, p)
  BY <1>8
<1>10. jlr'[a] \in Seq(Records)
  BY <1>1, <1>8
<1>11. \A v \in Users : \/ Pointer(jlr'[a], v) \in {0, Pointer(jlr[a], v)}
                        \/ v = u /\ Pointer(jlr'[a], v) = num
  <2> HIDE DEF a, u, num
  <2> QED BY <1>1, <1>2, <1>9, <1>10, PutPointer
<1>12. PointerShown(jlr', base, shown, strayed')
  BY <1>1, <1>5, <1>8, <1>11, PointerGoes
<1>13. ASSUME NEW m \in Nodes, bbs'[m].at = "behind"
       PROVE  Late(jlr'[bbs'[m].area], Me(m), bbs'[m].size)
  <2>1. m # n /\ bbs'[m] = bbs[m]
    BY <1>1, <1>3, <1>13
  <2>2. Late(jlr[bbs[m].area], Me(m), bbs[m].size) /\ bbs[m].area \in Areas
    BY <1>4, <1>13, <2>1
  <2>3. CASE bbs[m].area = a
    <3>1. Me(m) # u /\ Me(m) \in Users
      BY <2>1, NotMine, MeIsUser
    <3>2. Late(jlr[a], Me(m), bbs[m].size)
      BY <2>2, <2>3
    <3> HIDE DEF a, u, num
    <3>3. Late(jlr'[a], Me(m), bbs[m].size)
      BY <1>1, <1>2, <1>9, <1>10, <3>1, <3>2, PutLate
    <3> QED BY <2>1, <2>3, <3>3
  <2>4. CASE bbs[m].area # a
    BY <1>8, <2>1, <2>2, <2>4
  <2> QED BY <2>3, <2>4
<1> QED BY <1>12, <1>13 DEF LateInv

---------------------------------------------------------------------------
(* What a reader has been shown, after any step. *)

LEMMA SessionReads ==
  ASSUME HandlesApart, IInv, ReadInv, NEW n \in Nodes, Commanded(n) \/ Proceeding(n)
  PROVE  ReadInv'
<1>1. Commands(n) \/ Proceeds(n)
  BY DEF Commanded, Proceeding
<1>2. TypeOK /\ AttachInv /\ SessionInv /\ AreaTypes /\ ReadersHere /\ LateInv
  BY DEF IInv, AttachInv, TypeOK, ReadInv, ReadersHere
<1>3. Owns(n)
  BY <1>1, <1>2, SessionOwns
<1>4. BaseGrows /\ Moves(n) /\ (bbs'[n].at = "behind" => Mark(n))
  BY <1>1, <1>2, MailAttach, MailMoves
<1>5. \A m \in Nodes : m # n => bbs'[m] = bbs[m]
  BY <1>2, <1>4, MovesFacts
<1>6. /\ ShownType' /\ \A u \in Users : shown[u] \subseteq shown'[u]
      /\ strayed \subseteq strayed'
  BY <1>3 DEF Owns, ShownGrows
<1>7. LateInv' /\ PointerShown(jlr', base, shown, strayed')
  <2>1. CASE Mark(n)
    BY <1>2, <2>1, MarkReads
  <2>2. CASE MarkBehind(n)
    BY <1>2, <2>2, MarkBehindReads
  <2>3. CASE ~Mark(n) /\ ~MarkBehind(n)
    <3>1. UNCHANGED jlr
      BY <1>1, <2>3, OthersPointless
    <3>2. LateInv'
      <4> SUFFICES ASSUME NEW m \in Nodes, bbs'[m].at = "behind"
                   PROVE  Late(jlr'[bbs'[m].area], Me(m), bbs'[m].size)
        BY DEF LateInv
      <4>1. bbs'[m] = bbs[m]
        BY <1>4, <1>5, <2>3
      <4> QED BY <1>2, <3>1, <4>1 DEF LateInv
    <3>3. PointerShown(jlr, base, shown, strayed)
      BY <1>2, PointerShownForm DEF ReadersHere
    <3>4. PointerShown(jlr', base, shown, strayed')
      BY <1>6, <3>1, <3>3 DEF PointerShown
    <3> QED BY <3>2, <3>4
  <2> QED BY <2>1, <2>2, <2>3
<1>8. BehindPointers'
  <2>1. PointerShown(jlr', base', shown', strayed')
    BY <1>2, <1>4, <1>6, <1>7, PointerShownKept
  <2> QED BY <2>1, PointerShownForm
<1>9. ASSUME NEW m \in Nodes
      PROVE  ReadOK(bbs'[m], Me(m), base', shown'[Me(m)], strayed')
  <2>1. CASE m = n
    <3>1. ReadOK(bbs'[n], Me(n), base, shown'[Me(n)], strayed') /\ Located(bbs'[n])
      BY <1>3, <1>4 DEF Owns, Moves, OK
    <3> QED BY <1>2, <1>4, <2>1, <3>1, ReadKept
  <2>2. CASE m # n
    <3>1. /\ ReadOK(bbs[m], Me(m), base, shown[Me(m)], strayed) /\ Located(bbs[m])
          /\ bbs'[m] = bbs[m] /\ shown[Me(m)] \subseteq shown'[Me(m)]
      BY <1>2, <1>5, <1>6, <2>2, Mine, MeIsUser
    <3> QED BY <1>2, <1>4, <1>6, <3>1, ReadKept
  <2> QED BY <2>1, <2>2
<1> QED BY <1>6, <1>7, <1>8, <1>9 DEF ReadInv, ReadersOK

LEMMA ServingReads ==
  ASSUME IInv, ReadInv, NEW c \in Conns, Serving(c)
  PROVE  ReadInv'
<1>1. TypeOK /\ SessionInv /\ AreaTypes /\ ReadersHere /\ LateInv /\ ShownType
  BY DEF IInv, AttachInv, TypeOK, ReadInv, ReadersHere
<1>2. BaseGrows /\ UNCHANGED <<bbs, jlr, shown, strayed>>
  BY ServingBase DEF Serving, readerVars
<1>3. BehindPointers'
  <2>1. PointerShown(jlr, base, shown, strayed)
    BY <1>1, PointerShownForm DEF ReadersHere
  <2>2. PointerShown(jlr, base', shown, strayed)
    BY <1>1, <1>2, <2>1, PointerShownKept
  <2> QED BY <1>2, <2>2, PointerShownForm
<1>4. ASSUME NEW m \in Nodes
      PROVE  ReadOK(bbs'[m], Me(m), base', shown'[Me(m)], strayed')
  <2>1. ReadOK(bbs[m], Me(m), base, shown[Me(m)], strayed) /\ Located(bbs[m])
    BY <1>1, Mine
  <2>2. ReadOK(bbs[m], Me(m), base', shown[Me(m)], strayed)
    BY <1>1, <1>2, <2>1, ReadKept
  <2> QED BY <1>2, <2>2
<1>5. ShownType' /\ LateInv'
  BY <1>1, <1>2 DEF ShownType, LateInv
<1> QED BY <1>3, <1>4, <1>5 DEF ReadInv, ReadersOK

LEMMA InitReads == Init => ReadInv
<1> SUFFICES ASSUME Init PROVE ReadInv
  OBVIOUS
<1>1. PICK s \in Starts : base = s.base /\ jlr = s.jlr /\ MailReaderInit(s)
  BY DEF Init
<1>2. /\ jlr \in [Areas -> Seq(Records)] /\ s.most \in Nat
      /\ \A a \in Areas : \A k \in DOMAIN jlr[a] : jlr[a][k].num <= s.most
  BY <1>1, StartsAssumption
<1>3. /\ \A n \in Nodes : bbs[n] = Quiet
      /\ shown = [u \in Users |-> {p \in Areas \X (1..s.most) : p[2] <= LastRead(p[1], u)}]
      /\ strayed = {}
  BY <1>1 DEF MailReaderInit
<1>4. ShownType
  <2>1. 1..s.most \subseteq Nat
    BY <1>2
  <2> QED BY <1>3, <2>1 DEF ShownType
<1>5. ReadersOK
  BY <1>3, QuietRead DEF ReadersOK
<1>6. LateInv
  BY <1>3 DEF LateInv, Quiet
<1>7. BehindPointers
  <2> SUFFICES ASSUME NEW u \in Users, NEW a \in Areas, NEW k \in Nat, 1 <= k, k <= LastRead(a, u)
               PROVE  <<a, k>> \in shown[u]
    BY DEF BehindPointers, Covered
  <2> DEFINE r == jlr[a]
  <2>1. r \in Seq(Records) /\ LastRead(a, u) = Pointer(r, u)
    BY <1>2, LastReadIsPointer
  <2>2. ASSUME NEW j \in DOMAIN r
        PROVE  r[j].num \in Nat /\ r[j].num <= s.most
    <3>1. r[j] \in Records
      BY <2>1
    <3> QED BY <1>2, <3>1 DEF Records
  <2> HIDE DEF r
  <2>3. k <= s.most
    <3>1. CASE Of(r, u) = {}
      <4>1. Pointer(r, u) = 0
        BY <3>1 DEF Pointer, First
      <4> QED BY <2>1, <4>1
    <3>2. CASE Of(r, u) # {}
      <4>1. PICK f \in First(Of(r, u)) : f \in DOMAIN r
        BY <2>1, <3>2, FirstOf
      <4>2. Pointer(r, u) = r[f].num
        BY <2>1, PointerFirst
      <4> QED BY <1>2, <2>1, <2>2, <4>1, <4>2
    <3> QED BY <3>1, <3>2
  <2>4. <<a, k>> \in Areas \X (1..s.most) /\ <<a, k>>[1] = a /\ <<a, k>>[2] = k
    BY <1>2, <2>3
  <2>5. shown[u] = {p \in Areas \X (1..s.most) : p[2] <= LastRead(p[1], u)}
    BY <1>3
  <2> QED BY <2>4, <2>5
<1> QED BY <1>4, <1>5, <1>6, <1>7 DEF ReadInv

LEMMA StutterReads ==
  ASSUME IInv, ReadInv, UNCHANGED vars
  PROVE  ReadInv'
<1>1. UNCHANGED <<base, jlr, bbs, shown, strayed>>
  BY DEF vars, areaVars, readerVars
<1>2. BehindPointers'
  BY <1>1, PointerShownForm DEF ReadInv
<1> QED BY <1>1, <1>2 DEF ReadInv, ShownType, ReadersOK, LateInv

\* What a scan owes and what a pointer promises, by number and by slot.
LEMMA NumberedGaps ==
  ASSUME AreaTypes, NEW a \in Areas, Numbered(a)
  PROVE  /\ GapFree(a, base[a])
         /\ \A i \in Active(a), u \in Users :
              CanRead(a, ArticleAt(a, i), u) =>
                /\ Number(a, i) \in Nat /\ BaseNum[a] <= Number(a, i)
                /\ ~Shut(a, base[a], u, Number(a, i))
<1>1. /\ base[a] \in Seq(Messages) /\ BaseNum[a] \in Nat
  BY MessageAreasAssumption DEF AreaTypes
<1>2. ASSUME NEW i \in DOMAIN base[a]
      PROVE  base[a][i].num \in Nat /\ Number(a, i) = BaseNum[a] + i - 1 /\ i \in Nat /\ 1 <= i
             /\ base[a][i].num \in {0, BaseNum[a] + i - 1}
  <2>1. base[a][i] \in Messages /\ i \in Nat /\ 1 <= i
    BY <1>1
  <2>2. base[a][i].num \in Nat
    BY <2>1 DEF Messages
  <2>3. Number(a, i) = BaseNum[a] + i - 1
    BY DEF Numbered
  <2> QED BY <2>1, <2>2, <2>3 DEF Number
<1>3. GapFree(a, base[a])
  BY <1>2 DEF GapFree
<1>4. ASSUME NEW i \in Active(a), NEW u \in Users, CanRead(a, ArticleAt(a, i), u)
      PROVE  /\ Number(a, i) \in Nat /\ BaseNum[a] <= Number(a, i)
             /\ ~Shut(a, base[a], u, Number(a, i))
  <2>1. i \in DOMAIN base[a] /\ ~base[a][i].deleted
    BY DEF Active
  <2>2. /\ Number(a, i) \in Nat /\ BaseNum[a] <= Number(a, i)
        /\ Slot(a, Number(a, i)) = i
    BY <1>1, <1>2, <2>1 DEF Slot
  <2>3. CanRead(a, base[a][i], u)
    <3>1. base[a][i] \in Messages
      BY <1>1, <2>1
    <3>2. /\ ArticleAt(a, i).private = base[a][i].private /\ ArticleAt(a, i).to = base[a][i].to
          /\ ArticleAt(a, i).from = base[a][i].from
      BY <3>1 DEF ArticleAt, Messages
    <3> QED BY <1>4, <3>2 DEF CanRead
  <2> QED BY <2>1, <2>2, <2>3 DEF Shut
<1> QED BY <1>3, <1>4

LEMMA ReadersServed ==
  ASSUME IInv, ReadInv
  PROVE  NewMailShown
<1>1. AreaTypes
  BY DEF IInv, TypeOK
<1>2. NewScanComplete
  <2> SUFFICES ASSUME NEW n \in Nodes, bbs[n].ended, Numbered(bbs[n].area),
                      NEW k \in bbs[n].owed
               PROVE  <<bbs[n].area, k>> \in shown[UserOf[n]]
    BY DEF NewScanComplete
  <2>1. Scanned(bbs[n], base, shown[UserOf[n]])
    BY DEF ReadInv, ReadersOK, ReadOK, Me
  <2>2. bbs[n].area \in Areas
    BY <2>1 DEF Scanned
  <2>3. GapFree(bbs[n].area, base[bbs[n].area])
    BY <1>1, <2>2, NumberedGaps
  <2> QED BY <2>1, <2>3 DEF Scanned
<1>3. NothingPassedOver
  <2> SUFFICES ASSUME NEW u \in Users, NEW a \in Areas, Numbered(a), <<u, a>> \notin strayed,
                      NEW i \in Active(a), Number(a, i) <= LastRead(a, u),
                      CanRead(a, ArticleAt(a, i), u)
               PROVE  <<a, Number(a, i)>> \in shown[u]
    BY DEF NothingPassedOver
  <2>1. /\ GapFree(a, base[a]) /\ Number(a, i) \in Nat /\ BaseNum[a] <= Number(a, i)
        /\ ~Shut(a, base[a], u, Number(a, i))
    BY <1>1, NumberedGaps
  <2>2. Covered(a, base[a], u, shown[u], 1, LastRead(a, u))
    BY <2>1 DEF ReadInv, BehindPointers
  <2>3. 1 <= Number(a, i)
    <3>1. 1 <= BaseNum[a]
      BY MessageAreasAssumption
    <3> QED BY <2>1, <3>1, MessageAreasAssumption
  <2> QED BY <2>1, <2>2, <2>3 DEF Covered
<1> QED BY <1>2, <1>3 DEF NewMailShown

\* What every step keeps of the readers: how far each has come and what he was
\* shown of it, who is about to add a record of his own, and that no pointer is
\* ahead of what its user was shown.
THEOREM ReadersInductive ==
  ASSUME HandlesApart
  PROVE  Spec => []ReadInv
<1>1. IInv /\ ReadInv /\ [Next]_vars => ReadInv'
  <2> SUFFICES ASSUME IInv, ReadInv, [Next]_vars PROVE ReadInv'
    OBVIOUS
  <2>1. CASE \E n \in Nodes : Commanded(n) \/ Proceeding(n)
    BY <2>1, SessionReads
  <2>2. CASE \E c \in Conns : Serving(c)
    BY <2>2, ServingReads
  <2>3. CASE UNCHANGED vars
    BY <2>3, StutterReads
  <2> QED BY <2>1, <2>2, <2>3 DEF Next
<1> QED BY InitReads, Inductive, <1>1, PTL DEF Spec

\* No new message is lost to a caller: a scan shows all he may read that are
\* there when it starts (doReadMail, NextActive), and his pointer never passes
\* one he was not shown (SetLastRead, jamLastRead), whoever posts, reads or adds
\* a record of his own meanwhile, where no handle is another user's name.
THEOREM NewMailAlwaysShown ==
  ASSUME HandlesApart
  PROVE  Spec => []NewMailShown
<1>1. IInv /\ ReadInv => NewMailShown
  BY ReadersServed
<1> QED BY <1>1, Inductive, ReadersInductive, PTL
=============================================================================
