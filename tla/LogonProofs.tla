----------------------------- MODULE LogonProofs -----------------------------
(***************************************************************************)
(* Proofs about Logon: its type invariant, and that whoever is asked for a *)
(* password or let in answers to the name that was entered, for any user   *)
(* base, any index found, any nodes and newcomers.  With the newcomers on  *)
(* one node (finding 4) also: records keep their owner, the first one      *)
(* until it is written for nobody, and nobody is signed up twice.          *)
(***************************************************************************)
EXTENDS Logon, TLAPS, SequenceTheorems, WellFoundedInduction

\* Where line.User is the one that the name asked for led to.
Chosen == {"password", "finish"}

\* Where line.User is a new user under the name that was entered.
SigningUp == {"form", "script", "signup", "append", "verify", "undo", "list", "empty",
              "index entries"}

\* What was read of USERS.BBS is no longer than the file, which only grows.
SeenInv == \A n \in Nodes : Len(seen[n]) <= Len(users)

\* What is to be written has its place; what is to be restored was read.
PutInv ==
  \A n \in Nodes : /\ pc[n] = "put" => rec[n] \in DOMAIN users
                   /\ pc[n] = "undo" => seen[n] # <<>>

\* A name is being searched for, or was found missing.
AskedInv ==
  \A n \in Nodes :
    (\/ pc[n] \in {"index", "records", "confirm", "handle"} \union Chosen \union SigningUp
     \/ pc[n] \in {"save", "put"} /\ after[n] = "confirm")
      => asked[n] \in Names

\* New users are under the name that was entered and not deleted; a Write for
\* them returns to their questions.
NewInv ==
  \A n \in Nodes :
    /\ pc[n] \in SigningUp \/ (pc[n] \in {"save", "put"} /\ after[n] = "signup")
         => ~line[n].deleted /\ asked[n] \in Names
    /\ pc[n] \in {"append", "verify", "undo", "list", "empty", "index entries"}
         => line[n].name = asked[n]

IInv == TypeOK /\ SeenInv /\ PutInv /\ AskedInv /\ NewInv /\ FoundAsAsked

-----------------------------------------------------------------------------
\* IInv, taken apart: what all share, and what each node has of its own.

Common ==
  /\ users \in Seq(User)
  /\ index \in Seq(Nat \X Nat) /\ Len(index) <= Len(users)
  /\ dials \in 0 .. MaxDials
  /\ edits \in 0 .. MaxEdits
  /\ blanked \in BOOLEAN

Typed(n) ==
  /\ pc[n] \in Places
  /\ ret[n] \in {"off", "auto", "name", "handle"}
  /\ after[n] \in {"off", "name", "confirm", "signup", "out", "menu"}
  /\ line[n] \in User
  /\ asked[n] \in AnyName
  /\ preset[n] \in AnyPassword
  /\ emsi[n] \in AnyPassword
  /\ tries[n] \in 0 .. Tries

Fits(n) ==
  /\ rec[n] \in 0 .. Len(users) + 1
  /\ cands[n] \in SUBSET (DOMAIN users)
  /\ seen[n] \in Seq(User) /\ Len(seen[n]) <= Len(users)
  /\ size[n] \in 0 .. Len(users)

Placed(n) ==
  /\ pc[n] = "put" => rec[n] \in DOMAIN users
  /\ pc[n] = "undo" => seen[n] # <<>>
  /\ (\/ pc[n] \in {"index", "records", "confirm", "handle"} \union Chosen \union SigningUp
      \/ pc[n] \in {"save", "put"} /\ after[n] = "confirm")
       => asked[n] \in Names
  /\ pc[n] \in SigningUp \/ (pc[n] \in {"save", "put"} /\ after[n] = "signup")
       => ~line[n].deleted /\ asked[n] \in Names
  /\ pc[n] \in {"append", "verify", "undo", "list", "empty", "index entries"}
       => line[n].name = asked[n]
  /\ pc[n] \in {"password", "finish"} => Found(line[n], asked[n])

\* A step that leaves the other nodes alone,
Only(n) ==
  /\ pc' = [pc EXCEPT ![n] = pc'[n]]
  /\ ret' = [ret EXCEPT ![n] = ret'[n]]
  /\ after' = [after EXCEPT ![n] = after'[n]]
  /\ line' = [line EXCEPT ![n] = line'[n]]
  /\ rec' = [rec EXCEPT ![n] = rec'[n]]
  /\ asked' = [asked EXCEPT ![n] = asked'[n]]
  /\ preset' = [preset EXCEPT ![n] = preset'[n]]
  /\ emsi' = [emsi EXCEPT ![n] = emsi'[n]]
  /\ tries' = [tries EXCEPT ![n] = tries'[n]]
  /\ cands' = [cands EXCEPT ![n] = cands'[n]]
  /\ seen' = [seen EXCEPT ![n] = seen'[n]]
  /\ size' = [size EXCEPT ![n] = size'[n]]

\* and takes no record away.
Grows ==
  /\ Common'
  /\ Len(users) \in Nat /\ Len(users') \in Nat /\ Len(users') >= Len(users)
  /\ DOMAIN users \subseteq DOMAIN users'

-----------------------------------------------------------------------------
\* A record put at or before the end of the file leaves a file of records, not a
\* shorter one.
LEMMA PutLemma ==
  ASSUME NEW file \in Seq(User), NEW r \in 1 .. Len(file) + 1, NEW u \in User
  PROVE  /\ Put(file, r, u) \in Seq(User)
         /\ Len(Put(file, r, u)) >= Len(file)
BY DEF Put

\* So a write of USERS.BBS takes no record away.
LEMMA PutGrows ==
  ASSUME IInv, NEW r \in 1 .. Len(users) + 1, NEW u \in User, users' = Put(users, r, u),
         UNCHANGED <<index, dials, edits>>, blanked' \in BOOLEAN
  PROVE  Grows
<1>1. users \in Seq(User) /\ users' \in Seq(User) /\ Len(users') >= Len(users)
  BY PutLemma DEF IInv, TypeOK
<1>2. Len(users) \in Nat /\ Len(users') \in Nat /\ DOMAIN users \subseteq DOMAIN users'
  BY <1>1
<1>3. Len(index) \in Nat
  BY DEF IInv, TypeOK
<1> QED
  BY <1>1, <1>2, <1>3 DEF IInv, TypeOK, Grows, Common

\* What Search's scan of the file returns is a record that was searched for.
LEMMA ScanFinds ==
  ASSUME NEW file \in Seq(User), NEW want, \E i \in DOMAIN file : Found(file[i], want)
  PROVE  Scan(file, want) \in DOMAIN file /\ Found(file[Scan(file, want)], want)
<1> DEFINE T == {i \in DOMAIN file : Found(file[i], want)}
           below == OpToRel(<, Nat)
<1>1. T # {}
  OBVIOUS
<1>2. T \subseteq Nat /\ DOMAIN file = 1 .. Len(file)
  OBVIOUS
<1>3. \E i \in T : \A j \in T : <<j, i>> \notin below
  <2>1. IsWellFoundedOn(below, Nat)
    BY NatLessThanWellFounded
  <2> QED
    BY <1>1, <1>2, <2>1, WFMin
<1>4. \A i, j \in Nat : <<j, i>> \in below <=> j < i
  BY DEF OpToRel
<1>5. PICK i \in T : \A j \in T : ~(j < i)
  <2> HIDE DEF below
  <2> QED
    BY <1>2, <1>3, <1>4
<1>6. \A j \in 1 .. i - 1 : ~Found(file[j], want)
  BY <1>2, <1>5
<1> QED
  BY <1>1, <1>5, <1>6 DEF Scan

\* In particular where it returns a record at all.
LEMMA ScanLemma ==
  ASSUME NEW file \in Seq(User), NEW want, Scan(file, want) # 0
  PROVE  Scan(file, want) \in DOMAIN file /\ Found(file[Scan(file, want)], want)
<1>1. \E i \in DOMAIN file : Found(file[i], want)
  BY DEF Scan
<1> QED
  BY <1>1, ScanFinds

\* The index has an entry for each record.
LEMMA IndexOfLemma ==
  ASSUME NEW file \in Seq(User)
  PROVE  IndexOf(file) \in Seq(Nat \X Nat) /\ Len(IndexOf(file)) = Len(file)
<1> DEFINE new == IndexOf(file)
<1>0. Len(file) \in Nat /\ DOMAIN file = 1 .. Len(file)
  OBVIOUS
<1>1. new \in [1 .. Len(file) -> Nat \X Nat]
  <2> SUFFICES ASSUME NEW i \in 1 .. Len(file)
               PROVE  <<CrcOf[file[i].name], CrcOf[file[i].handle]>> \in Nat \X Nat
    BY <1>0 DEF IndexOf
  <2>1. file[i] \in User
    OBVIOUS
  <2>2. file[i].name \in AnyName /\ file[i].handle \in AnyName
    BY <2>1 DEF User
  <2> QED
    BY <2>2, UserBaseAssumption DEF AnyName
<1> HIDE DEF new
<1>2. new \in Seq(Nat \X Nat) /\ Len(new) = Len(file)
  BY <1>0, <1>1
<1> QED
  BY <1>2 DEF new

\* Entries written over an older index leave no more of them than there are users.
LEMMA IndexLemma ==
  ASSUME NEW file \in Seq(User), NEW old \in Seq(Nat \X Nat), NEW len \in Nat,
         Len(file) <= len, Len(old) <= len
  PROVE  LET new == IndexOf(file)
             i == new \o SubSeq(old, Len(new) + 1, Len(old))
         IN  i \in Seq(Nat \X Nat) /\ Len(i) <= len
<1> DEFINE new == IndexOf(file)
           rest == SubSeq(old, Len(new) + 1, Len(old))
<1>0. Len(file) \in Nat /\ Len(old) \in Nat
  OBVIOUS
<1>1. new \in Seq(Nat \X Nat) /\ Len(new) = Len(file)
  BY IndexOfLemma
<1>2. /\ rest \in Seq(Nat \X Nat)
      /\ Len(rest) = IF Len(new) + 1 <= Len(old) THEN Len(old) - Len(new) ELSE 0
  <2> HIDE DEF new
  <2>1. \A i \in Len(new) + 1 .. Len(old) : old[i] \in Nat \X Nat
    BY <1>0, <1>1
  <2> QED
    BY <1>0, <1>1, <2>1, SubSeqProperties
<1>3. new \o rest \in Seq(Nat \X Nat) /\ Len(new \o rest) = Len(new) + Len(rest)
  <2> HIDE DEF new, rest
  <2> QED
    BY <1>1, <1>2, ConcatProperties
<1> QED
  <2> HIDE DEF new, rest
  <2>1. new \o rest \in Seq(Nat \X Nat) /\ Len(new \o rest) <= len
    BY <1>0, <1>1, <1>2, <1>3
  <2> QED
    BY <2>1 DEF new, rest

\* Changes of a User's fields leave a User.
LEMMA ZeroLemma == ZeroUser \in User
BY DEF ZeroUser, User, AnyName, AnyPassword

LEMMA NameLemma ==
  ASSUME NEW u \in User, NEW name \in AnyName, NEW h \in AnyName
  PROVE  /\ [u EXCEPT !.name = name, !.handle = h] \in User
         /\ [u EXCEPT !.name = name, !.handle = h].name = name
         /\ [u EXCEPT !.name = name, !.handle = h].deleted = u.deleted
         /\ [u EXCEPT !.name = name, !.handle = h, !.born = name] \in User
         /\ [u EXCEPT !.name = name, !.handle = h, !.born = name].deleted = u.deleted
         /\ u.handle \in AnyName
BY DEF User

LEMMA HandleLemma ==
  ASSUME NEW u \in User, NEW h \in AnyName
  PROVE  /\ [u EXCEPT !.handle = h] \in User
         /\ [u EXCEPT !.handle = h].deleted = u.deleted
BY DEF User

LEMMA PasswordLemma ==
  ASSUME NEW u \in User, NEW h \in AnyName, NEW p \in AnyPassword
  PROVE  /\ [u EXCEPT !.handle = h, !.pw = p] \in User
         /\ [u EXCEPT !.handle = h, !.pw = p].deleted = u.deleted
         /\ [u EXCEPT !.pw = p] \in User
BY DEF User

LEMMA DeletedLemma ==
  ASSUME NEW u \in User, NEW name \in AnyName, NEW h \in AnyName, NEW d \in BOOLEAN
  PROVE  [u EXCEPT !.name = name, !.handle = h, !.deleted = d] \in User
BY DEF User

LEMMA CallsLemma ==
  ASSUME NEW u \in User
  PROVE  [u EXCEPT !.calls = u.calls + 1] \in User
BY DEF User

\* IInv, at one node.
LEMMA Now ==
  ASSUME IInv, NEW n \in Nodes
  PROVE  Common /\ Typed(n) /\ Fits(n) /\ Placed(n) /\ silent \subseteq Nodes
BY DEF IInv, TypeOK, SeenInv, PutInv, AskedInv, NewInv, FoundAsAsked, Common, Typed,
       Fits, Placed

\* Steps that leave the files alone.
LEMMA Still ==
  ASSUME IInv, UNCHANGED files, dials' \in 0 .. MaxDials, edits' \in 0 .. MaxEdits,
         blanked' \in BOOLEAN
  PROVE  Grows
BY DEF IInv, TypeOK, Grows, Common, files

\* A step of one node keeps IInv if it keeps that node's part of it.
LEMMA Frame ==
  ASSUME IInv, NEW n \in Nodes, Only(n), Grows, silent' \subseteq Nodes,
         Typed(n)', Fits(n)', Placed(n)'
  PROVE  IInv'
<1>1. DOMAIN users \subseteq DOMAIN users' /\ Len(users) \in Nat /\ Len(users') \in Nat
      /\ Len(users') >= Len(users)
  BY DEF Grows
<1>2. /\ pc' \in [Nodes -> Places]
  /\ ret' \in [Nodes -> {"off", "auto", "name", "handle"}]
  /\ after' \in [Nodes -> {"off", "name", "confirm", "signup", "out", "menu"}]
  /\ line' \in [Nodes -> User]
  /\ asked' \in [Nodes -> AnyName]
  /\ preset' \in [Nodes -> AnyPassword]
  /\ emsi' \in [Nodes -> AnyPassword]
  /\ tries' \in [Nodes -> 0 .. Tries]
  /\ seen' \in [Nodes -> Seq(User)]
  BY DEF IInv, TypeOK, Only, Typed, Fits
<1>3. rec' \in [Nodes -> 0 .. Len(users') + 1]
  <2>1. rec \in [Nodes -> 0 .. Len(users') + 1]
    BY <1>1 DEF IInv, TypeOK
  <2> QED
    BY <2>1 DEF Only, Fits
<1>4. cands' \in [Nodes -> SUBSET (DOMAIN users')]
  BY <1>1 DEF IInv, TypeOK, Only, Fits
<1>5. size' \in [Nodes -> 0 .. Len(users')]
  <2>1. size \in [Nodes -> 0 .. Len(users')]
    BY <1>1 DEF IInv, TypeOK
  <2> QED
    BY <2>1 DEF Only, Fits
<1>6. TypeOK'
  BY <1>2, <1>3, <1>4, <1>5 DEF TypeOK, Grows, Common
<1>7. SeenInv'
  <2> SUFFICES ASSUME NEW m \in Nodes PROVE Len(seen[m])' <= Len(users)'
    BY DEF SeenInv
  <2>1. CASE m = n
    BY <2>1 DEF Fits
  <2>2. CASE m # n
    <3>1. seen'[m] = seen[m] /\ Len(seen[m]) \in Nat /\ Len(seen[m]) <= Len(users)
      BY <2>2 DEF IInv, TypeOK, SeenInv, Only
    <3> QED
      BY <3>1, <1>1
  <2> QED
    BY <2>1, <2>2
<1>8. PutInv'
  BY <1>1 DEF IInv, TypeOK, PutInv, Only, Placed
<1>9. AskedInv'
  <2> SUFFICES ASSUME NEW m \in Nodes,
                      \/ pc'[m] \in {"index", "records", "confirm", "handle"} \union Chosen \union SigningUp
                      \/ pc'[m] \in {"save", "put"} /\ after'[m] = "confirm"
               PROVE  asked'[m] \in Names
    BY DEF AskedInv
  <2>1. CASE m = n
    BY <2>1 DEF Placed
  <2>2. CASE m # n
    <3>1. pc'[m] = pc[m] /\ after'[m] = after[m] /\ asked'[m] = asked[m]
      BY <2>2 DEF IInv, TypeOK, Only
    <3> QED
      BY <3>1 DEF IInv, AskedInv
  <2> QED
    BY <2>1, <2>2
<1>10. NewInv'
  <2> SUFFICES ASSUME NEW m \in Nodes
               PROVE  /\ pc'[m] \in SigningUp \/ (pc'[m] \in {"save", "put"} /\ after'[m] = "signup")
                           => ~line'[m].deleted /\ asked'[m] \in Names
                      /\ pc'[m] \in {"append", "verify", "undo", "list", "empty", "index entries"}
                           => line'[m].name = asked'[m]
    BY DEF NewInv
  <2>1. CASE m = n
    BY <2>1 DEF Placed
  <2>2. CASE m # n
    <3>1. pc'[m] = pc[m] /\ after'[m] = after[m] /\ line'[m] = line[m] /\ asked'[m] = asked[m]
      BY <2>2 DEF IInv, TypeOK, Only
    <3> QED
      BY <3>1 DEF IInv, NewInv
  <2> QED
    BY <2>1, <2>2
<1>11. FoundAsAsked'
  BY DEF IInv, TypeOK, FoundAsAsked, Only, Placed
<1> QED
  BY <1>6, <1>7, <1>8, <1>9, <1>10, <1>11 DEF IInv

-----------------------------------------------------------------------------
\* What several actions end with: the process ends, the sign-up is given up, a new
\* user is made up, Search hits or misses.
LEMMA EndKeeps ==
  ASSUME IInv, NEW n \in Nodes, End(n), Grows
  PROVE  IInv'
<1>1. Only(n)
  BY DEF End, Only, IInv, TypeOK, Goto, Return, Set
<1>2. /\ pc'[n] = "off" /\ ret'[n] = "off" /\ after'[n] = "off" /\ line'[n] = ZeroUser
      /\ rec'[n] = 1 /\ asked'[n] = NoName /\ preset'[n] = NoPassword
      /\ emsi'[n] = NoPassword
      /\ tries'[n] = 0 /\ cands'[n] = {} /\ seen'[n] = <<>> /\ size'[n] = 0
  BY DEF End, IInv, TypeOK, Goto, Return, Set
<1>3. Typed(n)'
  BY <1>2, ZeroLemma, LogonAssumption DEF Typed, Places, AnyName, AnyPassword
<1>4. Fits(n)'
  BY <1>2 DEF Fits, Grows, Common
<1>5. Placed(n)'
  BY <1>2 DEF Placed, Chosen, SigningUp
<1>6. silent' \subseteq Nodes
  BY Now DEF End
<1> QED
  BY <1>1, <1>3, <1>4, <1>5, <1>6, Frame

LEMMA GiveUpKeeps ==
  ASSUME IInv, NEW n \in Nodes, NEW gone \in SUBSET Nodes, GiveUp(n, gone), Grows
  PROVE  IInv'
<1>1. CASE ret[n] = "auto"
  BY <1>1, EndKeeps DEF GiveUp
<1>2. CASE ret[n] # "auto"
  <2>0. Common /\ Typed(n) /\ Fits(n)
    BY Now
  <2>1. Only(n)
    BY <1>2 DEF GiveUp, Only, IInv, TypeOK, Goto, Set, typed, copy
  <2>2. /\ pc'[n] = "loop" /\ seen'[n] = <<>> /\ size'[n] = 0
        /\ UNCHANGED <<ret[n], after[n], line[n], rec[n], asked[n], preset[n], emsi[n],
                       tries[n], cands[n]>>
    BY <1>2 DEF GiveUp, IInv, TypeOK, Goto, Set, typed, copy
  <2>3. Typed(n)'
    BY <2>0, <2>2 DEF Typed, Places
  <2>4. Fits(n)'
    BY <2>0, <2>2 DEF Fits, Grows, Common
  <2>5. Placed(n)'
    BY <2>2 DEF Placed, Chosen, SigningUp
  <2> QED
    BY <1>2, <2>1, <2>3, <2>4, <2>5, Frame DEF GiveUp
<1> QED
  BY <1>1, <1>2

LEMMA SignUpKeeps ==
  ASSUME IInv, NEW n \in Nodes, NEW gone \in SUBSET Nodes, pc[n] = "confirm",
         SignUp(n, gone), UNCHANGED <<files, past>>
  PROVE  IInv'
<1>0. Common /\ Typed(n) /\ Fits(n) /\ Placed(n)
  BY Now
<1>1. Only(n)
  BY DEF SignUp, Only, IInv, TypeOK, Goto, Set, typed, scratch
<1>2. /\ pc'[n] = "form" /\ rec'[n] = 0
      /\ line'[n] = [ZeroUser EXCEPT !.name = asked[n], !.handle = asked[n],
                                      !.born = asked[n]]
      /\ UNCHANGED <<ret[n], after[n], asked[n], preset[n], emsi[n], tries[n], cands[n],
                     seen[n], size[n]>>
  BY DEF SignUp, IInv, TypeOK, Goto, Set, typed, scratch
<1>3. line'[n] \in User /\ ~line'[n].deleted
  <2>1. asked[n] \in AnyName
    BY <1>0 DEF Typed
  <2>2. ~ZeroUser.deleted
    BY DEF ZeroUser
  <2>3. LET u == [ZeroUser EXCEPT !.name = asked[n], !.handle = asked[n], !.born = asked[n]]
        IN  u \in User /\ u.deleted = ZeroUser.deleted
    BY <2>1, ZeroLemma, NameLemma
  <2> QED
    BY <1>2, <2>2, <2>3
<1>4. Typed(n)'
  BY <1>0, <1>2, <1>3 DEF Typed, Places, Prompts
<1>5. Grows
  BY Still DEF IInv, TypeOK, past
<1>6. Fits(n)'
  BY <1>0, <1>2, <1>5 DEF Fits, Grows, files
<1>7. Placed(n)'
  BY <1>0, <1>2, <1>3 DEF Placed, Chosen, SigningUp
<1> QED
  BY <1>1, <1>4, <1>5, <1>6, <1>7, Frame DEF SignUp

LEMMA HitKeeps ==
  ASSUME IInv, NEW n \in Nodes, pc[n] = "records", NEW i \in DOMAIN users,
         Found(users[i], asked[n]), Hit(n, i), UNCHANGED <<files, past>>
  PROVE  IInv'
<1>0. Common /\ Typed(n) /\ Fits(n) /\ Placed(n) /\ silent \subseteq Nodes
  BY Now
<1>1. Grows
  BY Still DEF IInv, TypeOK, past
<1>2. asked[n] \in Names
  BY <1>0 DEF Placed
<1>3. CASE ret[n] = "auto" /\ preset[n] \notin {NoPassword, users[i].pw} /\ End(n)
  BY <1>1, <1>3, EndKeeps
<1>4. CASE /\ ret[n] = "handle"
           /\ Goto(n, IF i = rec[n] THEN "handle" ELSE "menu")
           /\ cands' = Set(cands, n, {})
           /\ UNCHANGED <<ret, after, typed, copy, tries, seen, size, silent>>
  <2>1. Only(n)
    BY <1>4 DEF Only, IInv, TypeOK, Goto, Set, typed, copy
  <2>2. /\ pc'[n] \in {"handle", "menu"} /\ cands'[n] = {}
        /\ UNCHANGED <<ret[n], after[n], line[n], rec[n], asked[n], preset[n], emsi[n],
                       tries[n], seen[n], size[n]>>
    BY <1>4 DEF IInv, TypeOK, Goto, Set, typed, copy
  <2>3. Typed(n)'
    BY <1>0, <2>2 DEF Typed, Places, Prompts
  <2>4. Fits(n)'
    BY <1>0, <1>1, <2>2 DEF Fits, Grows, files
  <2>5. Placed(n)'
    BY <1>2, <2>2 DEF Placed, Chosen, SigningUp
  <2> QED
    BY <1>0, <1>1, <1>4, <2>1, <2>3, <2>4, <2>5, Frame
<1>5. CASE /\ \E p \in {"finish", "password"} : Goto(n, p)
           /\ line' = Set(line, n, users[i])
           /\ rec' = Set(rec, n, i)
           /\ preset' = Set(preset, n, FirstPassword(n))
           /\ cands' = Set(cands, n, {})
           /\ UNCHANGED <<ret, after, asked, emsi, tries, seen, size, silent>>
  <2>1. Only(n)
    BY <1>5 DEF Only, IInv, TypeOK, Goto, Set
  <2>2. /\ pc'[n] \in {"finish", "password"} /\ line'[n] = users[i] /\ rec'[n] = i
        /\ preset'[n] = FirstPassword(n) /\ cands'[n] = {}
        /\ UNCHANGED <<ret[n], after[n], asked[n], emsi[n], tries[n], seen[n], size[n]>>
    BY <1>5 DEF IInv, TypeOK, Goto, Set
  <2>3. Typed(n)'
    <3>1. users[i] \in User
      BY <1>0 DEF Common
    <3> QED
      BY <1>0, <2>2, <3>1 DEF Typed, Places, Prompts, FirstPassword
  <2>4. Fits(n)'
    <3>1. i \in 0 .. Len(users') + 1
      BY <1>0 DEF files, Common
    <3> QED
      BY <1>0, <1>1, <2>2, <3>1 DEF Fits, Grows, files
  <2>5. Placed(n)'
    BY <1>2, <2>2 DEF Placed, Chosen, SigningUp
  <2> QED
    BY <1>0, <1>1, <1>5, <2>1, <2>3, <2>4, <2>5, Frame
<1> QED
  BY <1>3, <1>4, <1>5 DEF Hit

LEMMA MissKeeps ==
  ASSUME IInv, NEW n \in Nodes, pc[n] = "records", Miss(n), UNCHANGED <<files, past>>
  PROVE  IInv'
<1>0. Common /\ Typed(n) /\ Fits(n) /\ Placed(n) /\ silent \subseteq Nodes
  BY Now
<1>1. Grows
  BY Still DEF IInv, TypeOK, past
<1>2. CASE End(n)
  BY <1>1, <1>2, EndKeeps
<1>3. CASE /\ \E p \in {"confirm", "loop", "handle"} : Goto(n, p)
           /\ UNCHANGED <<ret, after, typed, copy, tries, scratch, silent>>
  <2>1. Only(n)
    BY <1>3 DEF Only, IInv, TypeOK, Goto, typed, copy, scratch
  <2>2. /\ pc'[n] \in {"confirm", "loop", "handle"}
        /\ UNCHANGED <<ret[n], after[n], line[n], rec[n], asked[n], preset[n], emsi[n],
                       tries[n], cands[n], seen[n], size[n]>>
    BY <1>3 DEF IInv, TypeOK, Goto, typed, copy, scratch
  <2>3. Typed(n)'
    BY <1>0, <2>2 DEF Typed, Places, Prompts
  <2>4. Fits(n)'
    BY <1>0, <1>1, <2>2 DEF Fits, Grows, files
  <2>5. Placed(n)'
    BY <1>0, <2>2 DEF Placed, Chosen, SigningUp
  <2> QED
    BY <1>0, <1>1, <1>3, <2>1, <2>3, <2>4, <2>5, Frame
<1> QED
  BY <1>2, <1>3 DEF Miss

\* The actions, in the order Logon has them.
LEMMA CallKeeps ==
  ASSUME IInv, NEW n \in Nodes, Call(n)
  PROVE  IInv'
<1>0. Common /\ Typed(n) /\ Fits(n) /\ Placed(n) /\ silent \subseteq Nodes
  BY Now
<1>1. Names \subseteq AnyName
  BY DEF AnyName
<1>2. Only(n)
  BY DEF Call, Only, IInv, TypeOK, Goto, Return, Set, copy, scratch
<1>3. /\ pc'[n] \in {"loop", "index"} /\ (pc'[n] = "index" => asked'[n] \in Names)
      /\ ret'[n] \in {"auto", ret[n]}
      /\ asked'[n] \in Names \union {asked[n]}
      /\ preset'[n] \in AnyPassword \union {preset[n]}
      /\ UNCHANGED <<after[n], line[n], rec[n], emsi[n], tries[n], cands[n], seen[n],
                     size[n]>>
  BY DEF Call, IInv, TypeOK, Goto, Return, Set, copy, scratch
<1>4. Grows /\ silent' = silent /\ UNCHANGED users
  BY <1>0, Still, LogonAssumption DEF Call, IInv, TypeOK, past, files
<1>5. Typed(n)'
  BY <1>0, <1>3, <1>1 DEF Typed, Places, Prompts
<1>6. Fits(n)'
  BY <1>0, <1>3, <1>4 DEF Fits, Grows
<1>7. Placed(n)'
  BY <1>0, <1>3 DEF Placed, Chosen, SigningUp
<1> QED
  BY <1>0, <1>2, <1>4, <1>5, <1>6, <1>7, Frame

LEMMA AskNameKeeps ==
  ASSUME IInv, NEW n \in Nodes, AskName(n)
  PROVE  IInv'
<1>0. Common /\ Typed(n) /\ Fits(n) /\ Placed(n) /\ silent \subseteq Nodes
  BY Now
<1>1. NoName \in AnyName /\ NoPassword \in AnyPassword
  BY DEF AnyName, AnyPassword
<1>2. Only(n)
  BY DEF AskName, Only, IInv, TypeOK, Goto, Return, Set, scratch
<1>3. /\ pc'[n] = "name" /\ rec'[n] = 0 /\ ret'[n] = "off"
      /\ asked'[n] = NoName /\ preset'[n] = NoPassword
      /\ UNCHANGED <<after[n], line[n], emsi[n], tries[n], cands[n], seen[n], size[n]>>
  BY DEF AskName, IInv, TypeOK, Goto, Return, Set, scratch
<1>4. Grows /\ silent' = silent /\ UNCHANGED users
  BY <1>0, Still, LogonAssumption DEF AskName, IInv, TypeOK, past, files
<1>5. Typed(n)'
  BY <1>0, <1>3, <1>1 DEF Typed, Places, Prompts
<1>6. Fits(n)'
  BY <1>0, <1>3, <1>4 DEF Fits, Grows
<1>7. Placed(n)'
  BY <1>0, <1>3 DEF Placed, Chosen, SigningUp
<1> QED
  BY <1>0, <1>2, <1>4, <1>5, <1>6, <1>7, Frame

LEMMA EnterNameKeeps ==
  ASSUME IInv, NEW n \in Nodes, EnterName(n)
  PROVE  IInv'
<1>0. Common /\ Typed(n) /\ Fits(n) /\ Placed(n) /\ silent \subseteq Nodes
  BY Now
<1>1. Names \subseteq AnyName
  BY DEF AnyName
<1>2. Only(n)
  BY DEF EnterName, Only, IInv, TypeOK, Look, Goto, Return, Set, copy, scratch
<1>3. /\ pc'[n] = "index" /\ ret'[n] = "name"
      /\ asked'[n] \in Names /\ preset'[n] \in AnyPassword
      /\ UNCHANGED <<after[n], line[n], rec[n], emsi[n], tries[n], cands[n], seen[n],
                     size[n]>>
  BY DEF EnterName, IInv, TypeOK, Look, Goto, Return, Set, copy, scratch
<1>4. Grows /\ silent' = silent /\ UNCHANGED users
  BY <1>0, Still, LogonAssumption DEF EnterName, IInv, TypeOK, past, files
<1>5. Typed(n)'
  BY <1>0, <1>3, <1>1 DEF Typed, Places, Prompts
<1>6. Fits(n)'
  BY <1>0, <1>3, <1>4 DEF Fits, Grows
<1>7. Placed(n)'
  BY <1>0, <1>3 DEF Placed, Chosen, SigningUp
<1> QED
  BY <1>0, <1>2, <1>4, <1>5, <1>6, <1>7, Frame

LEMMA IemsiKeeps ==
  ASSUME IInv, NEW n \in Nodes, Iemsi(n)
  PROVE  IInv'
<1>0. Common /\ Typed(n) /\ Fits(n) /\ Placed(n) /\ silent \subseteq Nodes
  BY Now
<1>1. Names \subseteq AnyName
  BY DEF AnyName
<1>2. pc[n] = "name"
  BY DEF Iemsi
<1>3. Only(n)
  BY DEF Iemsi, Only, IInv, TypeOK, Look, Goto, Return, Set, copy, scratch, AnyName
<1>4. /\ pc'[n] \in {"index", pc[n]} /\ ret'[n] \in {"name", ret[n]}
      /\ pc'[n] = "index" => asked'[n] \in Names
      /\ asked'[n] \in Names \union {asked[n]}
      /\ preset'[n] \in AnyPassword \union {preset[n]}
      /\ emsi'[n] \in AnyPassword
      /\ UNCHANGED <<after[n], line[n], rec[n], tries[n], cands[n], seen[n], size[n]>>
  BY DEF Iemsi, IInv, TypeOK, Look, Goto, Return, Set, copy, scratch, AnyName
<1>5. Grows /\ silent' = silent /\ UNCHANGED users
  BY <1>0, Still, LogonAssumption DEF Iemsi, IInv, TypeOK, past, files
<1>6. Typed(n)'
  BY <1>0, <1>4, <1>1 DEF Typed, Places, Prompts
<1>7. Fits(n)'
  BY <1>0, <1>4, <1>5 DEF Fits, Grows
<1>8. Placed(n)'
  BY <1>0, <1>4, <1>2 DEF Placed, Chosen, SigningUp
<1> QED
  BY <1>0, <1>3, <1>5, <1>6, <1>7, <1>8, Frame

LEMMA SearchIndexKeeps ==
  ASSUME IInv, NEW n \in Nodes, SearchIndex(n)
  PROVE  IInv'
<1>0. Common /\ Typed(n) /\ Fits(n) /\ Placed(n) /\ silent \subseteq Nodes
  BY Now
<1>1. Candidates(index, asked[n]) \subseteq DOMAIN users /\ pc[n] = "index"
  BY <1>0 DEF Candidates, Common, SearchIndex
<1>2. Only(n)
  BY DEF SearchIndex, Only, IInv, TypeOK, Goto, Set, typed, copy
<1>3. /\ pc'[n] = "records" /\ cands'[n] = Candidates(index, asked[n])
      /\ UNCHANGED <<ret[n], after[n], line[n], rec[n], asked[n], preset[n], emsi[n],
                     tries[n], seen[n], size[n]>>
  BY DEF SearchIndex, IInv, TypeOK, Goto, Set, typed, copy
<1>4. Grows /\ silent' = silent /\ UNCHANGED users
  BY <1>0, Still, LogonAssumption DEF SearchIndex, IInv, TypeOK, past, files
<1>5. Typed(n)'
  BY <1>0, <1>3 DEF Typed, Places, Prompts
<1>6. Fits(n)'
  BY <1>0, <1>3, <1>4, <1>1 DEF Fits, Grows
<1>7. Placed(n)'
  BY <1>0, <1>3, <1>1 DEF Placed, Chosen, SigningUp
<1> QED
  BY <1>0, <1>2, <1>4, <1>5, <1>6, <1>7, Frame

LEMMA SearchRecordKeeps ==
  ASSUME IInv, NEW n \in Nodes, SearchRecord(n)
  PROVE  IInv'
<1>0. Common /\ Typed(n) /\ Fits(n) /\ Placed(n) /\ silent \subseteq Nodes
  BY Now
<1> DEFINE i == Candidate(n)
<1>1. pc[n] = "records" /\ UNCHANGED <<files, past>>
  BY DEF SearchRecord, NextCandidate
<1>2. CASE i \in DOMAIN users /\ Found(users[i], asked[n]) /\ Hit(n, i)
  BY <1>1, <1>2, HitKeeps
<1>3. CASE /\ cands' = Set(cands, n, cands[n] \ {i})
           /\ UNCHANGED <<pc, ret, after, typed, copy, tries, seen, size, silent>>
  <2>1. Only(n)
    BY <1>3 DEF Only, IInv, TypeOK, Set, typed, copy
  <2>2. /\ cands'[n] \subseteq cands[n]
        /\ UNCHANGED <<pc[n], ret[n], after[n], line[n], rec[n], asked[n], preset[n],
                       emsi[n], tries[n], seen[n], size[n]>>
    BY <1>3 DEF IInv, TypeOK, Set, typed, copy
  <2>3. Grows /\ UNCHANGED users
    BY <1>1, Still DEF IInv, TypeOK, past, files
  <2>4. Typed(n)'
    BY <1>0, <2>2 DEF Typed
  <2>5. Fits(n)'
    BY <1>0, <2>2, <2>3 DEF Fits, Grows
  <2>6. Placed(n)'
    BY <1>0, <1>1, <2>2 DEF Placed, Chosen, SigningUp
  <2> QED
    BY <1>0, <1>3, <2>1, <2>3, <2>4, <2>5, <2>6, Frame
<1> QED
  BY <1>2, <1>3 DEF SearchRecord, NextCandidate

LEMMA SearchFileKeeps ==
  ASSUME IInv, NEW n \in Nodes, SearchFile(n)
  PROVE  IInv'
<1> DEFINE i == Scan(users, asked[n])
<1>1. pc[n] = "records" /\ UNCHANGED <<files, past>>
  BY DEF SearchFile
<1>2. users \in Seq(User) /\ DOMAIN users = 1 .. Len(users) /\ Len(users) \in Nat
  BY DEF IInv, TypeOK
<1>3. CASE i # 0 /\ Hit(n, i)
  <2>1. i \in DOMAIN users /\ Found(users[i], asked[n])
    BY <1>2, <1>3, ScanLemma
  <2> QED
    BY <1>1, <1>3, <2>1, HitKeeps
<1>4. CASE Miss(n)
  BY <1>1, <1>4, MissKeeps
<1> QED
  BY <1>3, <1>4 DEF SearchFile

LEMMA GetPasswordKeeps ==
  ASSUME IInv, NEW n \in Nodes, GetPassword(n)
  PROVE  IInv'
<1>0. Common /\ Typed(n) /\ Fits(n) /\ Placed(n) /\ silent \subseteq Nodes
  BY Now
<1>1. NoPassword \in AnyPassword /\ Tries \in Nat
  BY LogonAssumption DEF AnyPassword
<1>2. pc[n] = "password"
  BY DEF GetPassword
<1>3. Only(n)
  BY DEF GetPassword, Only, IInv, TypeOK, TryPassword, Goto, Set, copy, scratch
<1>4. /\ pc'[n] \in {"finish", "password"} /\ preset'[n] = NoPassword
      /\ tries'[n] = tries[n] + 1 /\ tries[n] < Tries
      /\ UNCHANGED <<ret[n], after[n], line[n], rec[n], asked[n], emsi[n], cands[n],
                     seen[n], size[n]>>
  BY DEF GetPassword, IInv, TypeOK, TryPassword, Goto, Set, copy, scratch
<1>5. Grows /\ silent' = silent /\ UNCHANGED users
  BY <1>0, Still, LogonAssumption DEF GetPassword, IInv, TypeOK, past, files, TryPassword
<1>6. tries'[n] \in 0 .. Tries
  BY <1>0, <1>4, <1>1 DEF Typed
<1>7. Typed(n)'
  BY <1>0, <1>4, <1>1, <1>6 DEF Typed, Places, Prompts
<1>8. Fits(n)'
  BY <1>0, <1>4, <1>5 DEF Fits, Grows
<1>9. Placed(n)'
  BY <1>0, <1>4, <1>2 DEF Placed, Chosen, SigningUp
<1> QED
  BY <1>0, <1>3, <1>5, <1>7, <1>8, <1>9, Frame

LEMMA TriesExceededKeeps ==
  ASSUME IInv, NEW n \in Nodes, TriesExceeded(n)
  PROVE  IInv'
<1>1. Grows
  BY Still DEF TriesExceeded, IInv, TypeOK, past
<1> QED
  BY <1>1, EndKeeps DEF TriesExceeded

LEMMA CheckRecordKeeps ==
  ASSUME IInv, NEW n \in Nodes, CheckRecord(n)
  PROVE  IInv'
<1>0. Common /\ Typed(n) /\ Fits(n) /\ Placed(n) /\ silent \subseteq Nodes
  BY Now
<1>1. pc[n] = "save" /\ after[n] \in {"off", "name", "confirm", "signup", "out", "menu"}
  BY <1>0 DEF CheckRecord, Typed
<1>2. Only(n)
  BY DEF CheckRecord, Only, IInv, TypeOK, Goto, typed, copy, scratch, MayWrite
<1>3. /\ pc'[n] = "put" => rec[n] \in DOMAIN users
      /\ pc'[n] \in {"put", after[n]}
      /\ UNCHANGED <<ret[n], after[n], line[n], rec[n], asked[n], preset[n], emsi[n],
                     tries[n], cands[n], seen[n], size[n]>>
  BY DEF CheckRecord, IInv, TypeOK, Goto, typed, copy, scratch, MayWrite
<1>4. Grows /\ silent' = silent /\ UNCHANGED users
  BY <1>0, Still, LogonAssumption DEF CheckRecord, IInv, TypeOK, past, files
<1>5. Typed(n)'
  BY <1>0, <1>3 DEF Typed, Places, Prompts
<1>6. Fits(n)'
  BY <1>0, <1>3, <1>4 DEF Fits, Grows
<1>7. Placed(n)'
  BY <1>0, <1>3, <1>4, <1>1 DEF Placed, Chosen, SigningUp
<1> QED
  BY <1>0, <1>2, <1>4, <1>5, <1>6, <1>7, Frame

LEMMA WriteRecordKeeps ==
  ASSUME IInv, NEW n \in Nodes, WriteRecord(n)
  PROVE  IInv'
<1>0. Common /\ Typed(n) /\ Fits(n) /\ Placed(n) /\ silent \subseteq Nodes
  BY Now
<1>1. pc[n] = "put" /\ after[n] \in {"off", "name", "confirm", "signup", "out", "menu"}
  BY <1>0 DEF WriteRecord, Typed
<1>2. Only(n)
  BY DEF WriteRecord, Only, IInv, TypeOK, Goto, typed, copy, scratch
<1>3. /\ pc'[n] = after[n]
      /\ UNCHANGED <<ret[n], after[n], line[n], rec[n], asked[n], preset[n], emsi[n],
                     tries[n], cands[n], seen[n], size[n]>>
  BY DEF WriteRecord, IInv, TypeOK, Goto, typed, copy, scratch
<1>4. Grows /\ silent' = silent
  <2>1. rec[n] \in 1 .. Len(users) + 1 /\ line[n] \in User
    BY <1>0, <1>1 DEF Placed, Fits, Common, Typed
  <2> QED
    BY <1>0, <2>1, PutGrows DEF WriteRecord, past, Common
<1>5. Typed(n)'
  BY <1>0, <1>3 DEF Typed, Places, Prompts
<1>6. Fits(n)'
  BY <1>0, <1>3, <1>4 DEF Fits, Grows
<1>7. Placed(n)'
  BY <1>0, <1>3, <1>1 DEF Placed, Chosen, SigningUp
<1> QED
  BY <1>0, <1>2, <1>4, <1>5, <1>6, <1>7, Frame

LEMMA ConfirmKeeps ==
  ASSUME IInv, NEW n \in Nodes, Confirm(n)
  PROVE  IInv'
<1>1. silent \in SUBSET Nodes
  BY Now
<1>2. Grows
  BY Still DEF Confirm, IInv, TypeOK, past
<1> QED
  BY <1>1, <1>2, SignUpKeeps, GiveUpKeeps DEF Confirm

LEMMA FillFormKeeps ==
  ASSUME IInv, NEW n \in Nodes, FillForm(n)
  PROVE  IInv'
<1>0. Common /\ Typed(n) /\ Fits(n) /\ Placed(n) /\ silent \subseteq Nodes
  BY Now
<1>1. pc[n] = "form"
  BY DEF FillForm
<1>2. Only(n)
  BY DEF FillForm, Only, IInv, TypeOK, Goto, Set, typed, scratch, AnyName, AnyPassword
<1>3. /\ pc'[n] \in {"script", "signup"}
      /\ UNCHANGED <<ret[n], after[n], rec[n], asked[n], preset[n], emsi[n], tries[n],
                     cands[n], seen[n], size[n]>>
  BY DEF FillForm, IInv, TypeOK, Goto, Set, typed, scratch, AnyName, AnyPassword
<1>4. line'[n] \in User /\ line'[n].deleted = line[n].deleted
  <2>1. PICK h \in Names, p \in Passwords \union ({emsi[n]} \ {NoPassword}) :
          line' = Set(line, n, [line[n] EXCEPT !.handle = h, !.pw = p])
    BY DEF FillForm
  <2>2. h \in AnyName /\ p \in AnyPassword /\ line[n] \in User
    BY <1>0 DEF Typed, AnyName, AnyPassword
  <2>3. line'[n] = [line[n] EXCEPT !.handle = h, !.pw = p]
    BY <2>1 DEF IInv, TypeOK, Set
  <2>4. /\ [line[n] EXCEPT !.handle = h, !.pw = p] \in User
        /\ [line[n] EXCEPT !.handle = h, !.pw = p].deleted = line[n].deleted
    BY <2>2, PasswordLemma
  <2> QED
    BY <2>3, <2>4
<1>5. Grows /\ silent' = silent /\ UNCHANGED users
  BY <1>0, Still, LogonAssumption DEF FillForm, IInv, TypeOK, past, files
<1>6. Typed(n)'
  BY <1>0, <1>3, <1>4 DEF Typed, Places, Prompts
<1>7. Fits(n)'
  BY <1>0, <1>3, <1>5 DEF Fits, Grows
<1>8. Placed(n)'
  BY <1>0, <1>3, <1>4, <1>1 DEF Placed, Chosen, SigningUp
<1> QED
  BY <1>0, <1>2, <1>5, <1>6, <1>7, <1>8, Frame

LEMMA RunScriptKeeps ==
  ASSUME IInv, NEW n \in Nodes, RunScript(n)
  PROVE  IInv'
<1>0. Common /\ Typed(n) /\ Fits(n) /\ Placed(n) /\ silent \subseteq Nodes
  BY Now
<1>1. pc[n] \in {"name", "confirm", "password", "script"}
  BY DEF RunScript, Onwards
<1>2. Only(n)
  BY DEF RunScript, Only, IInv, TypeOK, Save, Goto, Set, typed, scratch
<1>3. /\ pc'[n] = "save"
      /\ after'[n] \in {"name", "confirm", "out", "signup"}
      /\ after'[n] = "signup" => pc[n] = "script"
      /\ after'[n] = "confirm" => pc[n] = "confirm"
      /\ \E h \in AnyName : line'[n] = [line[n] EXCEPT !.handle = h]
      /\ UNCHANGED <<ret[n], rec[n], asked[n], preset[n], emsi[n], tries[n], cands[n],
                     seen[n], size[n]>>
  BY DEF RunScript, Onwards, IInv, TypeOK, Save, Goto, Set, typed, scratch
<1>4. line'[n] \in User /\ line'[n].deleted = line[n].deleted
  BY <1>0, <1>3, HandleLemma DEF Typed
<1>5. dials' \in 0 .. MaxDials /\ edits' \in 0 .. MaxEdits /\ blanked' \in BOOLEAN
  BY <1>0, LogonAssumption DEF RunScript, Common, scratch
<1>6. Grows /\ silent' = silent /\ UNCHANGED users
  BY <1>5, Still DEF RunScript, files, scratch
<1>7. Typed(n)'
  BY <1>0, <1>3, <1>4 DEF Typed, Places, Prompts
<1>8. Fits(n)'
  BY <1>0, <1>3, <1>6 DEF Fits, Grows
<1>9. Placed(n)'
  BY <1>0, <1>3, <1>4, <1>1 DEF Placed, Chosen, SigningUp
<1> QED
  BY <1>0, <1>2, <1>6, <1>7, <1>8, <1>9, Frame

LEMMA BeginAppendKeeps ==
  ASSUME IInv, NEW n \in Nodes, BeginAppend(n)
  PROVE  IInv'
<1>0. Common /\ Typed(n) /\ Fits(n) /\ Placed(n) /\ silent \subseteq Nodes
  BY Now
<1>1. pc[n] = "signup"
  BY DEF BeginAppend
<1>2. Only(n)
  BY DEF BeginAppend, Only, IInv, TypeOK, Goto, Set, typed
<1>3. /\ pc'[n] = "append" /\ rec'[n] = 0 /\ size'[n] = Len(users)
      /\ seen'[n] = First(users)
      /\ \E h \in {line[n].handle, asked[n]} :
           line'[n] = [line[n] EXCEPT !.name = asked[n], !.handle = h]
      /\ UNCHANGED <<ret[n], after[n], asked[n], preset[n], emsi[n], tries[n], cands[n]>>
  BY DEF BeginAppend, IInv, TypeOK, Goto, Set, typed
<1>4. line'[n] \in User /\ line'[n].deleted = line[n].deleted /\ line'[n].name = asked[n]
  <2>1. PICK h \in {line[n].handle, asked[n]} :
          line'[n] = [line[n] EXCEPT !.name = asked[n], !.handle = h]
    BY <1>3
  <2>2. line[n] \in User /\ asked[n] \in AnyName
    BY <1>0 DEF Typed
  <2>3. h \in AnyName
    BY <2>2, NameLemma
  <2>4. /\ [line[n] EXCEPT !.name = asked[n], !.handle = h] \in User
        /\ [line[n] EXCEPT !.name = asked[n], !.handle = h].name = asked[n]
        /\ [line[n] EXCEPT !.name = asked[n], !.handle = h].deleted = line[n].deleted
    BY <2>2, <2>3 DEF User
  <2> QED
    BY <2>1, <2>4
<1>5. First(users) \in Seq(User) /\ Len(First(users)) <= Len(users)
  BY <1>0 DEF First, Common
<1>6. Grows /\ silent' = silent /\ UNCHANGED users
  BY <1>0, Still, LogonAssumption DEF BeginAppend, IInv, TypeOK, past, files
<1>7. Typed(n)'
  BY <1>0, <1>3, <1>4 DEF Typed, Places, Prompts
<1>8. Fits(n)'
  BY <1>0, <1>3, <1>6, <1>5 DEF Fits, Grows
<1>9. Placed(n)'
  BY <1>0, <1>3, <1>4, <1>1 DEF Placed, Chosen, SigningUp
<1> QED
  BY <1>0, <1>2, <1>6, <1>7, <1>8, <1>9, Frame

LEMMA AppendRecordKeeps ==
  ASSUME IInv, NEW n \in Nodes, AppendRecord(n)
  PROVE  IInv'
<1>0. Common /\ Typed(n) /\ Fits(n) /\ Placed(n) /\ silent \subseteq Nodes
  BY Now
<1>1. pc[n] = "append"
  BY DEF AppendRecord
<1>2. Only(n)
  BY DEF AppendRecord, Only, IInv, TypeOK, Goto, Set, typed, scratch
<1>3. /\ pc'[n] = "verify" /\ rec'[n] = size[n] + 1
      /\ UNCHANGED <<ret[n], after[n], line[n], asked[n], preset[n], emsi[n], tries[n],
                     cands[n], seen[n], size[n]>>
  BY DEF AppendRecord, IInv, TypeOK, Goto, Set, typed, scratch
<1>4. Grows /\ silent' = silent /\ size[n] + 1 \in 0 .. Len(users') + 1
  <2>1. size[n] + 1 \in 1 .. Len(users) + 1 /\ line[n] \in User
    BY <1>0 DEF Fits, Common, Typed
  <2> QED
    BY <1>0, <2>1, PutGrows DEF AppendRecord, past, Common, Grows
<1>5. Typed(n)'
  BY <1>0, <1>3 DEF Typed, Places, Prompts
<1>6. Fits(n)'
  BY <1>0, <1>3, <1>4 DEF Fits, Grows
<1>7. Placed(n)'
  BY <1>0, <1>3, <1>1 DEF Placed, Chosen, SigningUp
<1> QED
  BY <1>0, <1>2, <1>4, <1>5, <1>6, <1>7, Frame

LEMMA VerifyFirstKeeps ==
  ASSUME IInv, NEW n \in Nodes, VerifyFirst(n)
  PROVE  IInv'
<1>0. Common /\ Typed(n) /\ Fits(n) /\ Placed(n) /\ silent \subseteq Nodes
  BY Now
<1>1. pc[n] = "verify"
  BY DEF VerifyFirst
<1>2. Only(n)
  BY DEF VerifyFirst, Only, IInv, TypeOK, Goto, typed, copy, scratch
<1>3. /\ pc'[n] \in {"list", "undo"}
      /\ pc'[n] = "undo" => seen[n] # <<>>
      /\ UNCHANGED <<ret[n], after[n], line[n], rec[n], asked[n], preset[n], emsi[n],
                     tries[n], cands[n], seen[n], size[n]>>
  BY DEF VerifyFirst, IInv, TypeOK, Goto, typed, copy, scratch
<1>4. Grows /\ silent' = silent /\ UNCHANGED users
  BY <1>0, Still, LogonAssumption DEF VerifyFirst, IInv, TypeOK, past, files
<1>5. Typed(n)'
  BY <1>0, <1>3 DEF Typed, Places, Prompts
<1>6. Fits(n)'
  BY <1>0, <1>3, <1>4 DEF Fits, Grows
<1>7. Placed(n)'
  BY <1>0, <1>3, <1>1 DEF Placed, Chosen, SigningUp
<1> QED
  BY <1>0, <1>2, <1>4, <1>5, <1>6, <1>7, Frame

LEMMA RestoreFirstKeeps ==
  ASSUME IInv, NEW n \in Nodes, RestoreFirst(n)
  PROVE  IInv'
<1>0. Common /\ Typed(n) /\ Fits(n) /\ Placed(n) /\ silent \in SUBSET Nodes
  BY Now
<1>1. seen[n] # <<>> /\ seen[n] \in Seq(User)
  BY <1>0 DEF RestoreFirst, Placed, Fits
<1>2. 1 \in 1 .. Len(users) + 1 /\ seen[n][1] \in User
  BY <1>0, <1>1 DEF Common
<1>3. Grows
  BY <1>0, <1>2, PutGrows DEF RestoreFirst, past, Common
<1> QED
  BY <1>0, <1>3, GiveUpKeeps DEF RestoreFirst

LEMMA ListUsersKeeps ==
  ASSUME IInv, NEW n \in Nodes, ListUsers(n)
  PROVE  IInv'
<1>0. Common /\ Typed(n) /\ Fits(n) /\ Placed(n) /\ silent \subseteq Nodes
  BY Now
<1>1. pc[n] = "list" /\ users \in Seq(User)
  BY <1>0 DEF ListUsers, Common
<1>2. Only(n)
  BY DEF ListUsers, Only, IInv, TypeOK, Goto, Set, typed, copy
<1>3. /\ pc'[n] = "empty" /\ seen'[n] = users
      /\ UNCHANGED <<ret[n], after[n], line[n], rec[n], asked[n], preset[n], emsi[n],
                     tries[n], cands[n], size[n]>>
  BY DEF ListUsers, IInv, TypeOK, Goto, Set, typed, copy
<1>4. Grows /\ silent' = silent /\ UNCHANGED users
  BY <1>0, Still, LogonAssumption DEF ListUsers, IInv, TypeOK, past, files
<1>5. Typed(n)'
  BY <1>0, <1>3 DEF Typed, Places, Prompts
<1>6. Fits(n)'
  BY <1>0, <1>3, <1>4, <1>1 DEF Fits, Grows
<1>7. Placed(n)'
  BY <1>0, <1>3, <1>1 DEF Placed, Chosen, SigningUp
<1> QED
  BY <1>0, <1>2, <1>4, <1>5, <1>6, <1>7, Frame

LEMMA EmptyIndexKeeps ==
  ASSUME IInv, NEW n \in Nodes, EmptyIndex(n)
  PROVE  IInv'
<1>0. Common /\ Typed(n) /\ Fits(n) /\ Placed(n) /\ silent \subseteq Nodes
  BY Now
<1>1. pc[n] = "empty"
  BY DEF EmptyIndex
<1>2. Only(n)
  BY DEF EmptyIndex, Only, IInv, TypeOK, Goto, typed, copy, scratch
<1>3. /\ pc'[n] = "index entries"
      /\ UNCHANGED <<ret[n], after[n], line[n], rec[n], asked[n], preset[n], emsi[n],
                     tries[n], cands[n], seen[n], size[n]>>
  BY DEF EmptyIndex, IInv, TypeOK, Goto, typed, copy, scratch
<1>4. Grows /\ silent' = silent /\ UNCHANGED users
  <2>1. Len(users) \in Nat
    BY <1>0 DEF Common
  <2>2. index' \in Seq(Nat \X Nat) /\ Len(index') <= Len(users)
    <3>1. index' = <<>> /\ <<>> \in Seq(Nat \X Nat) /\ Len(<<>>) = 0
      BY EmptySeq DEF EmptyIndex
    <3> QED
      BY <2>1, <3>1
  <2>3. UNCHANGED <<users, dials, edits, blanked, silent>>
    BY DEF EmptyIndex, past
  <2> QED
    BY <1>0, <2>1, <2>2, <2>3 DEF Grows, Common
<1>5. Typed(n)'
  BY <1>0, <1>3 DEF Typed, Places, Prompts
<1>6. Fits(n)'
  BY <1>0, <1>3, <1>4 DEF Fits, Grows
<1>7. Placed(n)'
  BY <1>0, <1>3, <1>1 DEF Placed, Chosen, SigningUp
<1> QED
  BY <1>0, <1>2, <1>4, <1>5, <1>6, <1>7, Frame

LEMMA WriteIndexKeeps ==
  ASSUME IInv, NEW n \in Nodes, WriteIndex(n)
  PROVE  IInv'
<1>0. Common /\ Typed(n) /\ Fits(n) /\ Placed(n) /\ silent \subseteq Nodes
  BY Now
<1>1. pc[n] = "index entries"
  BY DEF WriteIndex
<1>2. Only(n)
  BY DEF WriteIndex, Only, IInv, TypeOK, Goto, typed, copy, scratch
<1>3. /\ pc'[n] = "finish"
      /\ UNCHANGED <<ret[n], after[n], line[n], rec[n], asked[n], preset[n], emsi[n],
                     tries[n], cands[n], seen[n], size[n]>>
  BY DEF WriteIndex, IInv, TypeOK, Goto, typed, copy, scratch
<1>4. Grows /\ silent' = silent /\ UNCHANGED users
  <2>1. Len(users) \in Nat
    BY <1>0 DEF Common
  <2>2. index' = IndexOf(seen[n]) \o SubSeq(index, Len(IndexOf(seen[n])) + 1, Len(index))
    BY DEF WriteIndex
  <2>3. index' \in Seq(Nat \X Nat) /\ Len(index') <= Len(users)
    BY <1>0, <2>1, <2>2, IndexLemma DEF Common, Fits
  <2>4. UNCHANGED <<users, dials, edits, blanked, silent>>
    BY DEF WriteIndex, past
  <2> QED
    BY <1>0, <2>1, <2>3, <2>4 DEF Grows, Common
<1>5. Found(line[n], asked[n])
  BY <1>0, <1>1, UserBaseAssumption DEF Placed, SigningUp, Found, Answers, NameMatches
<1>6. Typed(n)'
  BY <1>0, <1>3 DEF Typed, Places, Prompts
<1>7. Fits(n)'
  BY <1>0, <1>3, <1>4 DEF Fits, Grows
<1>8. Placed(n)'
  BY <1>0, <1>3, <1>1, <1>5 DEF Placed, Chosen, SigningUp
<1> QED
  BY <1>0, <1>2, <1>4, <1>6, <1>7, <1>8, Frame

LEMMA IndexFailsKeeps ==
  ASSUME IInv, NEW n \in Nodes, IndexFails(n)
  PROVE  IInv'
<1>1. silent \in SUBSET Nodes
  BY Now
<1>2. Grows
  BY Still DEF IndexFails, IInv, TypeOK, past
<1> QED
  BY <1>1, <1>2, GiveUpKeeps DEF IndexFails

LEMMA FinishKeeps ==
  ASSUME IInv, NEW n \in Nodes, Finish(n)
  PROVE  IInv'
<1>0. Common /\ Typed(n) /\ Fits(n) /\ Placed(n) /\ silent \subseteq Nodes
  BY Now
<1>1. pc[n] = "finish"
  BY DEF Finish
<1>2. NoName \in AnyName /\ NoPassword \in AnyPassword /\ Tries \in Nat
  BY LogonAssumption DEF AnyName, AnyPassword
<1>3. Only(n)
  BY DEF Finish, Only, IInv, TypeOK, Save, Goto, Return, Set
<1>4. /\ pc'[n] = "save" /\ after'[n] = "menu" /\ ret'[n] = "handle" /\ asked'[n] = NoName
      /\ preset'[n] = NoPassword /\ emsi'[n] = NoPassword /\ tries'[n] = 0
      /\ seen'[n] = <<>> /\ size'[n] = 0
      /\ line'[n] = [line[n] EXCEPT !.calls = line[n].calls + 1]
      /\ UNCHANGED <<rec[n], cands[n]>>
  BY DEF Finish, IInv, TypeOK, Save, Goto, Return, Set
<1>5. line'[n] \in User
  BY <1>0, <1>4, CallsLemma DEF Typed
<1>6. Grows /\ silent' = silent /\ UNCHANGED users
  BY <1>0, Still, LogonAssumption DEF Finish, IInv, TypeOK, past, files
<1>7. tries'[n] \in 0 .. Tries
  BY <1>4, <1>2
<1>8. Typed(n)'
  BY <1>0, <1>4, <1>5, <1>2, <1>7 DEF Typed, Places, Prompts
<1>9. Fits(n)'
  BY <1>0, <1>4, <1>6 DEF Fits, Grows
<1>10. Placed(n)'
  BY <1>0, <1>4, <1>5, <1>1 DEF Placed, Chosen, SigningUp
<1> QED
  BY <1>0, <1>3, <1>6, <1>8, <1>9, <1>10, Frame

LEMMA ChangeHandleKeeps ==
  ASSUME IInv, NEW n \in Nodes, ChangeHandle(n)
  PROVE  IInv'
<1>0. Common /\ Typed(n) /\ Fits(n) /\ Placed(n) /\ silent \subseteq Nodes
  BY Now
<1>1. pc[n] = "menu" /\ Names \subseteq AnyName
  BY DEF ChangeHandle, AnyName
<1>2. Only(n)
  BY DEF ChangeHandle, Only, IInv, TypeOK, Goto, Set, copy, scratch
<1>3. /\ pc'[n] \in {"handle", "index"} /\ asked'[n] \in Names
      /\ UNCHANGED <<ret[n], after[n], line[n], rec[n], preset[n], emsi[n], tries[n],
                     cands[n], seen[n], size[n]>>
  BY DEF ChangeHandle, IInv, TypeOK, Goto, Set, copy, scratch
<1>4. Grows /\ silent' = silent /\ UNCHANGED users
  BY <1>0, Still, LogonAssumption DEF ChangeHandle, IInv, TypeOK, past, files
<1>5. Typed(n)'
  BY <1>0, <1>3, <1>1 DEF Typed, Places, Prompts
<1>6. Fits(n)'
  BY <1>0, <1>3, <1>4 DEF Fits, Grows
<1>7. Placed(n)'
  BY <1>0, <1>3, <1>1 DEF Placed, Chosen, SigningUp
<1> QED
  BY <1>0, <1>2, <1>4, <1>5, <1>6, <1>7, Frame

LEMMA TakeHandleKeeps ==
  ASSUME IInv, NEW n \in Nodes, TakeHandle(n)
  PROVE  IInv'
<1>0. Common /\ Typed(n) /\ Fits(n) /\ Placed(n) /\ silent \subseteq Nodes
  BY Now
<1>1. pc[n] = "handle"
  BY DEF TakeHandle
<1>2. NoName \in AnyName
  BY DEF AnyName
<1>3. Only(n)
  BY DEF TakeHandle, Only, IInv, TypeOK, Save, Goto, Set, scratch
<1>4. /\ pc'[n] = "save" /\ after'[n] = "menu" /\ asked'[n] = NoName
      /\ line'[n] = [line[n] EXCEPT !.handle = asked[n]]
      /\ UNCHANGED <<ret[n], rec[n], preset[n], emsi[n], tries[n], cands[n], seen[n],
                     size[n]>>
  BY DEF TakeHandle, IInv, TypeOK, Save, Goto, Set, scratch
<1>5. line'[n] \in User
  BY <1>0, <1>4, HandleLemma DEF Typed
<1>6. Grows /\ silent' = silent /\ UNCHANGED users
  BY <1>0, Still, LogonAssumption DEF TakeHandle, IInv, TypeOK, past, files
<1>7. Typed(n)'
  BY <1>0, <1>4, <1>5, <1>2 DEF Typed, Places, Prompts
<1>8. Fits(n)'
  BY <1>0, <1>4, <1>6 DEF Fits, Grows
<1>9. Placed(n)'
  BY <1>0, <1>4, <1>5, <1>1 DEF Placed, Chosen, SigningUp
<1> QED
  BY <1>0, <1>3, <1>6, <1>7, <1>8, <1>9, Frame

LEMMA SaveUserKeeps ==
  ASSUME IInv, NEW n \in Nodes, SaveUser(n)
  PROVE  IInv'
<1>0. Common /\ Typed(n) /\ Fits(n) /\ Placed(n) /\ silent \subseteq Nodes
  BY Now
<1>1. pc[n] = "menu"
  BY DEF SaveUser
<1>2. Only(n)
  BY DEF SaveUser, Only, IInv, TypeOK, Save, Goto, Set, typed, scratch, AnyPassword
<1>3. /\ pc'[n] = "save" /\ after'[n] = "menu"
      /\ UNCHANGED <<ret[n], rec[n], asked[n], preset[n], emsi[n], tries[n], cands[n],
                     seen[n], size[n]>>
  BY DEF SaveUser, IInv, TypeOK, Save, Goto, Set, typed, scratch, AnyPassword
<1>4. \E p \in AnyPassword : line'[n] = [line[n] EXCEPT !.pw = p]
  <2>1. PICK p \in Passwords : line' = Set(line, n, [line[n] EXCEPT !.pw = p])
    BY DEF SaveUser, Save
  <2> QED
    BY <2>1 DEF IInv, TypeOK, Set, AnyPassword
<1>5. line'[n] \in User
  BY <1>0, <1>4, PasswordLemma DEF Typed
<1>6. dials' \in 0 .. MaxDials /\ edits' \in 0 .. MaxEdits /\ blanked' \in BOOLEAN
  BY <1>0, LogonAssumption DEF SaveUser, Common, scratch
<1>7. Grows /\ silent' = silent /\ UNCHANGED users
  BY <1>6, Still DEF SaveUser, files, scratch
<1>8. Typed(n)'
  BY <1>0, <1>3, <1>5 DEF Typed, Places, Prompts
<1>9. Fits(n)'
  BY <1>0, <1>3, <1>7 DEF Fits, Grows
<1>10. Placed(n)'
  BY <1>0, <1>3, <1>5, <1>1 DEF Placed, Chosen, SigningUp
<1> QED
  BY <1>0, <1>2, <1>7, <1>8, <1>9, <1>10, Frame

LEMMA EditUserKeeps ==
  ASSUME IInv, NEW n \in Nodes, EditUser(n)
  PROVE  IInv'
<1>0. Common /\ Typed(n) /\ Fits(n) /\ Placed(n) /\ silent \subseteq Nodes
  BY Now
<1>1. pc[n] = "menu"
  BY DEF EditUser
<1>2. Only(n)
  BY DEF EditUser, Only, IInv, TypeOK, Save, Goto, Set, typed, scratch, AnyName
<1>3. /\ pc'[n] = "save" /\ after'[n] = "menu"
      /\ UNCHANGED <<ret[n], rec[n], asked[n], preset[n], emsi[n], tries[n], cands[n],
                     seen[n], size[n]>>
  BY DEF EditUser, IInv, TypeOK, Save, Goto, Set, typed, scratch, AnyName
<1>4. line'[n] \in User
  <2>1. PICK name \in Names, h \in AnyName, d \in BOOLEAN :
          line' = Set(line, n, [line[n] EXCEPT !.name = name, !.handle = h, !.deleted = d])
    BY DEF EditUser, Save
  <2>2. name \in AnyName /\ line[n] \in User
    BY <1>0 DEF Typed, AnyName
  <2>3. line'[n] = [line[n] EXCEPT !.name = name, !.handle = h, !.deleted = d]
    BY <2>1 DEF IInv, TypeOK, Set
  <2>4. [line[n] EXCEPT !.name = name, !.handle = h, !.deleted = d] \in User
    BY <2>2, DeletedLemma
  <2> QED
    BY <2>3, <2>4
<1>5. dials' \in 0 .. MaxDials /\ edits' \in 0 .. MaxEdits /\ blanked' \in BOOLEAN
  BY <1>0, LogonAssumption DEF EditUser, Common, scratch
<1>6. Grows /\ silent' = silent /\ UNCHANGED users
  BY <1>5, Still DEF EditUser, files, scratch
<1>7. Typed(n)'
  BY <1>0, <1>3, <1>4 DEF Typed, Places, Prompts
<1>8. Fits(n)'
  BY <1>0, <1>3, <1>6 DEF Fits, Grows
<1>9. Placed(n)'
  BY <1>0, <1>3, <1>4, <1>1 DEF Placed, Chosen, SigningUp
<1> QED
  BY <1>0, <1>2, <1>6, <1>7, <1>8, <1>9, Frame

LEMMA LogOffKeeps ==
  ASSUME IInv, NEW n \in Nodes, LogOff(n)
  PROVE  IInv'
<1>1. Grows
  BY Still DEF LogOff, IInv, TypeOK, past
<1> QED
  BY <1>1, EndKeeps DEF LogOff

LEMMA InputFailsKeeps ==
  ASSUME IInv, NEW n \in Nodes, InputFails(n)
  PROVE  IInv'
<1>1. silent \union {n} \in SUBSET Nodes
  BY Now
<1>2. Grows
  BY Still DEF InputFails, IInv, TypeOK, past
<1> QED
  BY <1>1, <1>2, SignUpKeeps, GiveUpKeeps, EndKeeps DEF InputFails

-----------------------------------------------------------------------------
LEMMA InitIInv == Init => IInv
<1> SUFFICES ASSUME Init PROVE IInv
  OBVIOUS
<1>1. users \in Seq(User)
  BY LogonAssumption DEF Init
<1>2. index \in Seq(Nat \X Nat) /\ Len(index) <= Len(users)
  <2>1. Len(users) \in Nat /\ <<>> \in Seq(Nat \X Nat) /\ Len(<<>>) = 0
    BY <1>1, EmptySeq
  <2>2. IndexOf(users) \in Seq(Nat \X Nat) /\ Len(IndexOf(users)) = Len(users)
    BY <1>1, IndexOfLemma
  <2>3. index = <<>> \/ index = IndexOf(users)
    BY DEF Init
  <2>4. CASE index = <<>>
    BY <2>1, <2>4
  <2>5. CASE index = IndexOf(users)
    BY <2>1, <2>2, <2>5
  <2> QED
    BY <2>3, <2>4, <2>5
<1>3. TypeOK
  <2>1. /\ ZeroUser \in User /\ NoName \in AnyName /\ NoPassword \in AnyPassword
        /\ Len(users) \in Nat /\ 1 \in 0 .. Len(users) + 1 /\ 0 \in 0 .. Len(users)
        /\ "off" \in Places /\ 0 \in 0 .. Tries
        /\ 0 \in 0 .. MaxDials /\ 0 \in 0 .. MaxEdits /\ <<>> \in Seq(User)
    BY <1>1, ZeroLemma, LogonAssumption DEF AnyName, AnyPassword, Places
  <2> QED
    BY <1>1, <1>2, <2>1 DEF Init, TypeOK
<1>4. SeenInv
  <2>1. Len(users) \in Nat /\ Len(<<>>) = 0
    BY <1>1
  <2> QED
    BY <2>1 DEF Init, SeenInv
<1> QED
  BY <1>3, <1>4 DEF Init, IInv, PutInv, AskedInv, NewInv, FoundAsAsked, Chosen, SigningUp

LEMMA NextKeeps == IInv /\ [Next]_vars => IInv'
<1> SUFFICES ASSUME IInv, [Next]_vars PROVE IInv'
  OBVIOUS
<1>1. CASE UNCHANGED vars
  BY <1>1 DEF vars, files, typed, copy, scratch, past, IInv, TypeOK, SeenInv, PutInv,
              AskedInv, NewInv, FoundAsAsked
<1>2. CASE Next
  <2> SUFFICES ASSUME NEW n \in Nodes,
                 \/ Call(n) \/ EnterName(n) \/ Iemsi(n) \/ Confirm(n) \/ FillForm(n)
                 \/ RunScript(n) \/ ChangeHandle(n) \/ SaveUser(n) \/ EditUser(n)
                 \/ LogOff(n) \/ InputFails(n) \/ Work(n)
               PROVE  IInv'
    BY <1>2 DEF Next
  <2>1. CASE Call(n) \/ EnterName(n) \/ Iemsi(n) \/ LogOff(n)
    BY <2>1, CallKeeps, EnterNameKeeps, IemsiKeeps, LogOffKeeps
  <2>2. CASE Confirm(n) \/ FillForm(n) \/ RunScript(n) \/ InputFails(n)
    BY <2>2, ConfirmKeeps, FillFormKeeps, RunScriptKeeps, InputFailsKeeps
  <2>3. CASE ChangeHandle(n) \/ SaveUser(n) \/ EditUser(n)
    BY <2>3, ChangeHandleKeeps, SaveUserKeeps, EditUserKeeps
  <2>4. CASE Searching(n)
    BY <2>4, SearchIndexKeeps, SearchRecordKeeps, SearchFileKeeps DEF Searching
  <2>5. CASE Admitting(n)
    BY <2>5, AskNameKeeps, GetPasswordKeeps, TriesExceededKeeps DEF Admitting
  <2>6. CASE Appending(n)
    BY <2>6, BeginAppendKeeps, AppendRecordKeeps, VerifyFirstKeeps, RestoreFirstKeeps,
       ListUsersKeeps, EmptyIndexKeeps, WriteIndexKeeps, IndexFailsKeeps DEF Appending
  <2>7. CASE Saving(n)
    BY <2>7, CheckRecordKeeps, WriteRecordKeeps, FinishKeeps, TakeHandleKeeps DEF Saving
  <2> QED
    BY <2>1, <2>2, <2>3, <2>4, <2>5, <2>6, <2>7 DEF Work
<1> QED
  BY <1>1, <1>2

-----------------------------------------------------------------------------
\* IInv holds in every state: the base for the theorems below.
THEOREM Invariant == Spec => []IInv
<1> QED
  BY InitIInv, NextKeeps, PTL DEF Spec

\* Record numbers, index entries and password tries keep their bounds, whatever
\* the user base, the index found and the number of nodes.
THEOREM TypeInvariant == Spec => []TypeOK
<1>1. IInv => TypeOK
  BY DEF IInv
<1> QED
  BY <1>1, Invariant, PTL

\* Nobody is asked for the password of, or let in as, a user whom the name that
\* was entered does not lead to: any number of logons, sign-ups, scripts and
\* edits at a time, any CRCs, an index of any age.
THEOREM FoundAsAskedHolds == Spec => []FoundAsAsked
<1>1. IInv => FoundAsAsked
  BY DEF IInv
<1> QED
  BY <1>1, Invariant, PTL

-----------------------------------------------------------------------------
(* Whose record it is. *)

\* No two users of an old user base have one name, and new users come from one node.
DistinctNames(file) ==
  \A i, j \in DOMAIN file :
    i # j /\ ~file[i].deleted /\ ~file[j].deleted => file[i].name # file[j].name
OneNewcomer == \A m, n \in Newcomers : m = n

\* Alike to a search.
Same(u, v) == u.name = v.name /\ u.handle = v.handle /\ u.deleted = v.deleted

\* A record and a user of one person, the first record being nobody's once it
\* was written for nobody; and as long as nobody changed a record, alike.
Keeps(r, v) ==
  /\ users[r].born = v.born \/ (r = 1 /\ blanked)
  /\ edits = 0 => Same(users[r], v)

\* AutoUser's caller before a user is found or made up: Record 0, the first one.
Blank(n) ==
  /\ ret[n] = "auto"
  /\ pc[n] \in {"index", "records", "confirm"} \/ (pc[n] \in {"save", "put"} /\ after[n] = "confirm")

\* line.User and its Record are not yet, or no longer, those of the caller.
Unknown(n) == pc[n] \in {"off", "loop"} \/ Blank(n)

\* The record is that of line.User, or there is none.
OwnLine(n) ==
  Unknown(n) \/ rec[n] = 0 \/ (rec[n] \in DOMAIN users /\ Keeps(rec[n], line[n]))

\* A new user is given no record before Append gives it one, and a newcomer
\* knows the size of the file.
OwnForm(n) ==
  /\ pc[n] \in {"form", "script", "signup", "append"} => rec[n] = 0 /\ n \in Newcomers
  /\ pc[n] \in {"save", "put"} /\ after[n] = "signup" =>
       rec[n] = 0 /\ n \in Newcomers /\ edits # 0
  /\ pc[n] = "append" => size[n] = Len(users)

\* What would be restored is the first user's.
OwnFirst(n) ==
  pc[n] \in {"append", "verify", "undo"} /\ seen[n] # <<>> => Keeps(1, seen[n][1])

\* As long as nobody changed a record, a name that was missed is missing.
OwnName(n) ==
  /\ pc[n] = "handle" \/ (pc[n] \in {"index", "records"} /\ ret[n] = "handle") => edits # 0
  /\ edits = 0 /\ n \in Newcomers /\ pc[n] \in {"confirm", "form", "script", "signup", "append"} =>
       \A i \in DOMAIN users : ~Found(users[i], asked[n])

\* Whoever has the zero line.User has the first record, until the menus at the
\* latest; and a script before the question about the name has changed something.
OwnBlank(n) ==
  /\ pc[n] = "off" \/ Blank(n) => rec[n] = 1
  /\ pc[n] \in {"menu", "handle"} => ret[n] = "handle"
  /\ pc[n] \in {"save", "put"} =>
       /\ after[n] # "off"
       /\ after[n] = "menu" => ret[n] = "handle"
       /\ after[n] = "confirm" => edits # 0

\* What holds of each node.
Own(n) == OwnLine(n) /\ OwnForm(n) /\ OwnFirst(n) /\ OwnName(n) /\ OwnBlank(n)
OwnInv == \A n \in Nodes : Own(n)

\* A step of one node.
NodeStep(n) ==
  \/ Call(n) \/ EnterName(n) \/ Iemsi(n) \/ Confirm(n) \/ FillForm(n)
  \/ RunScript(n) \/ ChangeHandle(n) \/ SaveUser(n) \/ EditUser(n) \/ LogOff(n)
  \/ InputFails(n)
  \/ Work(n)

\* Every record that there is stays its owner's, and only a newcomer adds one.
UsersKept(n) ==
  /\ DOMAIN users \subseteq DOMAIN users'
  /\ \A r \in DOMAIN users :
       /\ users'[r].born = users[r].born \/ (r = 1 /\ blanked')
       /\ edits' = 0 => Same(users'[r], users[r])
  /\ blanked => blanked'
  /\ DOMAIN users' = DOMAIN users \/ (pc[n] = "append" /\ n \in Newcomers)

\* A scan that finds nobody has looked at everybody.
LEMMA ScanMisses ==
  ASSUME NEW file \in Seq(User), NEW want, Scan(file, want) = 0
  PROVE  \A i \in DOMAIN file : ~Found(file[i], want)
<1> SUFFICES ASSUME \E i \in DOMAIN file : Found(file[i], want) PROVE FALSE
  OBVIOUS
<1>1. Scan(file, want) \in DOMAIN file
  BY ScanFinds
<1>2. 0 \notin DOMAIN file
  OBVIOUS
<1> QED BY <1>1, <1>2

\* The steps touch one node each: what several of them end with,
LEMMA OnlyEnds ==
  ASSUME IInv, NEW n \in Nodes, NEW gone,
         End(n) \/ GiveUp(n, gone) \/ SignUp(n, gone) \/ Miss(n) \/ \E i : Hit(n, i)
  PROVE  Only(n)
<1>1. CASE End(n)
  BY <1>1 DEF End, Only, IInv, TypeOK, Goto, Return, Set
<1>2. CASE GiveUp(n, gone) /\ ~End(n)
  BY <1>2 DEF GiveUp, Only, IInv, TypeOK, Goto, Set, typed, copy
<1>3. CASE SignUp(n, gone)
  BY <1>3 DEF SignUp, Only, IInv, TypeOK, Goto, Set, typed, scratch
<1>4. CASE Miss(n) /\ ~End(n)
  BY <1>4 DEF Miss, Only, IInv, TypeOK, Goto, typed, copy, scratch
<1>5. CASE \E i : Hit(n, i) /\ ~End(n)
  BY <1>5 DEF Hit, Only, IInv, TypeOK, Goto, Set, typed, copy
<1> QED BY <1>1, <1>2, <1>3, <1>4, <1>5

\* one by one,
LEMMA OnlyStep ==
  ASSUME IInv, NEW n \in Nodes, NodeStep(n)
  PROVE  Only(n)
<1>1. CASE Call(n) \/ EnterName(n) \/ Iemsi(n)
  BY <1>1 DEF Call, EnterName, Iemsi, Look, Only, IInv, TypeOK, Goto, Return, Set, copy, scratch
<1>2. CASE Confirm(n) \/ LogOff(n) \/ InputFails(n)
  BY <1>2, OnlyEnds DEF Confirm, LogOff, InputFails
<1>3. CASE FillForm(n)
  BY <1>3 DEF FillForm, Only, IInv, TypeOK, Goto, Set, typed, scratch
<1>4. CASE RunScript(n) \/ ChangeHandle(n)
  BY <1>4 DEF RunScript, ChangeHandle, Save, Only, IInv, TypeOK, Goto, Set, typed, copy, scratch
<1>5. CASE SaveUser(n) \/ EditUser(n)
  <2>1. /\ \E u, p : Save(n, u, p)
        /\ UNCHANGED <<ret, typed, rec, tries, scratch>>
    BY <1>5, Zenon DEF SaveUser, EditUser
  <2> QED BY <2>1 DEF Save, Only, IInv, TypeOK, Goto, Set, typed, scratch
<1>6. CASE SearchIndex(n)
  BY <1>6 DEF SearchIndex, Only, IInv, TypeOK, Goto, Set, typed, copy
<1>7. CASE SearchRecord(n)
  <2>1. CASE \E i : Hit(n, i)
    BY <2>1, OnlyEnds
  <2>2. CASE ~\E i : Hit(n, i)
    BY <1>7, <2>2 DEF SearchRecord, NextCandidate, Only, IInv, TypeOK, Set, typed, copy
  <2> QED BY <2>1, <2>2
<1>8. CASE SearchFile(n)
  BY <1>8, OnlyEnds DEF SearchFile
<1>9. CASE AskName(n) \/ TriesExceeded(n)
  <2>1. CASE AskName(n)
    BY <2>1 DEF AskName, Only, IInv, TypeOK, Goto, Return, Set, scratch
  <2>2. CASE TriesExceeded(n)
    BY <2>2, OnlyEnds DEF TriesExceeded
  <2> QED BY <1>9, <2>1, <2>2
<1>10. CASE GetPassword(n)
  BY <1>10 DEF GetPassword, TryPassword, Only, IInv, TypeOK, Goto, Set, copy, scratch
<1>11. CASE BeginAppend(n)
  BY <1>11 DEF BeginAppend, Only, IInv, TypeOK, Goto, Set, typed
<1>12. CASE AppendRecord(n) \/ VerifyFirst(n)
  BY <1>12 DEF AppendRecord, VerifyFirst, Only, IInv, TypeOK, Goto, Set, typed, copy, scratch
<1>13. CASE RestoreFirst(n) \/ IndexFails(n)
  BY <1>13, OnlyEnds DEF RestoreFirst, IndexFails
<1>14. CASE ListUsers(n) \/ EmptyIndex(n) \/ WriteIndex(n)
  <2>1. CASE ListUsers(n)
    BY <2>1 DEF ListUsers, Only, IInv, TypeOK, Goto, Set, typed, copy
  <2>2. CASE EmptyIndex(n)
    BY <2>2 DEF EmptyIndex, Only, IInv, TypeOK, Goto, typed, copy, scratch
  <2>3. CASE WriteIndex(n)
    BY <2>3 DEF WriteIndex, Only, IInv, TypeOK, Goto, typed, copy, scratch
  <2> QED BY <1>14, <2>1, <2>2, <2>3
<1>15. CASE CheckRecord(n) \/ WriteRecord(n)
  BY <1>15 DEF CheckRecord, WriteRecord, Only, IInv, TypeOK, Goto, typed, copy, scratch
<1>16. CASE Finish(n) \/ TakeHandle(n)
  BY <1>16 DEF Finish, TakeHandle, Save, Only, IInv, TypeOK, Goto, Return, Set, scratch
<1> QED BY <1>1, <1>2, <1>3, <1>4, <1>5, <1>6, <1>7, <1>8, <1>9, <1>10, <1>11, <1>12, <1>13,
           <1>14, <1>15, <1>16 DEF NodeStep, Work, Searching, Admitting, Appending, Saving

\* and only Write and Append touch the file.
LEMMA UsersStay ==
  ASSUME IInv, NEW n \in Nodes, NodeStep(n)
  PROVE  /\ edits' \in Nat /\ (edits' = 0 => edits = 0)
         /\ users' = users \/ WriteRecord(n) \/ AppendRecord(n) \/ RestoreFirst(n)
         /\ blanked => blanked'
<1>0. edits \in Nat
  BY LogonAssumption DEF IInv, TypeOK
<1>1. CASE UNCHANGED <<users, past>>
  BY <1>0, <1>1 DEF past
<1>2. CASE UNCHANGED past /\ (AppendRecord(n) \/ RestoreFirst(n))
  BY <1>0, <1>2 DEF past
<1>3. CASE WriteRecord(n)
  BY <1>0, <1>3 DEF WriteRecord
<1>4. CASE Call(n)
  BY <1>0, <1>4, Zenon DEF Call, files
<1>5. CASE RunScript(n) \/ ChangeHandle(n) \/ SaveUser(n) \/ EditUser(n)
  <2>1. edits' = edits + 1 /\ users' = users /\ blanked' = blanked
    BY <1>5, Zenon DEF RunScript, ChangeHandle, SaveUser, EditUser, files
  <2> QED BY <1>0, <2>1
<1>6. CASE EnterName(n) \/ Iemsi(n) \/ Confirm(n) \/ FillForm(n) \/ LogOff(n) \/ InputFails(n)
  BY <1>1, <1>6, Zenon DEF EnterName, Iemsi, Confirm, FillForm, LogOff, InputFails, files
<1>7. CASE Searching(n) \/ Admitting(n)
  BY <1>1, <1>7, Zenon DEF Searching, Admitting, SearchIndex, SearchRecord, NextCandidate, SearchFile,
        AskName, GetPassword, TriesExceeded, files
<1>8. CASE Appending(n)
  BY <1>1, <1>2, <1>8, Zenon DEF Appending, BeginAppend, AppendRecord, VerifyFirst, RestoreFirst, ListUsers,
        EmptyIndex, WriteIndex, IndexFails, files
<1>9. CASE Saving(n)
  BY <1>1, <1>3, <1>9, Zenon DEF Saving, CheckRecord, Finish, TakeHandle, files
<1> QED BY <1>3, <1>4, <1>5, <1>6, <1>7, <1>8, <1>9 DEF NodeStep, Work

\* Every step keeps the records' owners.
LEMMA UsersAreKept ==
  ASSUME IInv, NEW n \in Nodes, NodeStep(n), Own(n)
  PROVE  UsersKept(n)
<1>0. /\ users \in Seq(User) /\ DOMAIN users = 1 .. Len(users) /\ Len(users) \in Nat
      /\ line[n] \in User /\ seen[n] \in Seq(User) /\ Len(seen[n]) <= Len(users)
  BY DEF IInv, TypeOK, SeenInv
<1>1. (edits' = 0 => edits = 0) /\ (blanked => blanked')
  BY UsersStay
<1>2. CASE users' = users
  BY <1>1, <1>2 DEF UsersKept, Same
<1>3. CASE WriteRecord(n)
  <2>1. pc[n] = "put" /\ users' = Put(users, rec[n], line[n]) /\ rec[n] \in DOMAIN users
    BY <1>3 DEF WriteRecord, IInv, PutInv
  <2>2. users' = [users EXCEPT ![rec[n]] = line[n]] /\ rec[n] # 0
    <3>1. rec[n] # Len(users) + 1 /\ rec[n] # 0
      BY <1>0, <2>1
    <3> QED BY <2>1, <3>1 DEF Put
  <2>3. CASE Blank(n)
    <3>1. rec[n] = 1 /\ edits # 0 /\ blanked'
      BY <1>3, <2>1, <2>3 DEF Own, OwnBlank, Blank, WriteRecord
    <3> QED BY <1>1, <2>2, <3>1 DEF UsersKept, Same
  <2>4. CASE ~Blank(n)
    <3>1. Keeps(rec[n], line[n])
      BY <2>1, <2>2, <2>4 DEF Own, OwnLine, Unknown
    <3> QED BY <1>1, <2>2, <3>1 DEF UsersKept, Keeps, Same
  <2> QED BY <2>3, <2>4
<1>4. CASE AppendRecord(n)
  <2>1. pc[n] = "append" /\ n \in Newcomers /\ size[n] = Len(users)
    BY <1>4 DEF AppendRecord, Own, OwnForm
  <2>2. users' = Append(users, line[n])
    BY <1>4, <2>1 DEF AppendRecord, Put
  <2>3. /\ DOMAIN users \subseteq DOMAIN users'
        /\ \A r \in DOMAIN users : users'[r] = users[r]
    BY <1>0, <2>2
  <2> QED BY <1>1, <2>1, <2>3 DEF UsersKept, Same
<1>5. CASE RestoreFirst(n)
  <2>1. pc[n] = "undo" /\ seen[n] # <<>> /\ users' = Put(users, 1, seen[n][1])
    BY <1>5 DEF RestoreFirst, IInv, PutInv
  <2>2. 1 \in DOMAIN users /\ 1 # Len(users) + 1
    BY <1>0, <2>1
  <2>3. users' = [users EXCEPT ![1] = seen[n][1]] /\ Keeps(1, seen[n][1])
    BY <2>1, <2>2 DEF Put, Own, OwnFirst
  <2> QED BY <1>1, <2>2, <2>3 DEF UsersKept, Keeps, Same
<1> QED BY <1>2, <1>3, <1>4, <1>5, UsersStay

\* The other nodes' parts survive.
LEMMA OthersOwn ==
  ASSUME IInv, OneNewcomer, NEW n \in Nodes, Only(n), UsersKept(n), edits' = 0 => edits = 0,
         NEW m \in Nodes, m # n, Own(m)
  PROVE  Own(m)'
<1>1. /\ pc'[m] = pc[m] /\ ret'[m] = ret[m] /\ after'[m] = after[m] /\ line'[m] = line[m]
      /\ rec'[m] = rec[m] /\ asked'[m] = asked[m] /\ seen'[m] = seen[m] /\ size'[m] = size[m]
  BY DEF Only, IInv, TypeOK
<1>2. ASSUME NEW r \in DOMAIN users, NEW u, Keeps(r, u)
      PROVE  /\ r \in DOMAIN users'
             /\ users'[r].born = u.born \/ (r = 1 /\ blanked')
             /\ edits' = 0 => Same(users'[r], u)
  BY <1>2 DEF UsersKept, Keeps, Same
<1>3. OwnLine(m)'
  BY <1>1, <1>2 DEF Own, OwnLine, Unknown, Blank, Keeps
<1>4. m \in Newcomers => DOMAIN users' = DOMAIN users
  BY DEF UsersKept, OneNewcomer, Own, OwnForm
<1>5. OwnForm(m)'
  <2>1. pc[m] = "append" => Len(users') = Len(users)
    BY <1>4 DEF Own, OwnForm, IInv, TypeOK
  <2> QED BY <1>1, <2>1 DEF Own, OwnForm
<1>6. OwnFirst(m)'
  <2>1. seen[m] # <<>> => 1 \in DOMAIN users
    BY DEF IInv, TypeOK, SeenInv
  <2> QED BY <1>1, <1>2, <2>1 DEF Own, OwnFirst, Keeps
<1>7. OwnName(m)'
  <2>1. ASSUME edits' = 0, NEW i \in DOMAIN users, Found(users'[i], asked[m]) PROVE Found(users[i], asked[m])
    BY <2>1 DEF UsersKept, Same, Found, Answers
  <2> QED BY <1>1, <1>4, <2>1 DEF Own, OwnName
<1>8. OwnBlank(m)'
  BY <1>1 DEF Own, OwnBlank, Blank
<1> QED BY <1>3, <1>5, <1>6, <1>7, <1>8 DEF Own

\* Who has left, or is back at the head of the loop, has nothing.
LEMMA OwnAway ==
  ASSUME NEW n \in Nodes, pc'[n] \in {"off", "loop"}, pc'[n] = "off" => rec'[n] = 1
  PROVE  Own(n)'
BY DEF Own, OwnLine, Unknown, Blank, OwnForm, OwnFirst, OwnName, OwnBlank

\* A session that keeps its record, and its line but for changes, has the right one still.
LEMMA OwnLineStays ==
  ASSUME NEW n \in Nodes, OwnLine(n), ~Unknown(n), users' = users, rec'[n] = rec[n],
         line'[n].born = line[n].born, edits' = 0 => edits = 0 /\ Same(line'[n], line[n]),
         blanked => blanked'
  PROVE  OwnLine(n)'
BY DEF OwnLine, Keeps, Same

\* So it is when the process ends or the sign-up is given up.
LEMMA OwnEnds ==
  ASSUME IInv, NEW n \in Nodes, NEW gone, End(n) \/ GiveUp(n, gone)
  PROVE  Own(n)'
<1>1. pc'[n] \in {"off", "loop"} /\ (pc'[n] = "off" => rec'[n] = 1)
  BY DEF End, GiveUp, Goto, Set, IInv, TypeOK
<1> QED BY <1>1, OwnAway

\* A new user has no record yet, and the name was missed.
LEMMA OwnSignUp ==
  ASSUME IInv, NEW n \in Nodes, NEW gone, Own(n), pc[n] = "confirm", n \in Newcomers,
         SignUp(n, gone), users' = users, edits' = edits
  PROVE  Own(n)'
<1>1. pc'[n] = "form" /\ rec'[n] = 0 /\ asked'[n] = asked[n]
  BY DEF SignUp, Goto, Set, IInv, TypeOK, typed
<1>2. OwnName(n)'
  BY <1>1 DEF Own, OwnName
<1> QED BY <1>1, <1>2 DEF Own, OwnLine, OwnForm, OwnFirst, OwnBlank, Blank

\* A hit takes over the record that was read, or comes back from the search for a handle.
LEMMA OwnHit ==
  ASSUME IInv, NEW n \in Nodes, Own(n), pc[n] = "records", NEW i \in DOMAIN users, Hit(n, i),
         users' = users, edits' = edits, blanked' = blanked
  PROVE  Own(n)'
<1>1. CASE End(n)
  BY <1>1, OwnEnds
<1>2. CASE ret[n] = "handle" /\ ~End(n)
  <2>1. /\ pc'[n] \in {"handle", "menu"} /\ UNCHANGED <<rec[n], line[n], ret[n]>> /\ ~Unknown(n)
    BY <1>2 DEF Hit, Goto, copy, IInv, TypeOK, Unknown, Blank
  <2>2. OwnLine(n)'
    BY <2>1, OwnLineStays DEF Own, Same
  <2>3. edits # 0
    BY <1>2 DEF Own, OwnName
  <2> QED BY <1>2, <2>1, <2>2, <2>3 DEF Own, OwnForm, OwnFirst, OwnName, OwnBlank, Blank
<1>3. CASE ret[n] # "handle" /\ ~End(n)
  <2>1. pc'[n] \in {"finish", "password"} /\ line'[n] = users[i] /\ rec'[n] = i
    BY <1>3 DEF Hit, Goto, Set, IInv, TypeOK
  <2>2. OwnLine(n)'
    BY <2>1 DEF OwnLine, Keeps, Same
  <2> QED BY <2>1, <2>2 DEF Own, OwnForm, OwnFirst, OwnName, OwnBlank, Blank
<1> QED BY <1>1, <1>2, <1>3

\* A miss says that the name is missing.
LEMMA OwnMiss ==
  ASSUME IInv, NEW n \in Nodes, Own(n), pc[n] = "records", Scan(users, asked[n]) = 0, Miss(n),
         users' = users, edits' = edits, blanked' = blanked
  PROVE  Own(n)'
<1>1. CASE pc'[n] = "loop"
  BY <1>1, OwnAway
<1>2. CASE End(n)
  BY <1>2, OwnEnds
<1>3. CASE pc'[n] # "loop" /\ ~End(n)
  <2>1. /\ pc'[n] \in {"handle", "confirm"} /\ (pc'[n] = "handle" => ret[n] = "handle")
        /\ UNCHANGED <<rec[n], line[n], asked[n], ret[n]>>
    BY <1>3 DEF Miss, Goto, copy, typed, IInv, TypeOK
  <2>2. OwnLine(n)'
    BY <2>1 DEF Own, OwnLine, Keeps, Same, Unknown, Blank
  <2>3. \A i \in DOMAIN users : ~Found(users[i], asked[n])
    BY ScanMisses DEF IInv, TypeOK
  <2>4. OwnName(n)'
    BY <2>1, <2>3 DEF Own, OwnName
  <2> QED BY <2>1, <2>2, <2>4 DEF Own, OwnForm, OwnFirst, OwnBlank, Blank
<1> QED BY <1>1, <1>2, <1>3

\* The actions: a search,
LEMMA OwnSearching ==
  ASSUME IInv, NEW n \in Nodes, Own(n), Searching(n)
  PROVE  Own(n)'
<1>0. users' = users /\ edits' = edits /\ blanked' = blanked
  BY Zenon DEF Searching, SearchIndex, SearchRecord, NextCandidate, SearchFile, files, past
<1>1. CASE SearchIndex(n)
  <2>1. /\ pc[n] = "index" /\ pc'[n] = "records"
        /\ UNCHANGED <<rec[n], line[n], ret[n], edits>>
    BY <1>1 DEF SearchIndex, Goto, copy, IInv, TypeOK, past
  <2>2. OwnLine(n)'
    BY <1>0, <2>1 DEF Own, OwnLine, Keeps, Same, Unknown, Blank
  <2> QED BY <2>1, <2>2 DEF Own, OwnForm, OwnFirst, OwnName, OwnBlank, Blank
<1>2. CASE SearchRecord(n)
  <2>1. pc[n] = "records"
    BY <1>2 DEF SearchRecord, NextCandidate
  <2>2. CASE \E i \in DOMAIN users : Hit(n, i)
    BY <1>0, <2>1, <2>2, OwnHit
  <2>3. CASE UNCHANGED <<pc, ret, after, typed, copy, tries, seen, size, silent>>
    BY <1>0, <2>1, <2>3 DEF Own, OwnLine, Unknown, Blank, Keeps, Same, OwnForm, OwnFirst, OwnName, OwnBlank,
                            copy, typed
  <2> QED BY <1>2, <2>2, <2>3, Zenon DEF SearchRecord, NextCandidate
<1>3. CASE SearchFile(n)
  <2> DEFINE i == Scan(users, asked[n])
  <2>1. pc[n] = "records" /\ (IF i # 0 THEN Hit(n, i) ELSE Miss(n))
    BY <1>3 DEF SearchFile
  <2>2. i # 0 => i \in DOMAIN users
    BY ScanLemma DEF IInv, TypeOK
  <2> QED BY <1>0, <2>1, <2>2, OwnHit, OwnMiss
<1> QED BY <1>1, <1>2, <1>3 DEF Searching

\* the name prompt and the password,
LEMMA OwnAdmitting ==
  ASSUME IInv, NEW n \in Nodes, Own(n), Admitting(n),
         blanked => blanked'
  PROVE  Own(n)'
<1>1. CASE AskName(n)
  <2>1. pc'[n] = "name" /\ rec'[n] = 0
    BY <1>1 DEF AskName, Goto, Set, IInv, TypeOK
  <2> QED BY <2>1 DEF Own, OwnLine, OwnForm, OwnFirst, OwnName, OwnBlank, Blank
<1>2. CASE GetPassword(n)
  <2>1. /\ pc[n] = "password" /\ pc'[n] \in {"finish", "password"} /\ users' = users /\ edits' = edits
        /\ UNCHANGED <<rec[n], line[n]>>
    BY <1>2 DEF GetPassword, TryPassword, Goto, copy, files, past, IInv, TypeOK
  <2>2. OwnLine(n)'
    BY <2>1, OwnLineStays DEF Own, Unknown, Blank, Same
  <2> QED BY <2>1, <2>2 DEF Own, OwnForm, OwnFirst, OwnName, OwnBlank, Blank
<1>3. CASE TriesExceeded(n)
  BY <1>3, OwnEnds DEF TriesExceeded
<1> QED BY <1>1, <1>2, <1>3 DEF Admitting

\* Append and RebuildIndex: a new user gets the record at the end of the file,
LEMMA OwnAppending ==
  ASSUME IInv, NEW n \in Nodes, Own(n), Appending(n),
         blanked => blanked'
  PROVE  Own(n)'
<1>0. /\ users \in Seq(User) /\ DOMAIN users = 1 .. Len(users) /\ Len(users) \in Nat
      /\ line[n] \in User /\ seen[n] \in Seq(User) /\ Len(seen[n]) <= Len(users)
  BY DEF IInv, TypeOK, SeenInv
<1>1. CASE BeginAppend(n)
  <2>1. /\ pc[n] = "signup" /\ pc'[n] = "append" /\ rec'[n] = 0 /\ size'[n] = Len(users)
        /\ seen'[n] = First(users) /\ asked'[n] = asked[n] /\ users' = users /\ edits' = edits
    BY <1>1 DEF BeginAppend, Goto, Set, typed, files, past, IInv, TypeOK
  <2>2. First(users) # <<>> => First(users)[1] = users[1]
    BY <1>0 DEF First
  <2>3. OwnFirst(n)'
    BY <2>1, <2>2 DEF OwnFirst, Keeps, Same
  <2>4. OwnName(n)'
    BY <2>1 DEF Own, OwnName
  <2> QED BY <2>1, <2>3, <2>4 DEF Own, OwnLine, OwnForm, OwnBlank, Blank
<1>2. CASE AppendRecord(n)
  <2>1. /\ pc[n] = "append" /\ pc'[n] = "verify" /\ rec'[n] = size[n] + 1
        /\ users' = Put(users, size[n] + 1, line[n]) /\ line'[n] = line[n]
        /\ seen'[n] = seen[n] /\ edits' = edits
    BY <1>2 DEF AppendRecord, Goto, Set, scratch, past, IInv, TypeOK
  <2>2. users' = Append(users, line[n]) /\ rec'[n] = Len(users) + 1
    BY <2>1 DEF Put, Own, OwnForm
  <2>3. /\ rec'[n] \in DOMAIN users' /\ users'[rec'[n]] = line[n]
        /\ seen[n] # <<>> => users'[1] = users[1]
    BY <1>0, <2>2
  <2>4. OwnLine(n)'
    BY <2>1, <2>3 DEF OwnLine, Keeps, Same
  <2>5. OwnFirst(n)'
    BY <2>1, <2>3 DEF Own, OwnFirst, Keeps, Same
  <2> QED BY <2>1, <2>4, <2>5 DEF Own, OwnForm, OwnName, OwnBlank, Blank
<1>3. CASE VerifyFirst(n)
  <2>1. /\ pc[n] = "verify" /\ pc'[n] \in {"list", "undo"} /\ users' = users /\ edits' = edits
        /\ UNCHANGED <<rec[n], line[n], seen[n]>>
    BY <1>3 DEF VerifyFirst, Goto, copy, scratch, files, past, IInv, TypeOK
  <2>2. OwnLine(n)'
    BY <2>1, OwnLineStays DEF Own, Unknown, Blank, Same
  <2>3. OwnFirst(n)'
    BY <2>1 DEF Own, OwnFirst, Keeps, Same
  <2> QED BY <2>1, <2>2, <2>3 DEF Own, OwnForm, OwnName, OwnBlank, Blank
<1>4. CASE RestoreFirst(n) \/ IndexFails(n)
  BY <1>4, OwnEnds DEF RestoreFirst, IndexFails
<1>5. CASE ListUsers(n) \/ EmptyIndex(n) \/ WriteIndex(n)
  <2>1. /\ pc[n] \in {"list", "empty", "index entries"} /\ pc'[n] \in {"empty", "index entries", "finish"}
        /\ users' = users /\ edits' = edits /\ UNCHANGED <<rec[n], line[n]>>
    BY <1>5 DEF ListUsers, EmptyIndex, WriteIndex, Goto, copy, files, past, IInv, TypeOK
  <2>2. OwnLine(n)'
    BY <2>1, OwnLineStays DEF Own, Unknown, Blank, Same
  <2> QED BY <2>1, <2>2 DEF Own, OwnForm, OwnFirst, OwnName, OwnBlank, Blank
<1> QED BY <1>1, <1>2, <1>3, <1>4, <1>5 DEF Appending

\* Write, whose record then holds the line that was written,
LEMMA OwnSaving ==
  ASSUME IInv, NEW n \in Nodes, Own(n), Saving(n),
         blanked => blanked'
  PROVE  Own(n)'
<1>0. /\ users \in Seq(User) /\ DOMAIN users = 1 .. Len(users) /\ Len(users) \in Nat
      /\ line[n] \in User /\ after[n] \in {"off", "name", "confirm", "signup", "out", "menu"}
  BY DEF IInv, TypeOK
<1>1. CASE CheckRecord(n)
  <2>1. /\ pc[n] = "save" /\ pc'[n] \in {"put", after[n]} /\ users' = users /\ edits' = edits
        /\ UNCHANGED <<rec[n], line[n], after[n], ret[n]>>
    BY <1>1 DEF CheckRecord, Goto, copy, files, past, IInv, TypeOK
  <2>2. OwnLine(n)'
    <3>1. CASE Unknown(n)
      BY <2>1, <3>1 DEF OwnLine, Unknown, Blank
    <3>2. CASE ~Unknown(n)
      BY <2>1, <3>2, OwnLineStays DEF Own, Same
    <3> QED BY <3>1, <3>2
  <2> QED BY <1>0, <2>1, <2>2 DEF Own, OwnForm, OwnFirst, OwnName, OwnBlank, Blank
<1>2. CASE WriteRecord(n)
  <2>1. /\ pc[n] = "put" /\ pc'[n] = after[n] /\ users' = Put(users, rec[n], line[n]) /\ edits' = edits
        /\ UNCHANGED <<rec[n], line[n], ret[n], after[n]>> /\ rec[n] \in DOMAIN users
    BY <1>2 DEF WriteRecord, Goto, copy, past, IInv, TypeOK, PutInv
  <2>2. rec[n] \in DOMAIN users' /\ users'[rec[n]] = line[n]
    <3>1. rec[n] # Len(users) + 1
      BY <1>0, <2>1
    <3>2. users' = [users EXCEPT ![rec[n]] = line[n]]
      BY <2>1, <3>1 DEF Put
    <3> QED BY <2>1, <3>2
  <2>3. OwnLine(n)'
    BY <2>1, <2>2 DEF OwnLine, Keeps, Same
  <2> QED BY <1>0, <2>1, <2>3 DEF Own, OwnForm, OwnFirst, OwnName, OwnBlank, Blank
<1>3. CASE Finish(n)
  <2>1. /\ pc[n] = "finish" /\ pc'[n] = "save" /\ after'[n] = "menu" /\ users' = users /\ edits' = edits
        /\ rec'[n] = rec[n] /\ line'[n] = [line[n] EXCEPT !.calls = line[n].calls + 1]
        /\ ret'[n] = "handle"
    BY <1>3 DEF Finish, Save, Goto, Return, Set, files, past, IInv, TypeOK
  <2>2. line'[n].born = line[n].born /\ Same(line'[n], line[n])
    BY <1>0, <2>1 DEF User, Same
  <2>3. OwnLine(n)'
    BY <2>1, <2>2, OwnLineStays DEF Own, Unknown, Blank
  <2> QED BY <2>1, <2>3 DEF Own, OwnForm, OwnFirst, OwnName, OwnBlank, Blank
<1>4. CASE TakeHandle(n)
  <2>1. /\ pc[n] = "handle" /\ pc'[n] = "save" /\ after'[n] = "menu" /\ users' = users /\ edits' = edits
        /\ rec'[n] = rec[n] /\ line'[n] = [line[n] EXCEPT !.handle = asked[n]]
        /\ ret'[n] = ret[n]
    BY <1>4 DEF TakeHandle, Save, Goto, Set, files, past, IInv, TypeOK
  <2>2. line'[n].born = line[n].born /\ edits # 0
    BY <1>0, <2>1 DEF User, Own, OwnName
  <2>3. OwnLine(n)'
    BY <2>1, <2>2, OwnLineStays DEF Own, Unknown, Blank
  <2> QED BY <2>1, <2>2, <2>3 DEF Own, OwnForm, OwnFirst, OwnName, OwnBlank, Blank
<1> QED BY <1>1, <1>2, <1>3, <1>4 DEF Saving

\* a call and a name that was entered,
LEMMA OwnCalls ==
  ASSUME IInv, NEW n \in Nodes, Own(n), Call(n) \/ EnterName(n) \/ Iemsi(n),
         blanked => blanked'
  PROVE  Own(n)'
<1>1. CASE Call(n)
  <2>1. pc'[n] = "loop" \/ (pc'[n] = "index" /\ ret'[n] = "auto" /\ rec'[n] = 1)
    BY <1>1 DEF Call, Goto, Return, copy, IInv, TypeOK, Own, OwnBlank
  <2> QED BY <2>1, OwnAway DEF Own, OwnLine, Unknown, Blank, OwnForm, OwnFirst, OwnName, OwnBlank
<1>2. CASE EnterName(n) \/ Iemsi(n)
  <2>1. /\ pc[n] = "name" /\ (pc'[n] = "name" \/ (pc'[n] = "index" /\ ret'[n] = "name"))
        /\ users' = users /\ edits' = edits /\ UNCHANGED <<rec[n], line[n]>>
    BY <1>2 DEF EnterName, Iemsi, Look, Goto, Return, copy, files, past, IInv, TypeOK
  <2>2. OwnLine(n)'
    BY <2>1, OwnLineStays DEF Own, Unknown, Blank, Same
  <2> QED BY <2>1, <2>2 DEF Own, OwnForm, OwnFirst, OwnName, OwnBlank, Blank
<1> QED BY <1>1, <1>2

\* the questions for a new user, and the ends,
LEMMA OwnForms ==
  ASSUME IInv, NEW n \in Nodes, Own(n), Confirm(n) \/ FillForm(n) \/ InputFails(n) \/ LogOff(n),
         blanked => blanked'
  PROVE  Own(n)'
<1>1. CASE Confirm(n) \/ InputFails(n) \/ LogOff(n)
  <2>1. users' = users /\ edits' = edits
    BY <1>1, Zenon DEF Confirm, InputFails, LogOff, files, past
  <2>2. CASE \E gone : pc[n] = "confirm" /\ n \in Newcomers /\ SignUp(n, gone)
    BY <2>1, <2>2, OwnSignUp
  <2>3. CASE \E gone : End(n) \/ GiveUp(n, gone)
    BY <2>3, OwnEnds
  <2> QED BY <1>1, <2>2, <2>3, Zenon DEF Confirm, InputFails, LogOff, Accepted
<1>2. CASE FillForm(n)
  <2>1. /\ pc[n] = "form" /\ pc'[n] \in {"script", "signup"} /\ users' = users /\ edits' = edits
        /\ UNCHANGED <<rec[n], asked[n]>>
    BY <1>2 DEF FillForm, Goto, typed, files, past, IInv, TypeOK
  <2>2. rec'[n] = 0 /\ n \in Newcomers
    BY <2>1 DEF Own, OwnForm
  <2>3. OwnName(n)'
    BY <2>1 DEF Own, OwnName
  <2> QED BY <2>1, <2>2, <2>3 DEF Own, OwnLine, OwnForm, OwnFirst, OwnBlank, Blank
<1> QED BY <1>1, <1>2

\* and the changes of a record, of which only the person is known.
LEMMA OwnEdits ==
  ASSUME IInv, NEW n \in Nodes, Own(n), RunScript(n) \/ ChangeHandle(n) \/ SaveUser(n) \/ EditUser(n),
         blanked => blanked'
  PROVE  Own(n)'
<1>0. edits \in Nat /\ line[n] \in User
  BY LogonAssumption DEF IInv, TypeOK
<1>1. edits' = edits + 1 /\ users' = users /\ rec' = rec
  BY Zenon DEF RunScript, ChangeHandle, SaveUser, EditUser, files, copy
<1>2. edits' # 0
  BY <1>0, <1>1
<1>3. CASE ChangeHandle(n)
  <2>1. pc[n] = "menu" /\ pc'[n] \in {"handle", "index"} /\ line' = line /\ ret' = ret
    BY <1>3 DEF ChangeHandle, Goto, copy, IInv, TypeOK
  <2>2. OwnLine(n)'
    BY <1>1, <1>2, <2>1, OwnLineStays DEF Own, Unknown, Blank
  <2> QED BY <1>2, <2>1, <2>2 DEF Own, OwnForm, OwnFirst, OwnName, OwnBlank, Blank
<1>4. CASE RunScript(n) \/ SaveUser(n) \/ EditUser(n)
  <2>1. /\ pc[n] \in {"name", "confirm", "password", "script", "menu"} /\ pc'[n] = "save"
        /\ after'[n] \in {"name", "confirm", "out", "signup", "menu"} /\ ret'[n] = ret[n]
        /\ after'[n] = "signup" => pc[n] = "script"
        /\ after'[n] = "confirm" <=> pc[n] = "confirm"
        /\ after'[n] = "menu" <=> pc[n] = "menu"
    BY <1>4 DEF RunScript, Onwards, SaveUser, EditUser, Save, Goto, Set, IInv, TypeOK
  <2>2. line'[n].born = line[n].born
    <3>1. CASE RunScript(n)
      <4>1. PICK h \in AnyName : line' = Set(line, n, [line[n] EXCEPT !.handle = h])
        BY <3>1, Zenon DEF RunScript, Save
      <4> QED BY <1>0, <4>1 DEF Set, IInv, TypeOK, User
    <3>2. CASE SaveUser(n)
      <4>1. PICK pw \in Passwords : line' = Set(line, n, [line[n] EXCEPT !.pw = pw])
        BY <3>2, Zenon DEF SaveUser, Save
      <4> QED BY <1>0, <4>1 DEF Set, IInv, TypeOK, User
    <3>3. CASE EditUser(n)
      <4>1. PICK name \in Names, h \in AnyName, d \in BOOLEAN :
              line' = Set(line, n, [line[n] EXCEPT !.name = name, !.handle = h, !.deleted = d])
        BY <3>3, Zenon DEF EditUser, Save
      <4> QED BY <1>0, <4>1 DEF Set, IInv, TypeOK, User
    <3> QED BY <1>4, <3>1, <3>2, <3>3
  <2>3. OwnLine(n)'
    <3>1. CASE Unknown(n)
      BY <2>1, <3>1 DEF OwnLine, Unknown, Blank
    <3>2. CASE ~Unknown(n)
      BY <1>1, <1>2, <2>2, <3>2, OwnLineStays DEF Own
    <3> QED BY <3>1, <3>2
  <2>4. OwnForm(n)'
    BY <1>1, <1>2, <2>1 DEF Own, OwnForm
  <2> QED BY <1>1, <1>2, <2>1, <2>3, <2>4 DEF Own, OwnFirst, OwnName, OwnBlank, Blank
<1> QED BY <1>3, <1>4

\* No name comes twice: a write keeps the names, and a new user's is missing.
LEMMA NamesStayApart ==
  ASSUME IInv, NEW n \in Nodes, NodeStep(n), Own(n), UsersKept(n), SignedUpOnce
  PROVE  SignedUpOnce'
<1> SUFFICES ASSUME edits' = 0 PROVE DistinctNames(users')
  BY DEF SignedUpOnce, DistinctNames
<1>1. edits = 0 /\ DistinctNames(users)
  BY UsersStay DEF SignedUpOnce, DistinctNames
<1>2. CASE DOMAIN users' = DOMAIN users
  BY <1>1, <1>2 DEF UsersKept, Same, DistinctNames
<1>3. CASE DOMAIN users' # DOMAIN users
  <2>0. users \in Seq(User) /\ DOMAIN users = 1 .. Len(users) /\ Len(users) \in Nat
    BY DEF IInv, TypeOK
  <2>1. pc[n] = "append" /\ n \in Newcomers
    BY <1>3 DEF UsersKept
  <2>2. AppendRecord(n)
    BY <1>3, <2>1, UsersStay, Zenon DEF WriteRecord, RestoreFirst
  <2>3. users' = Append(users, line[n])
    BY <2>1, <2>2 DEF AppendRecord, Put, Own, OwnForm
  <2>4. line[n].name = asked[n] /\ asked[n] \in Names
    BY <2>1 DEF IInv, NewInv, SigningUp
  <2>5. \A i \in DOMAIN users : ~users[i].deleted => users[i].name # line[n].name
    BY <1>1, <2>1, <2>4, UserBaseAssumption DEF Own, OwnName, Found, Answers, NameMatches
  <2>6. /\ DOMAIN users' = DOMAIN users \cup {Len(users) + 1}
        /\ users'[Len(users) + 1] = line[n]
        /\ \A i \in DOMAIN users : users'[i] = users[i]
    BY <2>0, <2>3
  <2> QED BY <1>1, <2>5, <2>6 DEF DistinctNames
<1> QED BY <1>2, <1>3

\* Together.
LEMMA OwnStep ==
  ASSUME IInv, OneNewcomer, OwnInv, [Next]_vars
  PROVE  /\ OwnInv'
         /\ \A r \in DOMAIN users :
              r \in DOMAIN users' /\ (users'[r].born = users[r].born \/ (r = 1 /\ blanked'))
         /\ SignedUpOnce => SignedUpOnce'
<1>1. CASE UNCHANGED vars
  <2>1. UNCHANGED <<users, pc, ret, after, line, rec, asked, seen, size, edits, blanked>>
    BY <1>1, Zenon DEF vars, files, typed, copy, scratch, past
  <2> QED BY <2>1 DEF OwnInv, Own, OwnLine, Unknown, Blank, Keeps, Same, OwnForm, OwnFirst, OwnName, OwnBlank, SignedUpOnce
<1>2. CASE Next
  <2>1. PICK n \in Nodes : NodeStep(n)
    BY <1>2, Zenon DEF Next, NodeStep
  <2>2. \A m \in Nodes : Own(m)
    BY DEF OwnInv
  <2>3. Only(n) /\ UsersKept(n) /\ (edits' = 0 => edits = 0) /\ (blanked => blanked')
    BY <2>1, <2>2, OnlyStep, UsersAreKept, UsersStay
  <2>4. Own(n)'
    BY <2>1, <2>2, <2>3, OwnSearching, OwnAdmitting, OwnAppending, OwnSaving, OwnCalls, OwnForms, OwnEdits
       DEF NodeStep, Work
  <2>5. \A m \in Nodes : Own(m)'
    BY <2>2, <2>3, <2>4, OthersOwn
  <2>6. SignedUpOnce => SignedUpOnce'
    BY <2>1, <2>2, <2>3, NamesStayApart
  <2> QED BY <2>3, <2>5, <2>6 DEF OwnInv, UsersKept
<1> QED BY <1>1, <1>2

-----------------------------------------------------------------------------
\* With newcomers on one node every session's record is its user's, from the
\* search to the last write; AutoUser's unknown caller has the first record all
\* the while that the name is asked about, and whoever has that record after a
\* script wrote it then has nobody's.
THEOREM OwnInductive ==
  ASSUME OneNewcomer
  PROVE  Spec => []OwnInv
<1>1. Init => OwnInv
  BY DEF Init, OwnInv, Own, OwnLine, Unknown, Blank, OwnForm, OwnFirst, OwnName, OwnBlank
<1>2. IInv /\ OwnInv /\ [Next]_vars => OwnInv'
  BY OwnStep
<1> QED BY <1>1, <1>2, Invariant, PTL DEF Spec

\* No write puts one person's record in the place of another's: logons, menus,
\* scripts, the sysop's editor, and the repair of the first record; but for the
\* first record, once it was written for AutoUser's unknown caller.
THEOREM RecordsKeepTheirOwnerThm ==
  ASSUME OneNewcomer
  PROVE  Spec => RecordsKeepTheirOwner
<1>1. IInv /\ OwnInv /\ [Next]_vars =>
        [\A r \in DOMAIN users :
           /\ r \in DOMAIN users'
           /\ users'[r].born = users[r].born \/ (r = 1 /\ blanked')]_vars
  BY OwnStep
<1> QED BY <1>1, Invariant, OwnInductive, PTL DEF Spec, RecordsKeepTheirOwner

\* Nobody who signs up becomes a second user of a name, whatever state the
\* index is in and whatever the other nodes write, as long as nobody renames
\* users, if the old user base has no such pair.
THEOREM SignedUpOnceThm ==
  ASSUME OneNewcomer, \A b \in InitBases : DistinctNames(b)
  PROVE  Spec => []SignedUpOnce
<1>1. Init => SignedUpOnce
  BY DEF Init, SignedUpOnce, DistinctNames
<1>2. IInv /\ OwnInv /\ [Next]_vars /\ SignedUpOnce => SignedUpOnce'
  BY OwnStep
<1> QED BY <1>1, <1>2, Invariant, OwnInductive, PTL DEF Spec
=============================================================================
