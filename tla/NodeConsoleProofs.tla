------------------------- MODULE NodeConsoleProofs -------------------------
(***************************************************************************)
(* Proofs about NodeConsole: what the stack of a session's calls looks     *)
(* like, that menus run only what was open to the caller, that a hot key   *)
(* is what the menu carries out, that the caller's keys come once each and *)
(* in order, and that none is lost, for any menus, scripts, texts and      *)
(* strokes.                                                                *)
(***************************************************************************)
EXTENDS NodeConsole, FiniteSetTheorems, SequenceTheorems, WellFoundedInduction, TLAPS

---------------------------------------------------------------------------
(* Sequences as stacks. *)

\* The elements of a sequence, whatever they are.
Elements(s) == {s[j] : j \in DOMAIN s}
IsSeq(s) == s \in Seq(Elements(s))

LEMMA ElementsLemma ==
  ASSUME NEW S, NEW s \in Seq(S)
  PROVE  IsSeq(s) /\ DOMAIN s = 1..Len(s) /\ Len(s) \in Nat
<1>1. DOMAIN s = 1..Len(s) /\ Len(s) \in Nat /\ s = [j \in 1..Len(s) |-> s[j]]
  OBVIOUS
<1>2. \A j \in 1..Len(s) : s[j] \in Elements(s)
  BY <1>1 DEF Elements
<1> QED BY <1>1, <1>2 DEF IsSeq

\* A call: the frame on top changes to g and f is put over it.
LEMMA CallLemma ==
  ASSUME NEW s, IsSeq(s), s # <<>>, NEW f, NEW g
  PROVE  LET t == <<f, g>> \o Tail(s) IN
         /\ IsSeq(t) /\ t # <<>> /\ Len(t) = Len(s) + 1 /\ Head(t) = f
         /\ t[1] = f /\ t[2] = g
         /\ \A j \in 3..Len(t) : t[j] = s[j - 1]
<1> DEFINE S == Elements(s) \cup {f, g}
<1> DEFINE t == <<f, g>> \o Tail(s)
<1>1. s \in Seq(S) /\ Tail(s) \in Seq(S) /\ <<f, g>> \in Seq(S) /\ Len(s) \in Nat \ {0}
  <2>1. s \in Seq(Elements(s)) /\ Len(s) \in Nat /\ Len(s) # 0
    BY DEF IsSeq
  <2>2. s \in Seq(S)
    BY <2>1
  <2> HIDE DEF S
  <2>3. Tail(s) \in Seq(S)
    BY <2>1, <2>2
  <2> QED BY <2>1, <2>2, <2>3 DEF S
<1>2. Len(Tail(s)) = Len(s) - 1 /\ \A j \in 1..Len(s) - 1 : Tail(s)[j] = s[j + 1]
  BY <1>1
<1>3. t \in Seq(S) /\ Len(t) = Len(s) + 1
  <2> HIDE DEF S
  <2> QED BY <1>1, <1>2
<1>4. t[1] = f /\ t[2] = g /\ \A j \in 3..Len(t) : t[j] = Tail(s)[j - 2]
  <2> HIDE DEF S
  <2>1. Len(<<f, g>>) = 2 /\ <<f, g>>[1] = f /\ <<f, g>>[2] = g
    OBVIOUS
  <2> QED BY <1>1, <1>2, <1>3, <2>1
<1>5. IsSeq(t) /\ t # <<>> /\ Head(t) = t[1]
  <2> HIDE DEF S
  <2>1. IsSeq(t)
    BY <1>3, ElementsLemma
  <2>2. t # <<>>
    BY <1>1, <1>3
  <2> QED BY <1>3, <2>1, <2>2
<1>6. \A j \in 3..Len(t) : j - 2 \in 1..Len(s) - 1 /\ (j - 2) + 1 = j - 1
  BY <1>1, <1>3
<1> QED BY <1>2, <1>3, <1>4, <1>5, <1>6

\* A step within the call on top.
LEMMA WithinLemma ==
  ASSUME NEW s, IsSeq(s), s # <<>>, NEW g
  PROVE  LET t == <<g>> \o Tail(s) IN
         /\ IsSeq(t) /\ t # <<>> /\ Len(t) = Len(s) /\ Head(t) = g
         /\ t[1] = g /\ \A j \in 2..Len(t) : t[j] = s[j]
<1> DEFINE S == Elements(s) \cup {g}
<1> DEFINE t == <<g>> \o Tail(s)
<1>1. s \in Seq(S) /\ Tail(s) \in Seq(S) /\ <<g>> \in Seq(S) /\ Len(s) \in Nat \ {0}
  <2>1. s \in Seq(Elements(s)) /\ Len(s) \in Nat /\ Len(s) # 0
    BY DEF IsSeq
  <2>2. s \in Seq(S)
    BY <2>1
  <2> HIDE DEF S
  <2>3. Tail(s) \in Seq(S)
    BY <2>1, <2>2
  <2> QED BY <2>1, <2>2, <2>3 DEF S
<1>2. Len(Tail(s)) = Len(s) - 1 /\ \A j \in 1..Len(s) - 1 : Tail(s)[j] = s[j + 1]
  BY <1>1
<1>3. t \in Seq(S) /\ Len(t) = Len(s)
  <2> HIDE DEF S
  <2> QED BY <1>1, <1>2
<1>4. t[1] = g /\ \A j \in 2..Len(t) : t[j] = Tail(s)[j - 1]
  <2> HIDE DEF S
  <2>1. Len(<<g>>) = 1 /\ <<g>>[1] = g
    OBVIOUS
  <2> QED BY <1>1, <1>2, <1>3, <2>1
<1>5. IsSeq(t) /\ t # <<>> /\ Head(t) = t[1]
  <2> HIDE DEF S
  <2>1. IsSeq(t)
    BY <1>3, ElementsLemma
  <2>2. t # <<>>
    BY <1>1, <1>3
  <2> QED BY <1>3, <2>1, <2>2
<1>6. \A j \in 2..Len(t) : j - 1 \in 1..Len(s) - 1 /\ (j - 1) + 1 = j
  BY <1>1, <1>3
<1> QED BY <1>2, <1>3, <1>4, <1>5, <1>6

\* A return.
LEMMA ReturnLemma ==
  ASSUME NEW s, IsSeq(s), s # <<>>
  PROVE  /\ IsSeq(Tail(s)) /\ Len(Tail(s)) = Len(s) - 1 /\ Len(s) \in Nat \ {0}
         /\ \A j \in 1..Len(s) - 1 : Tail(s)[j] = s[j + 1]
         /\ Len(s) > 1 => Tail(s) # <<>> /\ Head(Tail(s)) = s[2]
<1> DEFINE S == Elements(s)
<1>1. s \in Seq(S) /\ Len(s) \in Nat /\ Len(s) # 0
  BY DEF IsSeq
<1> HIDE DEF S
<1>2. Tail(s) \in Seq(S) /\ Len(Tail(s)) = Len(s) - 1 /\ \A j \in 1..Len(s) - 1 : Tail(s)[j] = s[j + 1]
  BY <1>1
<1>3. IsSeq(Tail(s))
  BY <1>2, ElementsLemma
<1>4. Len(s) > 1 => Tail(s) # <<>> /\ Head(Tail(s)) = s[2]
  <2> SUFFICES ASSUME Len(s) > 1 PROVE Tail(s) # <<>> /\ Head(Tail(s)) = s[2]
    OBVIOUS
  <2>1. Tail(s) # <<>>
    <3>1. Len(Tail(s)) # 0
      BY <1>1, <1>2
    <3> QED BY <1>2, <3>1, EmptySeq
  <2>2. Head(Tail(s)) = Tail(s)[1]
    BY <1>2, <2>1
  <2>3. Tail(s)[1] = s[1 + 1]
    BY <1>1, <1>2
  <2> QED BY <2>1, <2>2, <2>3
<1> QED BY <1>1, <1>2, <1>3, <1>4

---------------------------------------------------------------------------
(* The stack of calls. *)

Fields == {"op", "at", "c", "text", "keys", "i", "on", "also"}

\* The session is at the bottom, the menus next to it; a function that was
\* called has begun; and a hot text is called by its function only.
StackInv ==
  /\ IsSeq(stack) /\ stack # <<>>
  /\ \A j \in DOMAIN stack :
       LET f == stack[j] IN
       /\ DOMAIN f = Fields
       /\ f.op = "session" <=> j = Len(stack)
       /\ f.op = "engine" => j = Len(stack) - 1
       /\ f.op \in {"func", "hot"} => j = 1 \/ f.at # "start"
       /\ f.op = "show" => f.i \in Nat \ {0}
       /\ f.op = "func" /\ f.at = "shown" => f.c = "hot"
  /\ \A j \in 1..Len(stack) - 1 :
       stack[j].op = "hot" <=> stack[j + 1].op = "func" /\ stack[j + 1].at = "shown"

\* What is no plain text or may run a script: functions, scripts, questions and
\* hot texts, of which a plain one is shown.
Deep(f) == f.op \in {"func", "script", "hot", "yesno"} \/ (f.op = "show" /\ ~Plain(f.text))
Guard(f) == f.op \in {"hot", "chat"} \/ (f.op = "engine" /\ f.at \notin {"ran", "done"})

\* Nothing deep is called from a hot text, a chat, or the choice of a menu.
QuietInv ==
  /\ \A j \in DOMAIN stack :
       LET f == stack[j] IN
       /\ f.op = "func" /\ f.c = "hot" => Plain(Library[f.text[1]])
       /\ f.op = "hot" => Plain(f.text)
  /\ \A j \in DOMAIN stack : \A k \in 1..j - 1 : Guard(stack[j]) => ~Deep(stack[k])

\* What a step does to the stack.
Keeps(g) ==
  /\ DOMAIN g = Fields /\ g.op = Top.op /\ g.text = Top.text
  /\ g.op = "show" => g.i \in Nat \ {0}
  /\ g.op \in {"func", "hot"} => g.at # "start"
  /\ g.op = "func" => g.c = Top.c /\ (g.at = "shown" => g.c = "hot")
Within(g) == stack' = <<g>> \o Tail(stack) /\ Keeps(g) /\ Top.op # "func"
Calling(f, g) ==
  /\ stack' = <<f, g>> \o Tail(stack) /\ Keeps(g)
  /\ DOMAIN f = Fields /\ f.i = 1 /\ f.at = "start" /\ f.op # "session"
  /\ f.op = "engine" => Top.op = "session"
  /\ f.op = "hot" <=> Top.op = "func" /\ g.at = "shown"
QuietCall(f, g) ==
  /\ f.op = "func" /\ f.c = "hot" => Plain(Library[f.text[1]])
  /\ f.op = "hot" => Plain(f.text)
  /\ Deep(f) => \/ Deep(Top) /\ Top.op # "hot"
                \/ Top.op = "session"
                \/ Top.op = "engine" /\ g.at \in {"ran", "done"}
Returns == stack' = Tail(stack) /\ Top.op # "session"

StackMove ==
  \/ stack' = stack
  \/ \E g : Within(g)
  \/ \E f, g : Calling(f, g)
  \/ Returns

QuietMove ==
  \/ stack' = stack
  \/ \E g : Within(g)
  \/ \E f, g : Calling(f, g) /\ QuietCall(f, g)
  \/ Returns

LEMMA StackBasics ==
  ASSUME StackInv
  PROVE  /\ Len(stack) \in Nat \ {0} /\ DOMAIN stack = 1..Len(stack)
         /\ Top = stack[1] /\ DOMAIN Top = Fields
         /\ Top.op = "session" <=> Len(stack) = 1
         /\ Top.op = "engine" => Len(stack) = 2
<1>1. stack \in Seq(Elements(stack)) /\ stack # <<>>
  BY DEF StackInv, IsSeq
<1>2. Len(stack) \in Nat \ {0} /\ DOMAIN stack = 1..Len(stack) /\ Top = stack[1]
  BY <1>1, EmptySeq DEF Top
<1>3. 1 \in DOMAIN stack
  BY <1>2
<1> QED BY <1>2, <1>3 DEF StackInv

LEMMA StackKept ==
  ASSUME StackInv, StackMove
  PROVE  StackInv'
<1> USE StackBasics
<1>0. IsSeq(stack) /\ stack # <<>>
  BY DEF StackInv
<1>1. CASE stack' = stack
  BY <1>1, <1>0 DEF StackInv, IsSeq, Elements
<1>2. CASE \E g : Within(g)
  <2>1. PICK g : Within(g)
    BY <1>2
  <2>2. /\ IsSeq(stack') /\ stack' # <<>> /\ Len(stack') = Len(stack)
        /\ stack'[1] = g /\ \A j \in 2..Len(stack) : stack'[j] = stack[j]
    <3>1. stack' = <<g>> \o Tail(stack)
      BY <2>1 DEF Within
    <3> QED BY ONLY <1>0, <3>1, WithinLemma
  <2>3. DOMAIN stack' = 1..Len(stack)
    BY <2>2 DEF IsSeq
  <2>4. \A j \in 1..Len(stack) :
          LET f == stack'[j] IN
          /\ DOMAIN f = Fields
          /\ f.op = "session" <=> j = Len(stack)
          /\ f.op = "engine" => j = Len(stack) - 1
          /\ f.op \in {"func", "hot"} => j = 1 \/ f.at # "start"
          /\ f.op = "show" => f.i \in Nat \ {0}
          /\ f.op = "func" /\ f.at = "shown" => f.c = "hot"
    <3> SUFFICES ASSUME NEW j \in 1..Len(stack)
                 PROVE LET f == stack'[j] IN
                       /\ DOMAIN f = Fields
                       /\ f.op = "session" <=> j = Len(stack)
                       /\ f.op = "engine" => j = Len(stack) - 1
                       /\ f.op \in {"func", "hot"} => j = 1 \/ f.at # "start"
                       /\ f.op = "show" => f.i \in Nat \ {0}
                       /\ f.op = "func" /\ f.at = "shown" => f.c = "hot"
      BY Zenon
    <3>1. CASE j = 1
      BY <3>1, <2>1, <2>2 DEF StackInv, Within, Keeps
    <3>2. CASE j # 1
      BY <3>2, <2>2 DEF StackInv
    <3> QED BY <3>1, <3>2, Zenon
  <2>5. \A j \in 1..Len(stack) - 1 :
          stack'[j].op = "hot" <=> stack'[j + 1].op = "func" /\ stack'[j + 1].at = "shown"
    <3> SUFFICES ASSUME NEW j \in 1..Len(stack) - 1
                 PROVE  stack'[j].op = "hot" <=> stack'[j + 1].op = "func" /\ stack'[j + 1].at = "shown"
      OBVIOUS
    <3>1. stack'[j + 1] = stack[j + 1] /\ j \in DOMAIN stack
      BY <2>2
    <3>2. stack'[j].op = stack[j].op
      BY <2>1, <2>2 DEF Within, Keeps
    <3> QED BY <3>1, <3>2 DEF StackInv
  <2>6. /\ \A j \in DOMAIN stack' :
               LET f == stack'[j] IN
               /\ DOMAIN f = Fields
               /\ f.op = "session" <=> j = Len(stack')
               /\ f.op = "engine" => j = Len(stack') - 1
               /\ f.op \in {"func", "hot"} => j = 1 \/ f.at # "start"
               /\ f.op = "show" => f.i \in Nat \ {0}
               /\ f.op = "func" /\ f.at = "shown" => f.c = "hot"
        /\ \A j \in 1..Len(stack') - 1 :
             stack'[j].op = "hot" <=> stack'[j + 1].op = "func" /\ stack'[j + 1].at = "shown"
    BY <2>2, <2>3, <2>4, <2>5, Zenon
  <2> QED BY <2>2, <2>6 DEF StackInv
<1>3. CASE \E f, g : Calling(f, g)
  <2>1. PICK f, g : Calling(f, g)
    BY <1>3
  <2> DEFINE n == Len(stack) + 1
  <2>2. /\ IsSeq(stack') /\ stack' # <<>> /\ Len(stack') = n
        /\ stack'[1] = f /\ stack'[2] = g /\ \A j \in 3..n : stack'[j] = stack[j - 1]
    <3>1. stack' = <<f, g>> \o Tail(stack)
      BY <2>1 DEF Calling
    <3> QED BY ONLY <1>0, <3>1, CallLemma
  <2>3. DOMAIN stack' = 1..n
    BY <2>2 DEF IsSeq
  <2>4. \A j \in 1..n :
          LET h == stack'[j] IN
          /\ DOMAIN h = Fields
          /\ h.op = "session" <=> j = n
          /\ h.op = "engine" => j = n - 1
          /\ h.op \in {"func", "hot"} => j = 1 \/ h.at # "start"
          /\ h.op = "show" => h.i \in Nat \ {0}
          /\ h.op = "func" /\ h.at = "shown" => h.c = "hot"
    <3> SUFFICES ASSUME NEW j \in 1..n
                 PROVE LET h == stack'[j] IN
                       /\ DOMAIN h = Fields
                       /\ h.op = "session" <=> j = n
                       /\ h.op = "engine" => j = n - 1
                       /\ h.op \in {"func", "hot"} => j = 1 \/ h.at # "start"
                       /\ h.op = "show" => h.i \in Nat \ {0}
                       /\ h.op = "func" /\ h.at = "shown" => h.c = "hot"
      BY Zenon
    <3>0. j = 1 \/ j = 2 \/ j \in 3..n
      OBVIOUS
    <3>1. CASE j = 1
      BY <3>1, <2>1, <2>2 DEF StackInv, Calling
    <3>2. CASE j = 2
      BY <3>2, <2>1, <2>2 DEF StackInv, Calling, Keeps
    <3>3. CASE j \in 3..n
      <4>1. stack'[j] = stack[j - 1] /\ j - 1 \in DOMAIN stack /\ j - 1 # 1
        BY <3>3, <2>2
      <4>2. j - 1 = Len(stack) <=> j = n
        OBVIOUS
      <4> QED BY <4>1, <4>2 DEF StackInv
    <3> QED BY <3>0, <3>1, <3>2, <3>3, Zenon
  <2>5. \A j \in 1..n - 1 :
          stack'[j].op = "hot" <=> stack'[j + 1].op = "func" /\ stack'[j + 1].at = "shown"
    <3> SUFFICES ASSUME NEW j \in 1..n - 1
                 PROVE  stack'[j].op = "hot" <=> stack'[j + 1].op = "func" /\ stack'[j + 1].at = "shown"
      OBVIOUS
    <3>1. CASE j = 1
      BY <3>1, <2>1, <2>2 DEF Calling, Keeps
    <3>2. CASE j # 1
      <4>1. stack'[j + 1] = stack[j] /\ j - 1 \in 1..Len(stack) - 1 /\ (j - 1) + 1 = j
        BY <3>2, <2>2
      <4>2. stack'[j].op = stack[j - 1].op
        <5>1. CASE j = 2
          BY <5>1, <2>1, <2>2 DEF Calling, Keeps
        <5>2. CASE j # 2
          BY <5>2, <3>2, <2>2
        <5> QED BY <5>1, <5>2
      <4> QED BY <4>1, <4>2 DEF StackInv
    <3> QED BY <3>1, <3>2
  <2> QED BY <2>2, <2>3, <2>4, <2>5 DEF StackInv
<1>4. CASE Returns
  <2> DEFINE n == Len(stack) - 1
  <2>1. /\ IsSeq(stack') /\ Len(stack') = n /\ stack' # <<>> /\ n \in Nat \ {0}
        /\ \A j \in 1..n : stack'[j] = stack[j + 1]
    BY <1>0, <1>4, ReturnLemma DEF Returns
  <2>2. DOMAIN stack' = 1..n
    BY <2>1 DEF IsSeq
  <2>3. \A j \in 1..n :
          LET h == stack'[j] IN
          /\ DOMAIN h = Fields
          /\ h.op = "session" <=> j = n
          /\ h.op = "engine" => j = n - 1
          /\ h.op \in {"func", "hot"} => j = 1 \/ h.at # "start"
          /\ h.op = "show" => h.i \in Nat \ {0}
          /\ h.op = "func" /\ h.at = "shown" => h.c = "hot"
    <3> SUFFICES ASSUME NEW j \in 1..n
                 PROVE LET h == stack'[j] IN
                       /\ DOMAIN h = Fields
                       /\ h.op = "session" <=> j = n
                       /\ h.op = "engine" => j = n - 1
                       /\ h.op \in {"func", "hot"} => j = 1 \/ h.at # "start"
                       /\ h.op = "show" => h.i \in Nat \ {0}
                       /\ h.op = "func" /\ h.at = "shown" => h.c = "hot"
      BY Zenon
    <3>1. stack'[j] = stack[j + 1] /\ j + 1 \in DOMAIN stack
      BY <2>1
    <3>2. j + 1 = Len(stack) <=> j = n
      OBVIOUS
    <3> QED BY <3>1, <3>2 DEF StackInv
  <2>4. \A j \in 1..n - 1 :
          stack'[j].op = "hot" <=> stack'[j + 1].op = "func" /\ stack'[j + 1].at = "shown"
    <3> SUFFICES ASSUME NEW j \in 1..n - 1
                 PROVE  stack'[j].op = "hot" <=> stack'[j + 1].op = "func" /\ stack'[j + 1].at = "shown"
      OBVIOUS
    <3>1. stack'[j] = stack[j + 1] /\ stack'[j + 1] = stack[(j + 1) + 1] /\ j + 1 \in 1..Len(stack) - 1
      BY <2>1
    <3> QED BY <3>1 DEF StackInv
  <2>6. /\ \A j \in DOMAIN stack' :
               LET f == stack'[j] IN
               /\ DOMAIN f = Fields
               /\ f.op = "session" <=> j = Len(stack')
               /\ f.op = "engine" => j = Len(stack') - 1
               /\ f.op \in {"func", "hot"} => j = 1 \/ f.at # "start"
               /\ f.op = "show" => f.i \in Nat \ {0}
               /\ f.op = "func" /\ f.at = "shown" => f.c = "hot"
        /\ \A j \in 1..Len(stack') - 1 :
             stack'[j].op = "hot" <=> stack'[j + 1].op = "func" /\ stack'[j + 1].at = "shown"
    BY <2>1, <2>2, <2>3, <2>4, Zenon
  <2> QED BY <2>1, <2>6 DEF StackInv
<1> QED BY <1>1, <1>2, <1>3, <1>4 DEF StackMove

LEMMA QuietKept ==
  ASSUME StackInv, QuietInv, QuietMove
  PROVE  QuietInv'
<1> USE StackBasics
<1>0. IsSeq(stack) /\ stack # <<>>
  BY DEF StackInv
<1>a. \A g : g.op = Top.op /\ g.text = Top.text => (Deep(g) <=> Deep(Top))
  BY DEF Deep
<1>1. CASE stack' = stack
  BY <1>1 DEF QuietInv
<1>2. CASE \E g : Within(g)
  <2>1. PICK g : Within(g)
    BY <1>2
  <2>2. /\ IsSeq(stack') /\ stack' # <<>> /\ Len(stack') = Len(stack)
        /\ stack'[1] = g /\ \A j \in 2..Len(stack) : stack'[j] = stack[j]
    <3>1. stack' = <<g>> \o Tail(stack)
      BY <2>1 DEF Within
    <3> QED BY ONLY <1>0, <3>1, WithinLemma
  <2>3. DOMAIN stack' = 1..Len(stack)
    BY <2>2 DEF IsSeq
  <2>4. ASSUME NEW j \in 1..Len(stack)
        PROVE  LET f == stack'[j] IN
               /\ f.op = "func" /\ f.c = "hot" => Plain(Library[f.text[1]])
               /\ f.op = "hot" => Plain(f.text)
    <3>1. CASE j = 1
      BY <3>1, <2>1, <2>2 DEF QuietInv, Within, Keeps
    <3>2. CASE j # 1
      BY <3>2, <2>2 DEF QuietInv
    <3> QED BY <3>1, <3>2
  <2>5. ASSUME NEW j \in 1..Len(stack), NEW k \in 1..j - 1, Guard(stack'[j])
        PROVE  ~Deep(stack'[k])
    <3>1. stack'[j] = stack[j] /\ k \in 1..Len(stack) /\ ~Deep(stack[k])
      BY <2>2, <2>5 DEF QuietInv
    <3>2. CASE k = 1
      BY <1>a, <3>1, <3>2, <2>1, <2>2 DEF Within, Keeps
    <3>3. CASE k # 1
      BY <3>1, <3>3, <2>2
    <3> QED BY <3>2, <3>3
  <2> QED BY <2>3, <2>4, <2>5 DEF QuietInv
<1>3. CASE \E f, g : Calling(f, g) /\ QuietCall(f, g)
  <2>1. PICK f, g : Calling(f, g) /\ QuietCall(f, g)
    BY <1>3
  <2> DEFINE n == Len(stack) + 1
  <2>2. /\ IsSeq(stack') /\ stack' # <<>> /\ Len(stack') = n
        /\ stack'[1] = f /\ stack'[2] = g /\ \A j \in 3..n : stack'[j] = stack[j - 1]
    <3>1. stack' = <<f, g>> \o Tail(stack)
      BY <2>1 DEF Calling
    <3> QED BY ONLY <1>0, <3>1, CallLemma
  <2>3. DOMAIN stack' = 1..n
    BY <2>2 DEF IsSeq
  <2>4. ASSUME NEW j \in 1..n
        PROVE  LET h == stack'[j] IN
               /\ h.op = "func" /\ h.c = "hot" => Plain(Library[h.text[1]])
               /\ h.op = "hot" => Plain(h.text)
    <3>1. CASE j = 1
      BY <3>1, <2>1, <2>2 DEF QuietCall
    <3>2. CASE j = 2
      <4>1. /\ Top.op = "func" /\ Top.c = "hot" => Plain(Library[Top.text[1]])
            /\ Top.op = "hot" => Plain(Top.text)
        BY DEF QuietInv
      <4> QED BY <4>1, <3>2, <2>1, <2>2 DEF Calling, Keeps
    <3>3. CASE j \in 3..n
      <4>1. stack'[j] = stack[j - 1] /\ j - 1 \in DOMAIN stack
        BY <3>3, <2>2
      <4> QED BY <4>1 DEF QuietInv
    <3> QED BY <3>1, <3>2, <3>3
  <2>5. ASSUME NEW j \in 1..n, NEW k \in 1..j - 1, Guard(stack'[j])
        PROVE  ~Deep(stack'[k])
    <3>1. CASE j = 2
      <4>1. k = 1 /\ stack'[j] = g /\ stack'[k] = f
        BY <3>1, <2>2
      <4>2. Deep(Top) /\ Top.op # "hot" => Top.op \in {"func", "script", "show", "yesno"}
        BY DEF Deep
      <4> QED BY <4>1, <4>2, <2>1, <2>5 DEF Guard, QuietCall, Calling, Keeps
    <3>2. CASE j # 2
      <4>1. j \in 3..n /\ stack'[j] = stack[j - 1] /\ j - 1 \in DOMAIN stack /\ j - 1 # 1
        BY <3>2, <2>2
      <4>2. Guard(stack[j - 1])
        BY <4>1, <2>5
      <4>3. \A i \in 1..j - 2 : ~Deep(stack[i])
        BY <4>1, <4>2 DEF QuietInv
      <4>4. ~Deep(Top)
        BY <4>1, <4>3
      <4>5. CASE k = 1
        <5>1. stack[j - 1].op # "session"
          BY <4>2 DEF Guard
        <5>2. Len(stack) # 1
          BY <4>1
        <5>3. Top.op = "engine" => stack[j - 1].op = "session"
          BY <4>1 DEF StackInv
        <5> QED BY <4>4, <4>5, <5>1, <5>2, <5>3, <2>1, <2>2 DEF QuietCall
      <4>6. CASE k = 2
        BY <4>4, <4>6, <1>a, <2>1, <2>2 DEF Calling, Keeps
      <4>7. CASE k \in 3..n
        <5>1. stack'[k] = stack[k - 1] /\ k - 1 \in 1..j - 2
          BY <4>7, <2>2
        <5> QED BY <5>1, <4>3
      <4> QED BY <4>5, <4>6, <4>7
    <3> QED BY <3>1, <3>2
  <2> QED BY <2>3, <2>4, <2>5 DEF QuietInv
<1>4. CASE Returns
  <2> DEFINE n == Len(stack) - 1
  <2>1. /\ IsSeq(stack') /\ Len(stack') = n /\ n \in Nat
        /\ \A j \in 1..n : stack'[j] = stack[j + 1]
    BY <1>0, <1>4, ReturnLemma DEF Returns
  <2>2. DOMAIN stack' = 1..n
    BY <2>1 DEF IsSeq
  <2>3. ASSUME NEW j \in 1..n
        PROVE  /\ stack'[j] = stack[j + 1] /\ j + 1 \in DOMAIN stack
               /\ \A k \in 1..j - 1 : stack'[k] = stack[k + 1] /\ k + 1 \in 1..(j + 1) - 1
    BY <2>1
  <2>4. ASSUME NEW j \in 1..n
        PROVE  LET h == stack'[j] IN
               /\ h.op = "func" /\ h.c = "hot" => Plain(Library[h.text[1]])
               /\ h.op = "hot" => Plain(h.text)
    BY <2>3 DEF QuietInv
  <2>5. ASSUME NEW j \in 1..n, NEW k \in 1..j - 1, Guard(stack'[j])
        PROVE  ~Deep(stack'[k])
    BY <2>3, <2>5 DEF QuietInv
  <2> QED BY <2>2, <2>4, <2>5 DEF QuietInv
<1> QED BY <1>1, <1>2, <1>3, <1>4 DEF QuietMove

---------------------------------------------------------------------------
(* Each step moves the stack in one of these ways. *)

Simple == {"getkey", "peek", "mate", "drain", "arrow", "line", "enter", "press", "ask",
           "command", "window", "chat"}

LEMMA FrameLemma ==
  ASSUME NEW op, NEW c
  PROVE  LET f == Frame(op, c) IN
         /\ DOMAIN f = Fields /\ f.op = op /\ f.c = c /\ f.at = "start" /\ f.i = 1
         /\ f.text = <<>>
BY DEF Frame, Fields

LEMMA TimedLemma ==
  LET f == TimedKey IN DOMAIN f = Fields /\ f.op = "getkey" /\ f.at = "start" /\ f.i = 1
BY DEF TimedKey, GetKey, Frame, Fields

LEMMA AtLemma ==
  ASSUME NEW f, DOMAIN f = Fields, NEW a
  PROVE  LET g == [f EXCEPT !.at = a] IN
         /\ DOMAIN g = Fields /\ g.at = a /\ g.op = f.op /\ g.c = f.c /\ g.text = f.text
         /\ g.i = f.i /\ g.keys = f.keys /\ g.on = f.on /\ g.also = f.also
BY DEF Fields

LEMMA TopLemma ==
  ASSUME StackInv
  PROVE  DOMAIN Top = Fields /\ (Top.op = "show" => Top.i \in Nat \ {0})
BY StackBasics DEF StackInv

LEMMA GotoMove ==
  ASSUME StackInv, NEW a, Goto(a), Top.op \notin {"func", "hot"}
  PROVE  \E g : Within(g) /\ g.at = a
<1>1. Within([Top EXCEPT !.at = a]) /\ [Top EXCEPT !.at = a].at = a
  BY TopLemma, AtLemma DEF Goto, Within, Keeps
<1> QED BY <1>1

LEMMA CallFromMove ==
  ASSUME StackInv, NEW f, NEW a, NEW caller, CallFrom(f, a, caller),
         DOMAIN f = Fields, f.at = "start", f.i = 1, f.op \in Simple,
         DOMAIN caller = Fields, caller.op = Top.op, caller.text = Top.text,
         caller.op = "show" => caller.i \in Nat \ {0},
         caller.op = "func" => a \notin {"start", "shown"} /\ caller.c = Top.c,
         caller.op # "hot"
  PROVE  \E g : Calling(f, g) /\ QuietCall(f, g)
<1> DEFINE g == [caller EXCEPT !.at = a]
<1>1. /\ DOMAIN g = Fields /\ g.at = a /\ g.op = caller.op /\ g.c = caller.c
      /\ g.text = caller.text /\ g.i = caller.i
  BY AtLemma
<1>2. f.op \notin {"session", "engine", "hot", "func", "script", "show", "yesno"}
  BY DEF Simple
<1>3. stack' = <<f, g>> \o Tail(stack)
  BY DEF CallFrom
<1> HIDE DEF g
<1>4. Calling(f, g)
  BY <1>1, <1>2, <1>3 DEF Calling, Keeps
<1>5. QuietCall(f, g)
  BY <1>2 DEF QuietCall, Deep
<1> QED BY <1>4, <1>5

LEMMA CallMove ==
  ASSUME StackInv, NEW f, NEW a, Call(f, a),
         DOMAIN f = Fields, f.at = "start", f.i = 1, f.op \in Simple,
         Top.op = "func" => a \notin {"start", "shown"}, Top.op # "hot"
  PROVE  \E g : Calling(f, g) /\ QuietCall(f, g)
<1>1. CallFrom(f, a, Top)
  BY DEF Call, CallFrom
<1> QED BY <1>1, TopLemma, CallFromMove

LEMMA SimpleCall ==
  ASSUME StackInv, NEW op \in Simple, NEW c, NEW a, Call(Frame(op, c), a),
         Top.op = "func" => a \notin {"start", "shown"}, Top.op # "hot"
  PROVE  QuietMove
<1> DEFINE f == Frame(op, c)
<1>1. DOMAIN f = Fields /\ f.op = op /\ f.at = "start" /\ f.i = 1
  BY FrameLemma
<1>2. Call(f, a)
  OBVIOUS
<1> HIDE DEF f
<1>3. \E g : Calling(f, g) /\ QuietCall(f, g)
  BY <1>1, <1>2, CallMove
<1> QED BY <1>3 DEF QuietMove

LEMMA QuietIsMove ==
  ASSUME QuietMove PROVE StackMove
BY DEF QuietMove, StackMove

LEMMA HandMove ==
  ASSUME StackInv, Top.op = "getkey", NEW k, Hand(k)
  PROVE  QuietMove
<1>1. CASE Goto("start")
  BY <1>1, GotoMove DEF QuietMove
<1>2. CASE Return(k)
  BY <1>2 DEF QuietMove, Returns, Return
<1> QED BY <1>1, <1>2 DEF Hand

LEMMA KeyMove ==
  ASSUME StackInv, KeyRefused \/ KeyPushed \/ KeyLocal \/ KeyNotLocal \/ KeyRead \/ KeyWaits
                   \/ KeyDeadline \/ KeyExpires \/ KeyLost
  PROVE  QuietMove /\ Top.op = "getkey"
<1>1. Top.op = "getkey"
  BY DEF KeyRefused, KeyPushed, KeyLocal, KeyNotLocal, KeyRead, KeyWaits, KeyDeadline,
         KeyExpires, KeyLost, Polling, At
<1>2. CASE KeyRefused \/ KeyExpires \/ KeyLost
  BY <1>1, <1>2 DEF KeyRefused, KeyExpires, KeyLost, Return, QuietMove, Returns
<1>3. CASE KeyPushed \/ KeyRead
  BY <1>1, <1>3, HandMove DEF KeyPushed, KeyRead
<1>4. CASE KeyLocal
  <2>1. CASE Call(Frame("command", Head(local)), "local")
    BY <1>1, <2>1, SimpleCall DEF Simple
  <2> QED BY <1>1, <1>4, <2>1, HandMove DEF KeyLocal
<1>5. CASE KeyNotLocal
  <2>1. Goto("read") \/ Return(Failed)
    BY <1>5 DEF KeyNotLocal
  <2>2. CASE Goto("read")
    BY <1>1, <2>2, GotoMove DEF QuietMove
  <2>3. CASE Return(Failed)
    BY <1>1, <2>3 DEF Return, QuietMove, Returns
  <2> QED BY <2>1, <2>2, <2>3
<1>6. CASE KeyWaits
  <2>1. stack' = stack
    BY <1>6 DEF KeyWaits
  <2> QED BY <1>1, <2>1 DEF QuietMove
<1>7. CASE KeyDeadline
  BY <1>1, <1>7, GotoMove DEF KeyDeadline, QuietMove
<1> QED BY <1>1, <1>2, <1>3, <1>4, <1>5, <1>6, <1>7

\* A function, a script or a question calls something that is no hot text.
LEMMA DeepCall ==
  ASSUME StackInv, Top.op \in {"func", "script", "yesno"}, NEW f, NEW a, Call(f, a),
         DOMAIN f = Fields, f.at = "start", f.i = 1, f.op \notin {"session", "engine", "hot"},
         f.op = "func" /\ f.c = "hot" => Plain(Library[f.text[1]]),
         a \notin {"start", "shown"}
  PROVE  QuietMove
<1> DEFINE g == [Top EXCEPT !.at = a]
<1>1. DOMAIN g = Fields /\ g.at = a /\ g.op = Top.op /\ g.text = Top.text /\ g.c = Top.c
  BY TopLemma, AtLemma
<1>2. stack' = <<f, g>> \o Tail(stack)
  BY DEF Call
<1> HIDE DEF g
<1>3. Calling(f, g)
  BY <1>1, <1>2 DEF Calling, Keeps
<1>4. QuietCall(f, g)
  BY DEF QuietCall, Deep
<1> QED BY <1>3, <1>4 DEF QuietMove

LEMMA InputMove ==
  ASSUME StackInv, Peek \/ Mate \/ Drain \/ Arrow \/ YesNo \/ Line \/ Press \/ Enter \/ Ask
  PROVE  QuietMove /\ Top.op \in (Simple \ {"getkey", "chat", "command"}) \cup {"yesno"}
<1> USE DEF At, Simple
<1>0. DOMAIN Top = Fields
  BY TopLemma
<1>1. CASE Peek
  <2>1. Top.op = "peek"
    BY <1>1 DEF Peek
  <2>2. stack' = Tail(stack) \/ Call(TimedKey, "got")
    BY <1>1 DEF Peek, Return
  <2> QED BY <2>1, <2>2, TimedLemma, CallMove DEF QuietMove, Returns
<1>2. CASE Mate
  <2>1. Top.op = "mate"
    BY <1>2 DEF Mate
  <2>2. stack' = Tail(stack) \/ Call(PeekKey, "peeked") \/ Call(GetKey, "end")
    BY <1>2 DEF Mate, Return
  <2> QED BY <2>1, <2>2, SimpleCall DEF QuietMove, Returns, PeekKey, GetKey
<1>3. CASE Drain
  <2>1. Top.op = "drain"
    BY <1>3 DEF Drain
  <2>2. \/ stack' = Tail(stack) \/ Call(PeekKey, "peeked")
        \/ CallFrom(GetKey, "took", [Top EXCEPT !.c = ret.c])
        \/ CallFrom(MateOf(Top.c), "start", [Top EXCEPT !.i = @ + 1])
    BY <1>3 DEF Drain
  <2>3. /\ DOMAIN [Top EXCEPT !.c = ret.c] = Fields
        /\ [Top EXCEPT !.c = ret.c].op = "drain" /\ [Top EXCEPT !.c = ret.c].text = Top.text
        /\ DOMAIN [Top EXCEPT !.i = @ + 1] = Fields
        /\ [Top EXCEPT !.i = @ + 1].op = "drain" /\ [Top EXCEPT !.i = @ + 1].text = Top.text
    BY <1>0, <2>1 DEF Fields
  <2>4. CASE CallFrom(GetKey, "took", [Top EXCEPT !.c = ret.c])
    <3> DEFINE f == GetKey
    <3> DEFINE caller == [Top EXCEPT !.c = ret.c]
    <3>1. DOMAIN f = Fields /\ f.op \in Simple /\ f.at = "start" /\ f.i = 1
      BY FrameLemma DEF GetKey
    <3>2. DOMAIN caller = Fields /\ caller.op = "drain" /\ caller.text = Top.text
      BY <2>3
    <3>3. \E a : CallFrom(f, a, caller)
      BY <2>4
    <3> HIDE DEF f, caller
    <3>4. \E g : Calling(f, g) /\ QuietCall(f, g)
      BY <2>1, <3>1, <3>2, <3>3, CallFromMove
    <3> QED BY <2>1, <3>4 DEF QuietMove
  <2>5. CASE CallFrom(MateOf(Top.c), "start", [Top EXCEPT !.i = @ + 1])
    <3> DEFINE f == MateOf(Top.c)
    <3> DEFINE caller == [Top EXCEPT !.i = @ + 1]
    <3>1. DOMAIN f = Fields /\ f.op \in Simple /\ f.at = "start" /\ f.i = 1
      BY FrameLemma DEF MateOf
    <3>2. DOMAIN caller = Fields /\ caller.op = "drain" /\ caller.text = Top.text
      BY <2>3
    <3>3. \E a : CallFrom(f, a, caller)
      BY <2>5
    <3> HIDE DEF f, caller
    <3>4. \E g : Calling(f, g) /\ QuietCall(f, g)
      BY <2>1, <3>1, <3>2, <3>3, CallFromMove
    <3> QED BY <2>1, <3>4 DEF QuietMove
  <2> QED BY <2>1, <2>2, <2>4, <2>5, SimpleCall DEF QuietMove, Returns, PeekKey
<1>4. CASE Arrow
  <2>1. Top.op = "arrow"
    BY <1>4 DEF Arrow
  <2>2. stack' = Tail(stack) \/ Goto("sequence") \/ \E a : Call(TimedKey, a)
    BY <1>4 DEF Arrow, Return
  <2> QED BY <2>1, <2>2, TimedLemma, CallMove, GotoMove DEF QuietMove, Returns
<1>5. CASE YesNo
  <2>1. Top.op = "yesno"
    BY <1>5 DEF YesNo
  <2>2. \/ stack' = Tail(stack) \/ Goto("ask") \/ Call(Frame("getkey", "-"), "got")
        \/ Call(Frame("script", "yesno"), "scripted")
    BY <1>5 DEF YesNo, GetKey
  <2>3. CASE Call(Frame("script", "yesno"), "scripted")
    <3> DEFINE f == Frame("script", "yesno")
    <3>1. DOMAIN f = Fields /\ f.op = "script" /\ f.at = "start" /\ f.i = 1
      BY FrameLemma
    <3>2. Call(f, "scripted")
      BY <2>3
    <3> HIDE DEF f
    <3> QED BY <2>1, <3>1, <3>2, DeepCall
  <2> QED BY <2>1, <2>2, <2>3, SimpleCall, GotoMove DEF QuietMove, Returns
<1>6. CASE Line
  <2>1. Top.op = "line"
    BY <1>6 DEF Line
  <2>2. stack' = Tail(stack) \/ Goto("start") \/ Call(GetKey, "got") \/ Call(MateOf("CR"), "end")
    BY <1>6 DEF Line, Return
  <2> QED BY <2>1, <2>2, SimpleCall, GotoMove DEF QuietMove, Returns, GetKey, MateOf
<1>7. CASE Press
  <2>1. Top.op = "press"
    BY <1>7 DEF Press
  <2>2. \/ stack' = Tail(stack) \/ Goto("more") \/ Call(Frame("ask", "-"), "more")
        \/ Call(Frame("enter", "-"), "end")
    BY <1>7 DEF Press, Return
  <2> QED BY <2>1, <2>2, SimpleCall, GotoMove DEF QuietMove, Returns
<1>8. CASE Enter
  <2>1. Top.op = "enter"
    BY <1>8 DEF Enter
  <2>2. stack' = Tail(stack) \/ Goto("start") \/ Call(GetKey, "got")
    BY <1>8 DEF Enter, Return
  <2> QED BY <2>1, <2>2, SimpleCall, GotoMove DEF QuietMove, Returns, GetKey
<1>9. CASE Ask
  <2>1. Top.op = "ask"
    BY <1>9 DEF Ask
  <2>2. stack' = Tail(stack) \/ Call(GetKey, "got")
    BY <1>9 DEF Ask, Return
  <2> QED BY <2>1, <2>2, SimpleCall DEF QuietMove, Returns, GetKey
<1> QED BY <1>1, <1>2, <1>3, <1>4, <1>5, <1>6, <1>7, <1>8, <1>9

LEMMA TextLemma ==
  ASSUME NEW t
  PROVE  LET f == Text(t) IN
         DOMAIN f = Fields /\ f.op = "show" /\ f.at = "start" /\ f.i = 1 /\ f.text = t
BY DEF Text, Frame, Fields

\* A text that names a script is not plain.
LEMMA ElementLemma ==
  ASSUME StackInv, Top.op = "show", Top.i <= Len(Top.text),
         Element \notin {"line", "wait", "on", "off"}
  PROVE  ~Plain(Top.text)
<1> SUFFICES ASSUME Plain(Top.text) PROVE FALSE
  OBVIOUS
<1> DEFINE t == Top.text
<1>1. t \in Seq({"line", "wait", "on", "off"}) /\ Top.i \in Nat \ {0}
  BY TopLemma DEF Plain
<1>2. Top.i \in 1..Len(t)
  BY <1>1
<1>3. t[Top.i] \in {"line", "wait", "on", "off"}
  BY <1>1, <1>2
<1> QED BY <1>3 DEF Element

LEMMA ShowMove ==
  ASSUME StackInv, Show
  PROVE  StackMove /\ (QuietInv => QuietMove) /\ Top.op \in {"show", "hot"}
<1> USE DEF At
<1>0. DOMAIN Top = Fields /\ (Top.op = "show" => Top.i \in Nat \ {0})
  BY TopLemma
<1>1. SUFFICES /\ StackMove \/ QuietMove
               /\ QuietInv => QuietMove
               /\ Top.op \in {"show", "hot"}
  BY <1>1, QuietIsMove
<1>2. /\ DOMAIN Passed = Fields /\ Passed.op = Top.op /\ Passed.text = Top.text
      /\ Passed.c = Top.c
      /\ Top.op = "show" => Passed.i \in Nat \ {0}
  BY <1>0 DEF Passed, Fields
<1>3. ASSUME Advance, Top.op = "show" PROVE QuietMove
  <2>1. Within([Passed EXCEPT !.at = "next"])
    BY <1>2, <1>3, AtLemma DEF Advance, Within, Keeps
  <2> QED BY <2>1 DEF QuietMove
<1>4. ASSUME NEW op \in Simple, NEW a, CallFrom(Frame(op, "-"), a, Passed), Top.op = "show"
      PROVE  QuietMove
  <2> DEFINE f == Frame(op, "-")
  <2>1. DOMAIN f = Fields /\ f.op = op /\ f.at = "start" /\ f.i = 1
    BY FrameLemma
  <2>2. CallFrom(f, a, Passed)
    BY <1>4
  <2> HIDE DEF f
  <2>3. \E g : Calling(f, g) /\ QuietCall(f, g)
    BY <1>2, <1>4, <2>1, <2>2, CallFromMove
  <2> QED BY <2>3 DEF QuietMove
<1>5. CASE ShowStart
  <2> DEFINE g == [Top EXCEPT !.at = "next", !.on = pager.disp]
  <2>1. /\ DOMAIN g = Fields /\ g.op = Top.op /\ g.text = Top.text /\ g.i = Top.i
        /\ Top.op = "show" /\ stack' = <<g>> \o Tail(stack)
    BY <1>0, <1>5 DEF ShowStart, Fields
  <2> HIDE DEF g
  <2>2. Within(g)
    BY <1>0, <2>1 DEF Within, Keeps
  <2> QED BY <2>1, <2>2 DEF QuietMove
<1>6. CASE ShowEnd
  BY <1>6 DEF ShowEnd, Return, QuietMove, Returns
<1>7. CASE ShowCode
  <2>1. Top.op = "show" /\ Top.i <= Len(Top.text)
    BY <1>7 DEF ShowCode, More
  <2>2. CASE Advance \/ CallFrom(Frame("enter", "-"), "next", Passed)
    BY <1>3, <1>4, <2>1, <2>2 DEF Simple
  <2>4. CASE Element \in DOMAIN Library \ Codes /\ CallFrom(Text(Library[Element]), "next", Passed)
    <3> DEFINE f == Text(Library[Element])
    <3> DEFINE g == [Passed EXCEPT !.at = "next"]
    <3>1. DOMAIN f = Fields /\ f.op = "show" /\ f.at = "start" /\ f.i = 1
      BY TextLemma
    <3>2. DOMAIN g = Fields /\ g.op = "show" /\ g.text = Top.text /\ g.i \in Nat \ {0}
      BY <1>2, <2>1, AtLemma
    <3>3. stack' = <<f, g>> \o Tail(stack)
      BY <2>4 DEF CallFrom
    <3> HIDE DEF f, g
    <3>4. Calling(f, g)
      BY <2>1, <3>1, <3>2, <3>3 DEF Calling, Keeps
    <3>5. Deep(Top)
      BY <2>1, <2>4, ElementLemma DEF Deep, Codes
    <3>6. QuietCall(f, g)
      BY <2>1, <3>1, <3>5 DEF QuietCall
    <3> QED BY <2>1, <3>4, <3>6 DEF QuietMove
  <2>3. CASE /\ ~Advance /\ ~CallFrom(Frame("enter", "-"), "next", Passed)
             /\ ~(Element \in DOMAIN Library \ Codes /\ CallFrom(Text(Library[Element]), "next", Passed))
    <3> DEFINE f == Frame("script", Element)
    <3> DEFINE caller == [Passed EXCEPT !.also = pager.skip]
    <3> DEFINE g == [caller EXCEPT !.at = "scripted"]
    <3>1. Element \notin {"line", "wait", "on", "off"} /\ CallFrom(f, "scripted", caller)
      BY <1>7, <2>3 DEF ShowCode, Codes
    <3>2. DOMAIN f = Fields /\ f.op = "script" /\ f.at = "start" /\ f.i = 1
      BY FrameLemma
    <3>3. /\ DOMAIN g = Fields /\ g.op = "show" /\ g.text = Top.text /\ g.i \in Nat \ {0}
      BY <1>2, <2>1 DEF Fields
    <3>4. stack' = <<f, g>> \o Tail(stack)
      BY <3>1 DEF CallFrom
    <3> HIDE DEF f, g
    <3>5. Calling(f, g)
      BY <2>1, <3>2, <3>3, <3>4 DEF Calling, Keeps
    <3>6. Deep(Top)
      BY <2>1, <3>1, ElementLemma DEF Deep
    <3>7. QuietCall(f, g)
      BY <2>1, <3>2, <3>6 DEF QuietCall
    <3> QED BY <2>1, <3>5, <3>7 DEF QuietMove
  <2> QED BY <2>2, <2>3, <2>4
<1>8. CASE ShowScripted
  BY <1>8, GotoMove DEF ShowScripted, QuietMove
<1>9. CASE ShowLine
  <2>1. Top.op = "show" /\ (Call(PeekKey, "hot") \/ Goto("lined"))
    BY <1>9 DEF ShowLine, More
  <2> QED BY <2>1, GotoMove, SimpleCall DEF QuietMove, PeekKey, Simple
<1>10. CASE ShowHot
  <2>1. Top.op = "show" /\ (Call(TimedKey, "hit") \/ Goto("lined"))
    BY <1>10 DEF ShowHot
  <2> QED BY <2>1, GotoMove, TimedLemma, CallMove DEF QuietMove, Simple
<1>11. CASE ShowPage
  <2>1. Top.op = "show" /\ (Advance \/ CallFrom(Frame("ask", "-"), "next", Passed))
    BY <1>11 DEF ShowPage
  <2> QED BY <2>1, <1>3, <1>4 DEF Simple
<1>12. CASE Hot
  <2>1. Top.op = "hot"
    BY <1>12 DEF Hot
  <2>2. CASE stack' = Tail(stack)
    BY <2>1, <2>2 DEF QuietMove, Returns
  <2>3. CASE stack' # Tail(stack)
    <3> DEFINE f == Text(Top.text)
    <3> DEFINE caller == [Top EXCEPT !.on = pager.more, !.also = pager.disp]
    <3> DEFINE g == [caller EXCEPT !.at = "end"]
    <3>1. stack' = <<f, g>> \o Tail(stack)
      BY <1>12, <2>3 DEF Hot, CallFrom, Return
    <3>2. DOMAIN f = Fields /\ f.op = "show" /\ f.at = "start" /\ f.i = 1 /\ f.text = Top.text
      BY TextLemma
    <3>3. /\ DOMAIN g = Fields /\ g.op = "hot" /\ g.text = Top.text /\ g.at = "end"
      BY <1>0, <2>1 DEF Fields
    <3> HIDE DEF f, g
    <3>4. Calling(f, g)
      BY <2>1, <3>1, <3>2, <3>3 DEF Calling, Keeps
    <3>5. ASSUME QuietInv PROVE QuietCall(f, g)
      <4>1. Plain(Top.text)
        BY <3>5, <2>1, StackBasics DEF QuietInv
      <4> QED BY <3>2, <4>1 DEF QuietCall, Deep
    <3> QED BY <2>1, <3>4, <3>5 DEF QuietMove, StackMove
  <2> QED BY <2>2, <2>3
<1> QED BY <1>5, <1>6, <1>7, <1>8, <1>9, <1>10, <1>11, <1>12 DEF Show

LEMMA SessionMove ==
  ASSUME StackInv, Request \/ Door \/ DoorEnds \/ Answered \/ Unwind \/ Board
  PROVE  QuietMove /\ Top.op = "session"
<1> USE DEF At
<1>0. DOMAIN Top = Fields
  BY TopLemma
<1>1. Top.op = "session"
  BY DEF Request, Door, DoorEnds, Answered, Unwind, Board
<1>2. ASSUME NEW f, NEW a, Call(f, a), DOMAIN f = Fields, f.at = "start", f.i = 1,
             f.op \in {"show", "engine", "yesno"}
      PROVE  QuietMove
  <2> DEFINE g == [Top EXCEPT !.at = a]
  <2>1. DOMAIN g = Fields /\ g.op = "session" /\ g.text = Top.text
    BY <1>0, <1>1, AtLemma
  <2>2. stack' = <<f, g>> \o Tail(stack)
    BY <1>2 DEF Call
  <2> HIDE DEF g
  <2>3. Calling(f, g) /\ QuietCall(f, g)
    BY <1>1, <1>2, <2>1, <2>2 DEF Calling, Keeps, QuietCall
  <2> QED BY <2>3 DEF QuietMove
<1>3. ASSUME NEW t, NEW a, Call(Text(t), a) PROVE QuietMove
  <2> DEFINE f == Text(t)
  <2>1. DOMAIN f = Fields /\ f.op = "show" /\ f.at = "start" /\ f.i = 1
    BY TextLemma
  <2>2. Call(f, a)
    BY <1>3
  <2> HIDE DEF f
  <2> QED BY <2>1, <2>2, <1>2
<1>4. CASE Request
  <2>1. PICK r \in Requests : Asks(r)
    BY <1>4 DEF Request
  <2>2. CASE Call(GetKey, "key")
    BY <1>1, <2>2, SimpleCall DEF GetKey, Simple
  <2>3. CASE r = "yesno" /\ Call(Frame(r, "-"), "done")
    <3> DEFINE f == Frame("yesno", "-")
    <3>1. DOMAIN f = Fields /\ f.op = "yesno" /\ f.at = "start" /\ f.i = 1
      BY FrameLemma
    <3>2. Call(f, "done")
      BY <2>3
    <3> HIDE DEF f
    <3> QED BY <1>1, <1>2, <3>1, <3>2
  <2>4. CASE \E t \in Texts : Call(Text(t), "done")
    <3>1. PICK t \in Texts : Call(Text(t), "done")
      BY <2>4
    <3>2. QuietMove
      BY <3>1, <1>3
    <3> QED BY <1>1, <3>2
  <2> QED BY <1>1, <2>1, <2>2, <2>3, <2>4 DEF Asks
<1>5. CASE Door \/ DoorEnds
  <2>1. PICK a, on : stack' = <<[Top EXCEPT !.at = a, !.on = on]>> \o Tail(stack)
    BY <1>5 DEF Door, DoorEnds
  <2> DEFINE g == [Top EXCEPT !.at = a, !.on = on]
  <2>2. DOMAIN g = Fields /\ g.op = Top.op /\ g.text = Top.text
    BY <1>0 DEF Fields
  <2> HIDE DEF g
  <2>3. stack' = <<g>> \o Tail(stack)
    BY <2>1 DEF g
  <2>4. Within(g)
    BY <1>1, <2>2, <2>3 DEF Within, Keeps
  <2> QED BY <1>1, <2>4 DEF QuietMove
<1>6. CASE Answered
  <2>1. Call(MateOf(ret.c), "done") \/ Goto("done")
    BY <1>6 DEF Answered
  <2> QED BY <1>1, <2>1, SimpleCall, GotoMove DEF MateOf, Simple, QuietMove
<1>7. CASE Unwind
  <2>1. \E a : Goto(a)
    BY <1>7 DEF Unwind
  <2> QED BY <1>1, <2>1, GotoMove DEF QuietMove
<1>8. CASE Board
  <2>1. Call(Frame("engine", "-"), "left") \/ Goto("done") \/ Call(Text(Goodbye), "done")
    BY <1>8 DEF Board
  <2>2. CASE Call(Frame("engine", "-"), "left")
    <3> DEFINE f == Frame("engine", "-")
    <3>1. DOMAIN f = Fields /\ f.op = "engine" /\ f.at = "start" /\ f.i = 1
      BY FrameLemma
    <3>2. Call(f, "left")
      BY <2>2
    <3> HIDE DEF f
    <3> QED BY <1>1, <1>2, <3>1, <3>2
  <2> QED BY <1>1, <1>3, <2>1, <2>2, GotoMove DEF QuietMove
<1> QED BY <1>4, <1>5, <1>6, <1>7, <1>8

LEMMA CommandMove ==
  ASSUME StackInv, SysopCommand
  PROVE  QuietMove /\ Top.op = "command"
<1> USE DEF At
<1>1. Top.op = "command"
  BY DEF SysopCommand, CommandStart, CommandAsked, CommandGranted, CommandShown, CommandEnd
<1>2. ASSUME stack' = Tail(stack) PROVE QuietMove
  BY <1>1, <1>2 DEF QuietMove, Returns
<1>3. ASSUME NEW a, Goto(a) PROVE QuietMove
  BY <1>1, <1>3, GotoMove DEF QuietMove
<1>4. ASSUME NEW op \in Simple, NEW c, NEW a, Call(Frame(op, c), a) PROVE QuietMove
  BY <1>1, <1>4, SimpleCall
<1>5. CASE CommandStart
  <2>1. stack' = Tail(stack) \/ Call(Frame("window", "password"), "asked") \/ Goto("granted")
    BY <1>5 DEF CommandStart, Window
  <2> QED BY <2>1, <1>1, <1>2, <1>3, <1>4 DEF Simple
<1>6. CASE CommandAsked
  <2>1. Goto("end") \/ Goto("granted")
    BY <1>6 DEF CommandAsked
  <2> QED BY <2>1, <1>1, <1>3
<1>7. CASE CommandGranted
  <2>1. Goto("end") \/ Call(Frame("chat", "-"), "end") \/ Call(Frame("window", Top.c), "shown")
    BY <1>7 DEF CommandGranted, Window
  <2> QED BY <2>1, <1>1, <1>3, <1>4 DEF Simple
<1>8. CASE CommandShown
  BY <1>8, <1>1, <1>3 DEF CommandShown
<1>9. CASE CommandEnd
  BY <1>9, <1>1, <1>2 DEF CommandEnd, Return
<1> QED BY <1>5, <1>6, <1>7, <1>8, <1>9 DEF SysopCommand

LEMMA WindowMove ==
  ASSUME StackInv, WindowOpens \/ WindowCloses
  PROVE  QuietMove /\ Top.op = "window"
<1>1. Top.op = "window"
  BY DEF WindowOpens, WindowCloses, At
<1>2. CASE WindowOpens
  BY <1>1, <1>2, GotoMove DEF WindowOpens, QuietMove
<1>3. CASE WindowCloses
  BY <1>1, <1>3 DEF WindowCloses, Return, QuietMove, Returns
<1> QED BY <1>1, <1>2, <1>3

LEMMA ChatMove ==
  ASSUME StackInv, Chat
  PROVE  StackMove /\ (Plain(Startchat) => QuietMove) /\ Top.op = "chat"
<1> USE DEF At
<1>0. DOMAIN Top = Fields
  BY TopLemma
<1>1. Top.op = "chat"
  BY DEF Chat, ChatStart, ChatCapture, ChatKey, ChatChar, ChatNamed, ChatLeave, ChatEnd
<1>2. SUFFICES (StackMove \/ QuietMove) /\ (Plain(Startchat) => QuietMove)
  BY <1>1, <1>2, QuietIsMove
<1>3. ASSUME NEW a, Goto(a) PROVE QuietMove
  BY <1>1, <1>3, GotoMove DEF QuietMove
<1>4. ASSUME NEW op \in Simple, NEW c, NEW a, Call(Frame(op, c), a) PROVE QuietMove
  BY <1>1, <1>4, SimpleCall
<1>5. ASSUME NEW g, DOMAIN g = Fields, g.op = "chat", g.text = Top.text,
             stack' = <<Text(Startchat), g>> \o Tail(stack)
      PROVE  StackMove /\ (Plain(Startchat) => QuietMove)
  <2> DEFINE f == Text(Startchat)
  <2>1. DOMAIN f = Fields /\ f.op = "show" /\ f.at = "start" /\ f.i = 1 /\ f.text = Startchat
    BY TextLemma
  <2>2. stack' = <<f, g>> \o Tail(stack)
    BY <1>5
  <2> HIDE DEF f
  <2>3. Calling(f, g)
    BY <1>1, <1>5, <2>1, <2>2 DEF Calling, Keeps
  <2>4. Plain(Startchat) => QuietCall(f, g)
    BY <2>1 DEF QuietCall, Deep
  <2> QED BY <2>3, <2>4 DEF StackMove, QuietMove
<1>6. CASE ChatStart
  <2> DEFINE h == [Top EXCEPT !.on = pager.more, !.also = idle.on]
  <2> DEFINE a == IF AutoCapture THEN "capture" ELSE "key"
  <2> DEFINE g == [h EXCEPT !.at = a]
  <2>1. DOMAIN g = Fields /\ g.op = "chat" /\ g.text = Top.text
    BY <1>0, <1>1 DEF Fields
  <2>2. stack' = <<Text(Startchat), g>> \o Tail(stack)
    BY <1>6 DEF ChatStart, CallFrom
  <2> HIDE DEF g
  <2> QED BY <2>1, <2>2, <1>5
<1>7. CASE ChatKey \/ ChatCapture
  BY <1>7, <1>3, <1>4 DEF ChatKey, ChatCapture, Window, GetKey, Simple
<1>8. CASE ChatChar
  <2>1. \/ Goto("leave") \/ Goto("key") \/ Call(Frame("window", "closed"), "key")
        \/ Call(Frame("window", "name"), "named")
    BY <1>8 DEF ChatChar, Window
  <2> QED BY <2>1, <1>3, <1>4 DEF Simple
<1>9. CASE ChatNamed
  BY <1>9, <1>3 DEF ChatNamed
<1>10. CASE ChatLeave
  <2>1. CASE Call(Frame("window", "closed"), "leave")
    BY <2>1, <1>4 DEF Simple
  <2>2. CASE Call(Text(Startchat), "end")
    <3> DEFINE g == [Top EXCEPT !.at = "end"]
    <3>1. DOMAIN g = Fields /\ g.op = "chat" /\ g.text = Top.text
      BY <1>0, <1>1, AtLemma
    <3>2. stack' = <<Text(Startchat), g>> \o Tail(stack)
      BY <2>2 DEF Call
    <3> HIDE DEF g
    <3> QED BY <3>1, <3>2, <1>5
  <2> QED BY <1>10, <2>1, <2>2 DEF ChatLeave, Window
<1>11. CASE ChatEnd
  BY <1>1, <1>11 DEF ChatEnd, QuietMove, Returns
<1> QED BY <1>6, <1>7, <1>8, <1>9, <1>10, <1>11, QuietIsMove DEF Chat

LEMMA ScriptCallMove ==
  ASSUME StackInv, Top.op = "script", NEW f, NEW a, Call(f, a),
         DOMAIN f = Fields, f.at = "start", f.i = 1, f.op \notin {"session", "engine", "hot"}
  PROVE  \E g : Calling(f, g) /\ g.at = a
<1> DEFINE g == [Top EXCEPT !.at = a]
<1>1. DOMAIN g = Fields /\ g.at = a /\ g.op = Top.op /\ g.text = Top.text /\ g.c = Top.c
  BY TopLemma, AtLemma
<1>2. stack' = <<f, g>> \o Tail(stack)
  BY DEF Call
<1> HIDE DEF g
<1>3. Calling(f, g)
  BY <1>1, <1>2 DEF Calling, Keeps
<1> QED BY <1>1, <1>3

LEMMA FuncLemma ==
  ASSUME NEW typ, NEW data
  PROVE  LET f == Func(typ, data) IN
         /\ DOMAIN f = Fields /\ f.op = "func" /\ f.at = "start" /\ f.i = 1
         /\ f.c = typ /\ f.text = data
BY DEF Func, Frame, Fields

\* What a script calls is none of these.
LEMMA CallsLemma ==
  ASSUME Cmd[1] \in Callers
  PROVE  LET f == Calls IN
         /\ DOMAIN f = Fields /\ f.at = "start" /\ f.i = 1
         /\ f.op \notin {"session", "engine", "hot"}
         /\ f.op = "func" => Cmd[1] = "MENUCMND" /\ f.c = Cmd[2] /\ f.text = Cmd[3]
<1>1. CASE Cmd[1] = "DISPLAYFILE"
  <2>1. Calls = Text(Library[Cmd[2]])
    BY <1>1 DEF Calls
  <2> QED BY <2>1, TextLemma
<1>2. CASE Cmd[1] = "WAITENTER"
  <2>1. Calls = Frame("enter", "-")
    BY <1>2 DEF Calls
  <2> QED BY <2>1, FrameLemma
<1>3. CASE Cmd[1] = "ASK"
  <2>1. Calls = Frame("drain", "-")
    BY <1>3 DEF Calls
  <2> QED BY <2>1, FrameLemma
<1>4. CASE Cmd[1] \in {"GETCHOICE", "GETRAWKEY"}
  <2>1. Calls = Frame("getkey", "-")
    BY <1>4 DEF Calls, GetKey
  <2> QED BY <2>1, FrameLemma
<1>5. CASE Cmd[1] = "KEYPRESS"
  <2>1. Calls = Frame("peek", "-")
    BY <1>5 DEF Calls, PeekKey
  <2> QED BY <2>1, FrameLemma
<1>6. CASE Cmd[1] = "MENUCMND"
  <2>1. Calls = Func(Cmd[2], Cmd[3])
    BY <1>6 DEF Calls
  <2> QED BY <1>6, <2>1, FuncLemma
<1> QED BY <1>1, <1>2, <1>3, <1>4, <1>5, <1>6 DEF Callers

\* The hot text that the script on top may call is plain.
CmdPlain == At("script", "run") /\ Running /\ Cmd[1] = "MENUCMND" /\ Cmd[2] = "hot"
              => Plain(Library[Cmd[3][1]])

LEMMA ScriptMove ==
  ASSUME StackInv, Script
  PROVE  StackMove /\ (CmdPlain => QuietMove) /\ Top.op = "script"
<1> USE DEF At
<1>1. Top.op = "script"
  BY DEF Script, ScriptStart, ScriptIncluded, ScriptEnds, ScriptFlow, ScriptIncludes,
         ScriptSets, ScriptCalls, ScriptCalled, ScriptGot, Running
<1>2. ASSUME NEW a, Goto(a) PROVE QuietMove
  BY <1>1, <1>2, GotoMove DEF QuietMove
<1>3. ASSUME stack' = Tail(stack) PROVE QuietMove
  BY <1>1, <1>3 DEF QuietMove, Returns
<1>4. ASSUME stack' = stack PROVE QuietMove
  BY <1>4 DEF QuietMove
<1>5. CASE ScriptStart
  BY <1>5, <1>2, <1>3, <1>1, QuietIsMove DEF ScriptStart
<1>6. CASE ScriptEnds
  BY <1>6, <1>3, <1>1, QuietIsMove DEF ScriptEnds, Return
<1>7. CASE ScriptIncluded \/ ScriptFlow \/ ScriptIncludes \/ ScriptSets
  <2>1. stack' = stack
    BY <1>7 DEF ScriptIncluded, ScriptFlow, ScriptIncludes, ScriptSets
  <2> QED BY <2>1, <1>4, <1>1, QuietIsMove
<1>8. CASE ScriptCalls
  <2> DEFINE f == Calls
  <2>1. /\ DOMAIN f = Fields /\ f.at = "start" /\ f.i = 1
        /\ f.op \notin {"session", "engine", "hot"}
        /\ f.op = "func" => Cmd[1] = "MENUCMND" /\ f.c = Cmd[2] /\ f.text = Cmd[3]
    BY <1>8, CallsLemma DEF ScriptCalls
  <2>2. Call(f, "called") /\ Running
    BY <1>8 DEF ScriptCalls
  <2> HIDE DEF f
  <2>3. StackMove
    BY <1>1, <2>1, <2>2, ScriptCallMove DEF StackMove
  <2>4. ASSUME CmdPlain PROVE QuietMove
    <3>1. f.op = "func" /\ f.c = "hot" => Plain(Library[f.text[1]])
      BY <2>1, <2>2, <2>4 DEF CmdPlain, Running
    <3> QED BY <1>1, <2>1, <2>2, <3>1, DeepCall
  <2> QED BY <1>1, <2>3, <2>4
<1>9. CASE ScriptCalled
  <2>1. \/ Goto("run") \/ Call(Frame("line", "-"), "asked") \/ Call(Frame("getkey", "-"), "called")
        \/ Call(Frame("arrow", "-"), "arrow")
    BY <1>9 DEF ScriptCalled, GetKey
  <2>2. QuietMove
    BY <2>1, <1>1, <1>2, SimpleCall DEF Simple
  <2> QED BY <2>2, <1>1, QuietIsMove
<1>10. CASE ScriptGot
  BY <1>10, <1>2, <1>1, QuietIsMove DEF ScriptGot
<1> QED BY <1>5, <1>6, <1>7, <1>8, <1>9, <1>10 DEF Script

LEMMA FunctionMove ==
  ASSUME StackInv, Function
  PROVE  StackMove /\ (QuietInv => QuietMove) /\ Top.op = "func"
<1> USE DEF At
<1>0. DOMAIN Top = Fields
  BY TopLemma
<1>1. Top.op = "func"
  BY DEF Function
<1>2. ASSUME stack' = Tail(stack) PROVE QuietMove
  BY <1>1, <1>2 DEF QuietMove, Returns
<1>3. ASSUME NEW op \in Simple \cup {"script"}, NEW c, NEW a, Call(Frame(op, c), a),
             a \notin {"start", "shown"}
      PROVE  QuietMove
  <2> DEFINE f == Frame(op, c)
  <2>1. DOMAIN f = Fields /\ f.op = op /\ f.at = "start" /\ f.i = 1
    BY FrameLemma
  <2>2. Call(f, a)
    BY <1>3
  <2>3. op \notin {"session", "engine", "hot", "func"}
    BY DEF Simple
  <2> HIDE DEF f
  <2> QED BY <1>1, <1>3, <2>1, <2>2, <2>3, DeepCall
<1>4. ASSUME NEW t, NEW a, Call(Text(t), a), a \notin {"start", "shown"} PROVE QuietMove
  <2> DEFINE f == Text(t)
  <2>1. DOMAIN f = Fields /\ f.op = "show" /\ f.at = "start" /\ f.i = 1
    BY TextLemma
  <2>2. Call(f, a)
    BY <1>4
  <2> HIDE DEF f
  <2> QED BY <1>1, <1>4, <2>1, <2>2, DeepCall
<1>5. CASE FuncMenu
  <2>1. stack' = Tail(stack) \/ Call(Frame("line", "-"), "pass")
    BY <1>5 DEF FuncMenu
  <2> QED BY <2>1, <1>1, <1>2, <1>3, QuietIsMove DEF Simple
<1>6. CASE FuncShow
  <2>1. \/ stack' = Tail(stack)
        \/ \E t : \E a \in {"end", "enter"} : Call(Text(t), a)
        \/ Call(Frame("press", "-"), "end")
        \/ Call(Frame("script", Top.text[1]), "end")
        \/ Top.c = "hot" /\ Call(HotText(Library[Top.text[1]], HotChars), "shown")
    BY <1>6 DEF FuncShow
  <2>2. CASE \/ stack' = Tail(stack)
             \/ \E t : \E a \in {"end", "enter"} : Call(Text(t), a)
             \/ Call(Frame("press", "-"), "end")
             \/ Call(Frame("script", Top.text[1]), "end")
    <3>1. QuietMove
      BY <2>2, <1>2, <1>3, <1>4 DEF Simple
    <3> QED BY <3>1, <1>1, QuietIsMove
  <2>3. CASE Top.c = "hot" /\ Call(HotText(Library[Top.text[1]], HotChars), "shown")
    <3> DEFINE f == HotText(Library[Top.text[1]], HotChars)
    <3> DEFINE g == [Top EXCEPT !.at = "shown"]
    <3>1. DOMAIN f = Fields /\ f.op = "hot" /\ f.at = "start" /\ f.i = 1 /\ f.text = Library[Top.text[1]]
      BY DEF HotText, Frame, Fields
    <3>2. DOMAIN g = Fields /\ g.at = "shown" /\ g.op = "func" /\ g.text = Top.text /\ g.c = Top.c
      BY <1>0, <1>1, AtLemma
    <3>3. stack' = <<f, g>> \o Tail(stack)
      BY <2>3 DEF Call
    <3> HIDE DEF f, g
    <3>4. Calling(f, g)
      BY <1>1, <2>3, <3>1, <3>2, <3>3 DEF Calling, Keeps
    <3>5. ASSUME QuietInv PROVE QuietCall(f, g)
      <4>1. Plain(Library[Top.text[1]])
        BY <3>5, <1>1, <2>3, StackBasics DEF QuietInv
      <4> QED BY <1>1, <3>1, <4>1 DEF QuietCall, Deep
    <3> QED BY <1>1, <3>4, <3>5 DEF QuietMove, StackMove
  <2> QED BY <2>1, <2>2, <2>3
<1>7. CASE FuncPlain
  <2>1. stack' = Tail(stack) \/ Call(Frame("press", "-"), "toggled")
    BY <1>7 DEF FuncPlain, Return
  <2> QED BY <2>1, <1>1, <1>2, <1>3, QuietIsMove DEF Simple
<1>8. CASE FuncEdit
  <2>1. \/ stack' = Tail(stack) \/ Call(Frame("line", "-"), "line")
        \/ CallFrom(Frame("line", "-"), "line", [Top EXCEPT !.on = pager.more, !.also = pager.disp])
    BY <1>8 DEF FuncEdit
  <2>2. CASE CallFrom(Frame("line", "-"), "line", [Top EXCEPT !.on = pager.more, !.also = pager.disp])
    <3> DEFINE f == Frame("line", "-")
    <3> DEFINE caller == [Top EXCEPT !.on = pager.more, !.also = pager.disp]
    <3>1. DOMAIN f = Fields /\ f.op \in Simple /\ f.at = "start" /\ f.i = 1
      BY FrameLemma DEF Simple
    <3>2. DOMAIN caller = Fields /\ caller.op = "func" /\ caller.text = Top.text /\ caller.c = Top.c
      BY <1>0, <1>1 DEF Fields
    <3>3. CallFrom(f, "line", caller)
      BY <2>2
    <3> HIDE DEF f, caller
    <3>4. \E g : Calling(f, g) /\ QuietCall(f, g)
      BY <1>1, <3>1, <3>2, <3>3, CallFromMove
    <3>5. QuietMove
      BY <3>4 DEF QuietMove
    <3> QED BY <3>5, <1>1, QuietIsMove
  <2> QED BY <2>1, <2>2, <1>1, <1>2, <1>3, QuietIsMove DEF Simple
<1> QED BY <1>5, <1>6, <1>7, <1>8 DEF Function

---------------------------------------------------------------------------
(* The menus. *)

LEMMA LeastNat ==
  ASSUME NEW S \in SUBSET Nat, S # {}
  PROVE  First(S) \in S /\ \A m \in S : First(S) <= m
<1> DEFINE R == OpToRel(<, Nat)
<1>1. PICK n \in S : \A m \in S : ~(<<m, n>> \in R)
  BY NatLessThanWellFounded, WFMin
<1>2. ASSUME NEW m \in S PROVE ~(m < n)
  <2>1. m \in Nat /\ n \in Nat
    OBVIOUS
  <2>2. <<m, n>> \in Nat \X Nat /\ <<m, n>>[1] = m /\ <<m, n>>[2] = n
    BY <2>1
  <2> QED BY <1>1, <1>2, <2>2, Zenon DEF OpToRel
<1> HIDE DEF R
<1>3. \A m \in S : n <= m
  BY <1>2
<1> QED BY <1>3 DEF First

\* The items of a menu that may be drawn.
LEMMA ItemsLemma ==
  ASSUME NEW name \in DOMAIN Menus
  PROVE  /\ Len(Items(name)) \in Nat /\ DOMAIN Items(name) = 1..Len(Items(name))
         /\ Items(name) # <<>>
<1> DEFINE R == [key : STRING, typ : STRING, data : Seq(STRING), input : Seq(STRING),
                 levels : SUBSET Nat, bar : Seq(Nat)]
<1>1. Menus[name] \in Seq(R) /\ Global \in Seq(R) /\ Menus[name] # <<>>
  BY MenuAssumption
<1> HIDE DEF R
<1> QED BY <1>1 DEF Items

LEMMA GreatestNat ==
  ASSUME NEW S \in SUBSET Nat, S # {}, NEW n \in Nat, \A i \in S : i <= n
  PROVE  Final(S) \in S
<1> DEFINE T == {n - i : i \in S}
<1>1. T \in SUBSET Nat /\ T # {} /\ \A i \in S : n - i \in T
  <2>1. \A i \in S : n - i \in Nat
    OBVIOUS
  <2> QED BY <2>1
<1>2. First(T) \in T /\ \A t \in T : First(T) <= t
  <2> HIDE DEF T
  <2> QED BY <1>1, LeastNat
<1>3. PICK m \in S : First(T) = n - m
  BY <1>2
<1>4. ASSUME NEW i \in S PROVE i <= m
  <2>1. n - m <= n - i
    BY <1>1, <1>2, <1>3
  <2>2. i \in Nat /\ m \in Nat
    OBVIOUS
  <2> QED BY <2>1, <2>2
<1> QED BY <1>4 DEF Final

\* The light bar goes to a place of the menu, or after its prompt.
LEMMA ArrowLemma ==
  ASSUME NEW items, Len(items) \in Nat, DOMAIN items = 1..Len(items),
         NEW arrow \in Int, NEW up \in BOOLEAN
  PROVE  CorrectArrow(items, arrow, up) \in Nat \ {0}
<1> DEFINE ok == {i \in DOMAIN items : BarOK(items, i)}
<1> DEFINE at == IF arrow > Len(items) THEN 2 ELSE arrow
<1> DEFINE near == {i \in ok : IF up THEN i <= at ELSE i >= at}
<1> DEFINE some == IF near = {} THEN ok ELSE near
<1>1. ok \in SUBSET (Nat \ {0}) /\ (\A i \in ok : i <= Len(items)) /\ at \in Int
  OBVIOUS
<1> HIDE DEF ok, at
<1>2. some \in SUBSET (Nat \ {0}) /\ \A i \in some : i <= Len(items)
  BY <1>1
<1>3. ASSUME ok # {} PROVE some # {} /\ Final(ok) \in ok /\ Final(some) \in some /\ First(some) \in some
  <2>1. some # {}
    BY <1>3
  <2> HIDE DEF some
  <2>2. ok \in SUBSET Nat /\ some \in SUBSET Nat
    BY <1>1, <1>2
  <2> QED BY <1>1, <1>2, <1>3, <2>1, <2>2, LeastNat, GreatestNat
<1>4. CorrectArrow(items, arrow, up) =
        CASE ok = {} -> 2
          [] ok # {} /\ at \in ok -> at
          [] ok # {} /\ at < 2 -> Final(ok)
          [] ok # {} /\ at >= 2 /\ at \notin ok -> IF up THEN Final(some) ELSE First(some)
  BY DEF CorrectArrow, ok, at
<1> HIDE DEF some
<1>5. CASE ok = {}
  BY <1>4, <1>5
<1>6. CASE ok # {} /\ at \in ok /\ ~(at < 2)
  BY <1>1, <1>4, <1>6
<1>7. CASE ok # {} /\ at \in ok /\ at < 2
  BY <1>1, <1>3, <1>4, <1>7
<1>8. CASE ok # {} /\ at < 2 /\ at \notin ok
  BY <1>1, <1>3, <1>4, <1>8
<1>9. CASE ok # {} /\ at >= 2 /\ at \notin ok
  BY <1>1, <1>2, <1>3, <1>4, <1>9
<1> QED BY <1>1, <1>5, <1>6, <1>7, <1>8, <1>9

LEMMA SidewaysLemma ==
  ASSUME NEW items, Len(items) \in Nat, DOMAIN items = 1..Len(items),
         NEW arrow \in Nat \ {0}, NEW right \in BOOLEAN
  PROVE  Sideways(items, arrow, right) \in Nat \ {0}
<1> DEFINE bar == items[arrow].bar
<1> DEFINE there == IF bar = NoBar THEN {}
                    ELSE {i \in DOMAIN items : /\ BarOK(items, i) /\ items[i].bar[2] = bar[2]
                                               /\ IF right THEN items[i].bar[1] > bar[1]
                                                  ELSE items[i].bar[1] < bar[1]}
<1> DEFINE behind == {i \in there : i > arrow}
<1>1. there \in SUBSET (Nat \ {0}) /\ \A i \in there : i <= Len(items)
  OBVIOUS
<1>2. Sideways(items, arrow, right) =
        CASE there = {} -> arrow
          [] behind # {} -> First(behind)
          [] there # {} /\ behind = {} -> IF right THEN First(there) ELSE Final(there)
  BY DEF Sideways
<1> HIDE DEF there
<1>3. behind \in SUBSET (Nat \ {0}) /\ (there = {} => behind = {})
  BY <1>1
<1> HIDE DEF behind
<1>4. there # {} => First(there) \in there /\ Final(there) \in there
  <2>1. there \in SUBSET Nat
    BY <1>1
  <2> QED BY <1>1, <2>1, LeastNat, GreatestNat
<1>5. behind # {} => First(behind) \in behind
  <2>1. behind \in SUBSET Nat
    BY <1>3
  <2> QED BY <2>1, LeastNat
<1> QED BY <1>1, <1>2, <1>3, <1>4, <1>5

LEMMA MovedLemma ==
  ASSUME NEW items, Len(items) \in Nat, DOMAIN items = 1..Len(items),
         NEW arrow \in Nat \ {0}, NEW c \in {"A", "B", "C", "D"}
  PROVE  Moved(items, arrow, c) \in Nat \ {0}
<1>1. CASE c = "A"
  <2>1. Moved(items, arrow, c) = CorrectArrow(items, arrow - 1, TRUE)
    BY <1>1 DEF Moved
  <2>2. arrow - 1 \in Int /\ TRUE \in BOOLEAN
    OBVIOUS
  <2>3. CorrectArrow(items, arrow - 1, TRUE) \in Nat \ {0}
    BY <2>2, ArrowLemma
  <2> QED BY <2>1, <2>3, Zenon
<1>2. CASE c = "B"
  <2>1. Moved(items, arrow, c) = CorrectArrow(items, arrow + 1, FALSE)
    BY <1>2 DEF Moved
  <2>2. arrow + 1 \in Int /\ FALSE \in BOOLEAN
    OBVIOUS
  <2>3. CorrectArrow(items, arrow + 1, FALSE) \in Nat \ {0}
    BY <2>2, ArrowLemma
  <2> QED BY <2>1, <2>3, Zenon
<1>3. CASE c \in {"C", "D"}
  <2> DEFINE side == Sideways(items, arrow, c = "C")
  <2>1. Moved(items, arrow, c) = CorrectArrow(items, side, FALSE)
    BY <1>3 DEF Moved
  <2>2. side \in Nat \ {0}
    BY SidewaysLemma
  <2>3. side \in Int /\ FALSE \in BOOLEAN
    BY <2>2
  <2> HIDE DEF side
  <2>4. CorrectArrow(items, side, FALSE) \in Nat \ {0}
    BY <2>3, ArrowLemma
  <2> QED BY <2>1, <2>4, Zenon
<1> QED BY <1>1, <1>2, <1>3

\* The engine has drawn the menu that its frame names.
Drawn == {"items", "ran", "choose", "ask", "key", "arrow", "picked"}
Placed(f) == f.c \in DOMAIN Menus /\ f.i \in Nat \ {0}
EngineNext(g) == g.at \in Drawn => Top.at \in Drawn /\ g.c = Top.c /\ (Placed(Top) => Placed(g))

\* An item is run by the function f, called from g.
RunsItem(f, g, i) ==
  /\ Calling(f, g) /\ EngineNext(g) /\ g.c = Top.c /\ g.at \in {"ran", "done"}
  /\ f.op = "func" /\ f.c = Item(i).typ /\ f.text = Item(i).data

LEMMA ExecMove ==
  ASSUME StackInv, Top.op = "engine", Top.at \in Drawn,
         NEW i, NEW a \in {"ran", "done"}, Exec(Items(Top.c), i, a),
         a = "ran" /\ Placed(Top) => i \in Nat \ {0}
  PROVE  \E f, g : /\ RunsItem(f, g, i) /\ g.at = a
                   /\ (Item(i).typ = "hot" => Plain(Library[Item(i).data[1]])) => QuietCall(f, g)
<1> DEFINE f == Func(Item(i).typ, Item(i).data)
<1> DEFINE caller == [Top EXCEPT !.i = i]
<1> DEFINE g == [caller EXCEPT !.at = a]
<1>1. /\ DOMAIN f = Fields /\ f.op = "func" /\ f.at = "start" /\ f.i = 1
      /\ f.c = Item(i).typ /\ f.text = Item(i).data
  BY FuncLemma
<1>2. /\ DOMAIN g = Fields /\ g.at = a /\ g.op = "engine" /\ g.text = Top.text /\ g.c = Top.c
      /\ g.i = i
  BY TopLemma DEF Fields
<1>3. stack' = <<f, g>> \o Tail(stack)
  BY DEF Exec, CallFrom, Item
<1> HIDE DEF f, g
<1>4. Calling(f, g)
  BY <1>1, <1>2, <1>3 DEF Calling, Keeps
<1>5. (Item(i).typ = "hot" => Plain(Library[Item(i).data[1]])) => QuietCall(f, g)
  BY <1>1, <1>2 DEF QuietCall
<1>6. RunsItem(f, g, i)
  BY <1>1, <1>2, <1>4 DEF RunsItem, EngineNext, Placed, Drawn
<1> QED BY <1>2, <1>5, <1>6

\* What the engine may run, and what it remembers of the menu that it draws.
MayRun(g, i) ==
  \/ Top.at = "items" /\ g.at = "ran" /\ i \in Top.i..Len(Items(Top.c)) /\ Access(Item(i))
  \/ /\ Top.at = "picked" /\ g.at = "done"
     /\ \/ i = menu.lbar /\ menu.lbar # 0 /\ Access(Item(i))
        \/ menu.lbar = 0 /\ \E k \in DOMAIN menu.hot : menu.hot[k] = i /\ k = menu.choice
Draws(g) ==
  LET name == menu.path[Len(menu.path)]
  IN /\ Readable(name) /\ Top.at = "load" /\ g.at = "items" /\ g.c = name /\ g.i = 2 /\ seen' = {level}
     /\ \E file : menu' = [menu EXCEPT !.hot = HotTable(Items(name)), !.choice = "none", !.took = "none",
                                       !.lbarFile = file]

LEMMA EngineMove ==
  ASSUME StackInv, Engine
  PROVE  /\ Top.op = "engine"
         /\ \/ stack' = stack
            \/ Returns
            \/ \E g : Within(g) /\ EngineNext(g)
            \/ \E g : Within(g) /\ Draws(g)
            \/ \E f, g : Calling(f, g) /\ QuietCall(f, g) /\ EngineNext(g) /\ f.op # "func"
            \/ \E i, f, g :
                 /\ MayRun(g, i) /\ Exec(Items(Top.c), i, g.at) /\ RunsItem(f, g, i)
                 /\ (Item(i).typ = "hot" => Plain(Library[Item(i).data[1]])) => QuietCall(f, g)
<1> USE DEF At
<1>0. DOMAIN Top = Fields
  BY TopLemma
<1>1. Top.op = "engine"
  BY DEF Engine, EngineStart, EngineLoad, EngineItems, EngineRan, EngineChoose, EngineAsk,
         EngineKey, EngineArrow, EnginePicked, EngineDone, Fallback
<1>2. ASSUME stack' = Tail(stack) PROVE Returns
  BY <1>1, <1>2 DEF Returns
<1>3. ASSUME NEW a, Goto(a), a \in Drawn => Top.at \in Drawn
      PROVE  \E g : Within(g) /\ EngineNext(g)
  <2> DEFINE g == [Top EXCEPT !.at = a]
  <2>1. /\ DOMAIN g = Fields /\ g.at = a /\ g.op = "engine" /\ g.text = Top.text /\ g.c = Top.c
        /\ g.i = Top.i
    BY <1>0, <1>1, AtLemma
  <2>2. stack' = <<g>> \o Tail(stack)
    BY <1>3 DEF Goto
  <2> HIDE DEF g
  <2>3. Within(g) /\ EngineNext(g)
    BY <1>1, <1>3, <2>1, <2>2 DEF Within, Keeps, EngineNext, Placed
  <2> QED BY <2>3
<1>4. ASSUME NEW f, NEW a, NEW caller, CallFrom(f, a, caller), a \in Drawn => Top.at \in Drawn,
             DOMAIN f = Fields, f.at = "start", f.i = 1, f.op \in Simple,
             DOMAIN caller = Fields, caller.op = "engine", caller.text = Top.text, caller.c = Top.c,
             Placed(Top) => Placed(caller)
      PROVE  \E h, g : Calling(h, g) /\ QuietCall(h, g) /\ EngineNext(g) /\ h.op # "func"
  <2> DEFINE g == [caller EXCEPT !.at = a]
  <2>1. /\ DOMAIN g = Fields /\ g.at = a /\ g.op = "engine" /\ g.text = Top.text /\ g.c = Top.c
        /\ g.i = caller.i
    BY <1>4, AtLemma
  <2>2. stack' = <<f, g>> \o Tail(stack)
    BY <1>4 DEF CallFrom
  <2>3. f.op \notin {"session", "engine", "hot", "func", "script", "show", "yesno"}
    BY <1>4 DEF Simple
  <2> HIDE DEF g
  <2>4. Calling(f, g)
    BY <1>1, <1>4, <2>1, <2>2, <2>3 DEF Calling, Keeps
  <2>5. QuietCall(f, g)
    BY <2>3 DEF QuietCall, Deep
  <2>6. EngineNext(g)
    BY <1>4, <2>1 DEF EngineNext, Placed
  <2> QED BY <2>3, <2>4, <2>5, <2>6
<1>5. ASSUME NEW op \in Simple, NEW a, Call(Frame(op, "-"), a), a \in Drawn => Top.at \in Drawn
      PROVE  \E h, g : Calling(h, g) /\ QuietCall(h, g) /\ EngineNext(g) /\ h.op # "func"
  <2> DEFINE f == Frame(op, "-")
  <2>1. DOMAIN f = Fields /\ f.op = op /\ f.at = "start" /\ f.i = 1
    BY FrameLemma
  <2>2. CallFrom(f, a, Top)
    BY <1>5 DEF Call, CallFrom
  <2> HIDE DEF f
  <2> QED BY <1>0, <1>1, <1>4, <1>5, <2>1, <2>2
<1>6. ASSUME NEW g, DOMAIN g = Fields, g.op = "engine", g.text = Top.text,
             stack' = <<g>> \o Tail(stack)
      PROVE  Within(g)
  BY <1>1, <1>6 DEF Within, Keeps
<1>7. CASE EngineStart
  <2>1. Call(Frame("drain", "-"), "load")
    BY <1>7 DEF EngineStart
  <2> QED BY <1>1, <1>5, <2>1 DEF Drawn, Simple
<1>8. CASE EngineLoad
  <2> DEFINE name == menu.path[Len(menu.path)]
  <2> DEFINE g == [Top EXCEPT !.at = "items", !.c = name, !.i = 2]
  <2> DEFINE file == Global # <<>> \/ \E i \in DOMAIN Menus[name] : Menus[name][i].bar # NoBar
  <2> DEFINE drawn == [menu EXCEPT !.hot = HotTable(Items(name)), !.choice = "none", !.took = "none",
                                   !.lbarFile = file]
  <2>1. \/ stack' = Tail(stack)
        \/ Goto("fallback") \/ stack' = stack
        \/ stack' = <<g>> \o Tail(stack) /\ menu' = drawn /\ seen' = {level} /\ Readable(name)
    BY <1>8 DEF EngineLoad
  <2>2. /\ DOMAIN g = Fields /\ g.at = "items" /\ g.op = "engine" /\ g.text = Top.text
        /\ g.c = name /\ g.i = 2
    BY <1>0, <1>1 DEF Fields
  <2> HIDE DEF g
  <2>3. CASE stack' = <<g>> \o Tail(stack) /\ menu' = drawn /\ seen' = {level} /\ Readable(name)
    <3>1. Within(g)
      BY <1>6, <2>2, <2>3
    <3>2. Top.at = "load"
      BY <1>8 DEF EngineLoad
    <3> HIDE DEF file
    <3>3. Draws(g)
      BY <2>2, <2>3, <3>2 DEF Draws
    <3> QED BY <1>1, <3>1, <3>3
  <2> QED BY <1>1, <1>2, <1>3, <2>1, <2>3 DEF Drawn
<1>9. CASE EngineItems
  <2>0. Top.at \in Drawn
    BY <1>9 DEF EngineItems, Drawn
  <2> DEFINE due == {i \in Top.i..Len(Items(Top.c)) : Automatic(Items(Top.c)[i]) /\ Access(Items(Top.c)[i])}
  <2>1. (\E i \in due : Exec(Items(Top.c), i, "ran")) \/ \E a : Goto(a)
    BY <1>9 DEF EngineItems
  <2>2. CASE \E i \in due : Exec(Items(Top.c), i, "ran")
    <3>1. PICK i \in due : Exec(Items(Top.c), i, "ran")
      BY <2>2
    <3>a. Placed(Top) => i \in Nat \ {0}
      <4>1. ASSUME Placed(Top) PROVE Len(Items(Top.c)) \in Nat
        BY <4>1, ItemsLemma DEF Placed
      <4> QED BY <3>1, <4>1 DEF Placed
    <3>2. PICK f, g : /\ RunsItem(f, g, i) /\ g.at = "ran"
                      /\ (Item(i).typ = "hot" => Plain(Library[Item(i).data[1]])) => QuietCall(f, g)
      BY <1>1, <2>0, <3>a, <3>1, ExecMove
    <3>3. Exec(Items(Top.c), i, g.at)
      BY <3>1, <3>2
    <3>4. MayRun(g, i)
      BY <1>9, <3>1, <3>2 DEF MayRun, EngineItems, Item
    <3> QED BY <1>1, <3>2, <3>3, <3>4
  <2> QED BY <1>1, <1>3, <2>0, <2>1, <2>2
<1>10. CASE EngineRan
  <2> DEFINE next == IF menu.choice = "none" THEN Top.i + 1 ELSE Len(Items(Top.c)) + 1
  <2> DEFINE g == [Top EXCEPT !.at = "items", !.i = next]
  <2>0. Top.at \in Drawn
    BY <1>10 DEF EngineRan, Drawn
  <2>1. stack' = Tail(stack) \/ Goto("load") \/ stack' = <<g>> \o Tail(stack)
    BY <1>10 DEF EngineRan
  <2>2. DOMAIN g = Fields /\ g.op = "engine" /\ g.text = Top.text /\ g.c = Top.c /\ g.i = next
    BY <1>0, <1>1 DEF Fields
  <2> HIDE DEF g
  <2>3. CASE stack' = <<g>> \o Tail(stack)
    <3>1. Placed(Top) => next \in Nat \ {0}
      <4>1. ASSUME Placed(Top) PROVE Len(Items(Top.c)) \in Nat
        BY <4>1, ItemsLemma DEF Placed
      <4> QED BY <4>1 DEF Placed
    <3> HIDE DEF next
    <3>2. Within(g) /\ EngineNext(g)
      BY <1>6, <2>0, <2>2, <2>3, <3>1 DEF EngineNext, Placed
    <3> QED BY <1>1, <3>2
  <2> QED BY <1>1, <1>2, <1>3, <2>0, <2>1, <2>3
<1>11. CASE EngineChoose
  <2> DEFINE next == IF menu.support THEN CorrectArrow(Items(Top.c), 2, FALSE) ELSE 2
  <2> DEFINE ready == [Top EXCEPT !.i = next]
  <2> DEFINE g == [ready EXCEPT !.at = "ask"]
  <2> DEFINE f == Frame("drain", "-")
  <2>0. Top.at \in Drawn
    BY <1>11 DEF EngineChoose, Drawn
  <2>1. CallFrom(f, "ask", ready) \/ stack' = <<g>> \o Tail(stack)
    BY <1>11 DEF EngineChoose
  <2>a. Placed(Top) => next \in Nat \ {0}
    <3> SUFFICES ASSUME Placed(Top) PROVE next \in Nat \ {0}
      OBVIOUS
    <3>1. Len(Items(Top.c)) \in Nat /\ DOMAIN Items(Top.c) = 1..Len(Items(Top.c))
      BY ItemsLemma DEF Placed
    <3>2. 2 \in Int /\ FALSE \in BOOLEAN
      OBVIOUS
    <3>3. CorrectArrow(Items(Top.c), 2, FALSE) \in Nat \ {0}
      BY <3>1, <3>2, ArrowLemma
    <3>4. CASE menu.support
      <4>1. next = CorrectArrow(Items(Top.c), 2, FALSE)
        BY <3>4
      <4> QED BY <3>3, <4>1, Zenon
    <3>5. CASE ~menu.support
      BY <3>5
    <3> QED BY <3>4, <3>5
  <2> HIDE DEF next
  <2>2. /\ DOMAIN ready = Fields /\ ready.op = "engine" /\ ready.text = Top.text /\ ready.c = Top.c
        /\ Placed(Top) => Placed(ready)
    BY <1>0, <1>1, <2>a DEF Fields, Placed
  <2> HIDE DEF ready
  <2>3. /\ DOMAIN g = Fields /\ g.op = "engine" /\ g.text = Top.text /\ g.c = Top.c
        /\ g.i = ready.i
    BY <2>2, AtLemma
  <2>4. DOMAIN f = Fields /\ f.op \in Simple /\ f.at = "start" /\ f.i = 1
    BY FrameLemma DEF Simple
  <2> HIDE DEF g, f
  <2>5. CASE CallFrom(f, "ask", ready)
    <3>1. \E h, k : Calling(h, k) /\ QuietCall(h, k) /\ EngineNext(k) /\ h.op # "func"
      BY <1>4, <2>0, <2>2, <2>4, <2>5
    <3> QED BY <1>1, <3>1
  <2>6. CASE stack' = <<g>> \o Tail(stack)
    <3>1. Within(g) /\ EngineNext(g)
      BY <1>6, <2>0, <2>2, <2>3, <2>6 DEF EngineNext, Placed
    <3> QED BY <1>1, <3>1
  <2> QED BY <2>1, <2>5, <2>6
<1>12. CASE EngineAsk
  <2>0. Top.at \in Drawn
    BY <1>12 DEF EngineAsk, Drawn
  <2> DEFINE f == TimedKey
  <2>1. DOMAIN f = Fields /\ f.op \in Simple /\ f.at = "start" /\ f.i = 1
    BY TimedLemma DEF Simple
  <2>2. CallFrom(f, "key", Top)
    BY <1>12 DEF EngineAsk, Call, CallFrom
  <2> HIDE DEF f
  <2>3. \E h, k : Calling(h, k) /\ QuietCall(h, k) /\ EngineNext(k) /\ h.op # "func"
    BY <1>0, <1>1, <1>4, <2>0, <2>1, <2>2
  <2> QED BY <1>1, <2>3
<1>13. CASE EngineKey
  <2>0. Top.at \in Drawn
    BY <1>13 DEF EngineKey, Drawn
  <2>1. \/ stack' = Tail(stack) \/ Call(Frame("arrow", "-"), "arrow")
        \/ Goto("picked") \/ Goto("ask")
    BY <1>13 DEF EngineKey
  <2> QED BY <1>1, <1>2, <1>3, <1>5, <2>0, <2>1 DEF Simple
<1>14. CASE EngineArrow
  <2> DEFINE next == Moved(Items(Top.c), Top.i, ret.c)
  <2> DEFINE g == [Top EXCEPT !.at = "ask", !.i = next]
  <2>0. Top.at \in Drawn
    BY <1>14 DEF EngineArrow, Drawn
  <2>1. \/ stack' = <<g>> \o Tail(stack) /\ ret.c \in {"A", "B", "C", "D"}
        \/ Goto("picked") \/ Goto("ask")
    BY <1>14 DEF EngineArrow
  <2>2. DOMAIN g = Fields /\ g.op = "engine" /\ g.text = Top.text /\ g.c = Top.c /\ g.i = next
    BY <1>0, <1>1 DEF Fields
  <2> HIDE DEF g
  <2>3. CASE stack' = <<g>> \o Tail(stack) /\ ret.c \in {"A", "B", "C", "D"}
    <3>1. Placed(Top) => next \in Nat \ {0}
      BY <2>3, ItemsLemma, MovedLemma DEF Placed
    <3> HIDE DEF next
    <3>2. Within(g) /\ EngineNext(g)
      BY <1>6, <2>0, <2>2, <2>3, <3>1 DEF EngineNext, Placed
    <3> QED BY <1>1, <3>2
  <2> QED BY <1>1, <1>3, <2>0, <2>1, <2>3
<1>15. CASE EnginePicked
  <2>0. Top.at \in Drawn
    BY <1>15 DEF EnginePicked, Drawn
  <2> DEFINE found == {menu.hot[k] : k \in DOMAIN menu.hot \cap {menu.choice}}
  <2> DEFINE runs == IF menu.lbar # 0 THEN {i \in {menu.lbar} : Access(Items(Top.c)[i])} ELSE found
  <2>1. (\E i \in runs : Exec(Items(Top.c), i, "done")) \/ Goto("load")
    BY <1>15 DEF EnginePicked
  <2>2. CASE \E i \in runs : Exec(Items(Top.c), i, "done")
    <3>1. PICK i \in runs : Exec(Items(Top.c), i, "done")
      BY <2>2
    <3>2. PICK f, g : /\ RunsItem(f, g, i) /\ g.at = "done"
                      /\ (Item(i).typ = "hot" => Plain(Library[Item(i).data[1]])) => QuietCall(f, g)
      BY <1>1, <2>0, <3>1, ExecMove
    <3>3. Exec(Items(Top.c), i, g.at)
      BY <3>1, <3>2
    <3>4. \/ i = menu.lbar /\ menu.lbar # 0 /\ Access(Items(Top.c)[i])
          \/ menu.lbar = 0 /\ \E k \in DOMAIN menu.hot : menu.hot[k] = i /\ k = menu.choice
      BY <3>1
    <3>5. MayRun(g, i)
      BY <1>15, <3>2, <3>4 DEF MayRun, EnginePicked, Item
    <3> QED BY <1>1, <3>2, <3>3, <3>5
  <2> QED BY <1>1, <1>3, <2>0, <2>1, <2>2
<1>16. CASE EngineDone
  <2>1. stack' = Tail(stack) \/ Goto("load")
    BY <1>16 DEF EngineDone
  <2> QED BY <1>1, <1>2, <1>3, <2>1 DEF Drawn
<1>17. CASE Fallback
  <2>1. \/ stack' = Tail(stack) \/ Goto("fallback") \/ Call(Frame("getkey", "-"), "fallen")
    BY <1>17 DEF Fallback, GetKey
  <2> QED BY <1>1, <1>2, <1>3, <1>5, <2>1 DEF Drawn, Simple
<1> QED BY <1>7, <1>8, <1>9, <1>10, <1>11, <1>12, <1>13, <1>14, <1>15, <1>16, <1>17 DEF Engine

---------------------------------------------------------------------------
(* What the steps do to the hot keys. *)

PagerShape ==
  DOMAIN pager = {"more", "disp", "lines", "stop", "hot", "keys", "have", "abort", "skip"}

\* The hot keys and the one that was taken stay as they are.
PagerStill == PagerShape => PagerShape' /\ pager'.keys = pager.keys /\ pager'.abort = pager.abort

LEMMA KeyPager ==
  ASSUME KeyRefused \/ KeyPushed \/ KeyLocal \/ KeyNotLocal \/ KeyRead \/ KeyWaits
         \/ KeyDeadline \/ KeyExpires \/ KeyLost
  PROVE  PagerStill
<1>1. CASE KeyRefused \/ KeyPushed \/ KeyNotLocal
  <2>1. pager' = pager \/ pager' = [pager EXCEPT !.lines = 1]
    BY <1>1 DEF KeyRefused, KeyPushed, KeyNotLocal, WarnedPage
  <2> QED BY <2>1 DEF PagerStill, PagerShape
<1>2. CASE KeyLocal \/ KeyRead \/ KeyWaits \/ KeyDeadline \/ KeyExpires \/ KeyLost
  <2>1. pager' = pager
    BY <1>2 DEF KeyLocal, KeyRead, KeyWaits, KeyDeadline, KeyExpires, KeyLost
  <2> QED BY <2>1 DEF PagerStill, PagerShape
<1> QED BY <1>1, <1>2

LEMMA TerminalPager ==
  ASSUME TerminalStep, ~Show
  PROVE  PagerStill
<1> USE DEF PagerStill, PagerShape
<1>1. ASSUME pager' = pager PROVE PagerStill
  BY <1>1
<1>2. CASE \/ KeyRefused \/ KeyPushed \/ KeyLocal \/ KeyNotLocal
           \/ KeyRead \/ KeyWaits \/ KeyExpires \/ KeyLost
  BY <1>2, KeyPager
<1>3. CASE Line
  <2>1. pager' = pager \/ pager' = [pager EXCEPT !.lines = @ + 1]
    BY <1>3 DEF Line
  <2> QED BY <2>1
<1>4. CASE Press
  <2> DEFINE p == [pager EXCEPT !.lines = @ + 1]
  <2>1. pager' = pager \/ pager' = p \/ pager' = [p EXCEPT !.lines = 0]
    BY <1>4 DEF Press
  <2> QED BY <2>1
<1>5. CASE Enter
  <2>1. pager' = pager \/ pager' = [pager EXCEPT !.lines = 0, !.stop = FALSE]
    BY <1>5 DEF Enter, Unpaged
  <2> QED BY <2>1
<1>6. CASE Ask
  <2> DEFINE a == pager.stop \/ ret.c \in {"n", "="}
  <2> DEFINE b == pager.disp /\ ret.c # "="
  <2>1. pager' = pager \/ pager' = [pager EXCEPT !.stop = a, !.disp = b]
    BY <1>6 DEF Ask
  <2> HIDE DEF a, b
  <2> QED BY <2>1
<1> HIDE DEF PagerStill
<1> QED BY <1>1, <1>2, <1>3, <1>4, <1>5, <1>6
           DEF TerminalStep, Request, Door, DoorEnds, Answered, Unwind

LEMMA SysopPager ==
  ASSUME SysopCommand \/ Chat
  PROVE  PagerStill
<1> USE DEF PagerStill, PagerShape
<1>1. ASSUME pager' = pager PROVE PagerStill
  BY <1>1
<1>2. CASE ChatStart
  <2>1. pager' = [pager EXCEPT !.more = FALSE]
    BY <1>2 DEF ChatStart
  <2> QED BY <2>1
<1>3. CASE ChatEnd
  <2>1. pager' = [pager EXCEPT !.more = Top.on]
    BY <1>3 DEF ChatEnd
  <2> QED BY <2>1
<1>4. CASE SysopCommand \/ ChatCapture \/ ChatKey \/ ChatChar \/ ChatNamed \/ ChatLeave
  <2>1. pager' = pager
    BY <1>4 DEF SysopCommand, CommandStart, CommandAsked, CommandGranted, CommandShown, CommandEnd,
                ChatCapture, ChatKey, ChatChar, ChatNamed, ChatLeave
  <2> QED BY <1>1, <2>1
<1> QED BY <1>2, <1>3, <1>4 DEF Chat

LEMMA ScriptPager ==
  ASSUME Script
  PROVE  PagerStill
<1> USE DEF PagerStill, PagerShape
<1>1. ASSUME pager' = pager PROVE PagerStill
  BY <1>1
<1>2. CASE ScriptStart
  <2>1. \/ pager' = [pager EXCEPT !.more = FALSE, !.stop = FALSE, !.skip = TRUE, !.disp = FALSE, !.lines = 0]
        \/ pager' = [pager EXCEPT !.lines = 0]
    BY <1>2 DEF ScriptStart
  <2> QED BY <2>1
<1>3. CASE ScriptEnds
  <2>1. pager' = [pager EXCEPT !.more = Q.saved.more, !.stop = Q.saved.stop,
                               !.skip = Q.saved.skip, !.disp = Q.saved.disp]
    BY <1>3 DEF ScriptEnds
  <2> QED BY <2>1
<1>4. CASE ScriptSets
  <2>1. pager' = pager \/ pager' = [pager EXCEPT !.disp = Cmd[2]]
    BY <1>4 DEF ScriptSets
  <2> QED BY <2>1
<1>5. CASE ScriptIncluded \/ ScriptFlow \/ ScriptIncludes \/ ScriptCalls \/ ScriptCalled \/ ScriptGot
  <2>1. pager' = pager
    BY <1>5 DEF ScriptIncluded, ScriptFlow, ScriptIncludes, ScriptCalls, ScriptCalled, ScriptGot
  <2> QED BY <1>1, <2>1
<1> QED BY <1>2, <1>3, <1>4, <1>5 DEF Script

LEMMA FunctionPager ==
  ASSUME Function
  PROVE  PagerStill
<1> USE DEF PagerStill, PagerShape
<1>1. ASSUME pager' = pager PROVE PagerStill
  BY <1>1
<1>2. CASE FuncMenu \/ FuncShow
  BY <1>1, <1>2 DEF FuncMenu, FuncShow
<1>3. CASE FuncPlain
  <2>1. pager' = pager \/ \E on \in BOOLEAN : pager' = [pager EXCEPT !.disp = on]
    BY <1>3 DEF FuncPlain
  <2> QED BY <2>1
<1>4. CASE FuncEdit
  <2>1. \/ pager' = pager
        \/ pager' = [pager EXCEPT !.more = FALSE, !.disp = FALSE, !.lines = 0]
        \/ pager' = [pager EXCEPT !.more = Top.on, !.disp = Top.also, !.lines = 1]
    BY <1>4 DEF FuncEdit
  <2> QED BY <2>1
<1> QED BY <1>2, <1>3, <1>4 DEF Function

LEMMA EnginePager ==
  ASSUME Engine
  PROVE  PagerStill
<1> USE DEF PagerStill, PagerShape
<1>1. CASE EngineLoad
  <2>1. pager' = pager \/ pager' = [pager EXCEPT !.lines = 0, !.disp = FALSE]
    BY <1>1 DEF EngineLoad
  <2> QED BY <2>1
<1>2. CASE EnginePicked
  <2>1. pager' = [pager EXCEPT !.disp = TRUE, !.lines = 1]
    BY <1>2 DEF EnginePicked
  <2> QED BY <2>1
<1>3. CASE EngineStart \/ EngineItems \/ EngineRan \/ EngineChoose \/ EngineAsk
           \/ EngineKey \/ EngineArrow \/ EngineDone \/ Fallback
  <2>1. pager' = pager
    BY <1>3 DEF EngineStart, EngineItems, EngineRan, EngineChoose, EngineAsk,
                EngineKey, EngineArrow, EngineDone, Fallback
  <2> QED BY <2>1
<1> QED BY <1>1, <1>2, <1>3 DEF Engine

---------------------------------------------------------------------------
(* All the steps. *)

\* Neither a menu nor a script nor a function is at work.
Outer == Top.op \notin {"engine", "script", "func"}

\* Where the steps come from: whose step it is says what changes besides the stack.
LEMMA StepMove ==
  ASSUME StackInv, [Next]_vars
  PROVE  /\ StackMove
         /\ \/ stack' = stack /\ UNCHANGED <<board, pager>> /\ (Outer \/ ret' = ret)
            \/ Outer /\ Top.op # "hot" /\ UNCHANGED board /\ PagerStill /\ (Plain(Startchat) => QuietMove)
            \/ /\ Top.op \in {"show", "hot"} /\ Show /\ Taken /\ UNCHANGED <<qa, level, seen>>
               /\ QuietInv => QuietMove
            \/ Top.op = "script" /\ Script /\ UNCHANGED menu
            \/ Top.op = "func" /\ Function /\ UNCHANGED <<qa, level>>
            \/ Top.op = "engine" /\ Engine /\ UNCHANGED <<qa, level>>
            \/ Top.op = "session" /\ Board /\ UNCHANGED <<qa, level, seen, pager>> /\ QuietMove
            \/ Top.op = "command" /\ CommandShown /\ UNCHANGED <<menu, qa>> /\ PagerStill /\ QuietMove
<1> USE DEF Outer
<1>1. ASSUME stack' = stack PROVE StackMove
  BY <1>1 DEF StackMove
<1>2. CASE UNCHANGED vars
  BY <1>1, <1>2 DEF vars, board
<1>3. CASE MenuStep
  <2>1. CASE TerminalStep /\ Taken /\ UNCHANGED <<qa, level, seen>>
    <3>1. CASE Show
      BY <2>1, <3>1, ShowMove
    <3>2. CASE ~Show
      <4>1. \/ KeyRefused \/ KeyPushed \/ KeyLocal \/ KeyNotLocal
            \/ KeyRead \/ KeyWaits \/ KeyExpires \/ KeyLost
            \/ Peek \/ Mate \/ Drain \/ Arrow \/ YesNo \/ Line \/ Press \/ Enter \/ Ask
            \/ Request \/ Door \/ DoorEnds \/ Answered \/ Unwind
        BY <2>1, <3>2 DEF TerminalStep
      <4>2. QuietMove /\ Top.op \in Simple \cup {"session", "yesno"}
        <5>1. CASE KeyRefused \/ KeyPushed \/ KeyLocal \/ KeyNotLocal
                   \/ KeyRead \/ KeyWaits \/ KeyExpires \/ KeyLost
          BY <5>1, KeyMove DEF Simple
        <5>2. CASE Peek \/ Mate \/ Drain \/ Arrow \/ YesNo \/ Line \/ Press \/ Enter \/ Ask
          BY <5>2, InputMove
        <5>3. CASE Request \/ Door \/ DoorEnds \/ Answered \/ Unwind
          BY <5>3, SessionMove
        <5> QED BY <4>1, <5>1, <5>2, <5>3
      <4>3. Top.op \notin {"engine", "script", "func", "show", "hot"}
        BY <4>2 DEF Simple
      <4>4. UNCHANGED board
        BY <2>1, <4>3 DEF Taken, At, board
      <4>5. PagerStill /\ StackMove
        BY <2>1, <3>2, <4>2, TerminalPager, QuietIsMove
      <4> QED BY <4>2, <4>3, <4>4, <4>5
    <3> QED BY <3>1, <3>2
  <2>2. CASE Script /\ UNCHANGED menu
    BY <2>2, ScriptMove
  <2>3. CASE Engine /\ UNCHANGED <<qa, level>>
    <3>1. Top.op = "engine" /\ StackMove
      BY <2>3, EngineMove DEF StackMove, RunsItem
    <3> QED BY <2>3, <3>1
  <2>4. CASE Function /\ UNCHANGED <<qa, level>>
    BY <2>4, FunctionMove
  <2>5. CASE Board /\ UNCHANGED <<qa, level, seen, pager>>
    <3>1. QuietMove /\ Top.op = "session"
      BY <2>5, SessionMove
    <3> QED BY <2>5, <3>1, QuietIsMove
  <2> QED BY <1>3, <2>1, <2>2, <2>3, <2>4, <2>5 DEF MenuStep
<1>4. CASE SysopCommand /\ UNCHANGED <<menu, qa>> /\ (CommandShown \/ UNCHANGED <<level, seen>>)
  <2>1. QuietMove /\ StackMove /\ Top.op = "command" /\ PagerStill
    BY <1>4, CommandMove, QuietIsMove, SysopPager
  <2>2. CASE CommandShown
    BY <1>4, <2>1, <2>2
  <2>3. CASE ~CommandShown
    BY <1>4, <2>1, <2>3 DEF board
  <2> QED BY <2>2, <2>3
<1>5. CASE Chat /\ UNCHANGED <<menu, qa, level, seen>>
  BY <1>5, ChatMove, SysopPager DEF board
<1>6. CASE (WindowOpens \/ WindowCloses) /\ UNCHANGED <<board, pager>>
  <2>1. QuietMove /\ Top.op = "window"
    BY <1>6, WindowMove
  <2>2. PagerStill
    BY <1>6 DEF PagerStill, PagerShape
  <2> QED BY <1>6, <2>1, <2>2, QuietIsMove
<1>7. CASE Waits
  <2>1. QuietMove /\ Top.op = "getkey" /\ PagerStill
    BY <1>7, KeyMove, KeyPager DEF Waits
  <2> QED BY <1>7, <2>1, QuietIsMove DEF Waits
<1>8. CASE Pump \/ Caller \/ SysopPresses \/ Time \/ Stays
  <2>1. stack' = stack /\ UNCHANGED <<board, pager, ret>>
    BY <1>8 DEF Pump, Caller, SysopPresses, Time, Stays, Outside, Tick, vars
  <2> QED BY <1>1, <2>1
<1>9. CASE Work
  <2>1. CASE MenuStep
    BY <1>3, <2>1
  <2>2. CASE SysopCommand /\ UNCHANGED <<menu, qa>>
    <3>1. CommandShown \/ UNCHANGED <<level, seen>>
      BY <2>2, <1>9 DEF SysopCommand
    <3> QED BY <1>4, <2>2, <3>1
  <2>3. CASE Chat /\ UNCHANGED <<menu, qa, level, seen>>
    BY <1>5, <2>3
  <2>4. CASE WindowOpens /\ UNCHANGED <<board, pager>>
    BY <1>6, <2>4
  <2> QED BY <1>9, <2>1, <2>2, <2>3, <2>4 DEF Work, board
<1>10. CASE Answer
  BY <1>10, <1>6 DEF Answer, board
<1> QED BY <1>2, <1>7, <1>8, <1>9, <1>10 DEF Next

LEMMA StackStarts == Init => StackInv
<1> SUFFICES ASSUME Init PROVE StackInv
  OBVIOUS
<1> DEFINE f == [Frame("session", "-") EXCEPT !.at = "idle"]
<1>1. stack = <<f>>
  BY DEF Init, TerminalInit
<1>2. DOMAIN f = Fields /\ f.op = "session"
  BY DEF Frame, Fields
<1> HIDE DEF f
<1>3. stack \in Seq({f}) /\ stack # <<>> /\ Len(stack) = 1 /\ DOMAIN stack = {1} /\ stack[1] = f
  BY <1>1
<1>4. IsSeq(stack)
  BY <1>3, ElementsLemma
<1> QED BY <1>2, <1>3, <1>4 DEF StackInv

\* The stack of calls is well formed: the session at its bottom, the menus next
\* to it, and every call under another one is where it made that call.
THEOREM StackFormed == Spec => []StackInv
<1>1. StackInv /\ [Next]_vars => StackInv'
  BY StepMove, StackKept
<1> QED BY StackStarts, <1>1, PTL DEF Spec

---------------------------------------------------------------------------
(* Menus run only what was open to the caller. *)

MenuShape == DOMAIN menu = DOMAIN NoEngine

\* Every key of the menu's table is of an item that was open since it was drawn.
HotOpen(name) ==
  \A k \in DOMAIN menu.hot :
    menu.hot[k] \in DOMAIN Items(name) /\ \E l \in seen : l \in Items(name)[menu.hot[k]].levels

EnginesOpen ==
  \A j \in DOMAIN stack :
    stack[j].op = "engine" /\ stack[j].at \in Drawn => Placed(stack[j]) /\ HotOpen(stack[j].c)

AccessInv == StackInv /\ MenuShape /\ level \in seen /\ EnginesOpen /\ AccessKept

\* A step of anything but the menus leaves their frame alone, and makes no
\* function begin that they called.
LEMMA EngineKept ==
  ASSUME StackInv, StackMove, Top.op # "engine" \/ stack' = stack
  PROVE  /\ \A j \in DOMAIN stack' : stack'[j].op = "engine" =>
              stack'[j].at = "start" \/ \E k \in DOMAIN stack : stack'[j] = stack[k]
         /\ stack' = stack \/ ~(At("func", "start")' /\ stack'[2].op = "engine")
<1> USE StackBasics
<1>0. IsSeq(stack) /\ stack # <<>>
  BY DEF StackInv
<1>1. CASE stack' = stack
  BY <1>1
<1>2. CASE Top.op # "engine" /\ \E g : Within(g)
  <2>1. PICK g : Within(g)
    BY <1>2
  <2>2. /\ IsSeq(stack') /\ stack' # <<>> /\ Len(stack') = Len(stack) /\ Head(stack') = g
        /\ stack'[1] = g /\ \A j \in 2..Len(stack) : stack'[j] = stack[j]
    <3>1. stack' = <<g>> \o Tail(stack)
      BY <2>1 DEF Within
    <3> QED BY ONLY <1>0, <3>1, WithinLemma
  <2>3. DOMAIN stack' = 1..Len(stack)
    BY <2>2 DEF IsSeq
  <2>4. g.op # "engine" /\ g.op # "func"
    BY <1>2, <2>1 DEF Within, Keeps
  <2>5. Top' = g
    BY <2>2 DEF Top
  <2> QED BY <2>2, <2>3, <2>4, <2>5 DEF At
<1>3. CASE Top.op # "engine" /\ \E f, g : Calling(f, g)
  <2>1. PICK f, g : Calling(f, g)
    BY <1>3
  <2> DEFINE n == Len(stack) + 1
  <2>2. /\ IsSeq(stack') /\ stack' # <<>> /\ Len(stack') = n
        /\ stack'[1] = f /\ stack'[2] = g /\ \A j \in 3..n : stack'[j] = stack[j - 1]
    <3>1. stack' = <<f, g>> \o Tail(stack)
      BY <2>1, Zenon DEF Calling
    <3> QED BY ONLY <1>0, <3>1, CallLemma
  <2>3. DOMAIN stack' = 1..n
    BY <2>2 DEF IsSeq
  <2>4. g.op # "engine" /\ f.at = "start"
    BY <1>3, <2>1, Zenon DEF Calling, Keeps
  <2>5. ASSUME NEW j \in 3..n PROVE j - 1 \in DOMAIN stack
    OBVIOUS
  <2> QED BY <2>2, <2>3, <2>4, <2>5
<1>4. CASE Returns
  <2>0. Len(stack) > 1 /\ stack' = Tail(stack) /\ 2 \in DOMAIN stack
    <3>1. stack' = Tail(stack) /\ Top.op # "session"
      BY <1>4, Zenon DEF Returns
    <3>2. Len(stack) \in Nat /\ Len(stack) # 0 /\ Len(stack) # 1 /\ DOMAIN stack = 1..Len(stack)
      BY ONLY <3>1, StackInv, StackBasics
    <3>3. Len(stack) > 1 /\ 2 \in 1..Len(stack)
      BY ONLY <3>2
    <3> QED BY ONLY <3>1, <3>2, <3>3
  <2>1. /\ IsSeq(stack') /\ Len(stack') = Len(stack) - 1 /\ stack' # <<>>
        /\ \A j \in 1..Len(stack) - 1 : stack'[j] = stack[j + 1]
        /\ Head(stack') = stack[2]
    BY ONLY <1>0, <2>0, ReturnLemma
  <2>2. DOMAIN stack' = 1..Len(stack) - 1
    BY <2>1 DEF IsSeq
  <2>3. ASSUME NEW j \in 1..Len(stack) - 1 PROVE j + 1 \in DOMAIN stack
    OBVIOUS
  <2>5. ~At("func", "start")'
    <3>1. stack[2].op = "func" => stack[2].at # "start"
      BY ONLY <2>0, StackInv DEF StackInv
    <3>2. Top' = stack[2]
      BY <2>1 DEF Top
    <3> QED BY ONLY <3>1, <3>2 DEF At
  <2> QED BY <2>1, <2>2, <2>3, <2>5, Zenon
<1> QED BY <1>1, <1>2, <1>3, <1>4 DEF StackMove

\* Such a step that leaves the table of keys alone.
LEMMA AccessQuiet ==
  ASSUME AccessInv, StackMove, Top.op # "engine" \/ stack' = stack,
         MenuShape', menu'.hot = menu.hot, menu'.ran = menu.ran,
         seen \subseteq seen', level' \in seen'
  PROVE  AccessInv'
<1>1. StackInv'
  BY StackKept DEF AccessInv
<1>3. EnginesOpen'
  <2> SUFFICES ASSUME NEW j \in DOMAIN stack', stack'[j].op = "engine", stack'[j].at \in Drawn
               PROVE  Placed(stack'[j]) /\ HotOpen(stack[j].c)'
    BY DEF EnginesOpen
  <2>1. stack'[j].at # "start"
    BY DEF Drawn
  <2>2. PICK k \in DOMAIN stack : stack'[j] = stack[k]
    BY <2>1, EngineKept DEF AccessInv
  <2>3. Placed(stack[k]) /\ HotOpen(stack[k].c)
    BY <2>2 DEF AccessInv, EnginesOpen
  <2> QED BY <2>2, <2>3 DEF HotOpen
<1>4. AccessKept'
  <2>1. CASE stack' = stack
    BY <2>1 DEF AccessInv, AccessKept, At, Top
  <2>2. CASE ~(At("func", "start")' /\ stack'[2].op = "engine")
    BY <2>2 DEF AccessKept
  <2> QED BY <2>1, <2>2, EngineKept DEF AccessInv
<1> QED BY <1>1, <1>3, <1>4 DEF AccessInv

\* The table has items only that are open now.
LEMMA HotTableLemma ==
  ASSUME NEW name \in DOMAIN Menus, NEW k \in DOMAIN HotTable(Items(name))
  PROVE  LET i == HotTable(Items(name))[k]
         IN i \in 2..Len(Items(name)) /\ Access(Items(name)[i]) /\ Items(name)[i].key = k
<1> DEFINE items == Items(name)
<1> DEFINE S == {i \in 2..Len(items) : Access(items[i]) /\ items[i].key \notin {"auto", "none"}}
<1> DEFINE T == {i \in S : items[i].key = k}
<1>1. Len(items) \in Nat
  BY ItemsLemma
<1> HIDE DEF items
<1>2. HotTable(items) = [c \in {items[i].key : i \in S} |-> First({i \in S : items[i].key = c})]
  BY DEF HotTable, ByKey
<1>3. k \in {items[i].key : i \in S}
  BY <1>2 DEF items
<1>4. HotTable(items)[k] = First(T)
  BY <1>2, <1>3
<1>5. T \in SUBSET Nat /\ T # {}
  BY <1>1, <1>3
<1>6. First(T) \in T
  BY <1>5, LeastNat
<1> QED BY <1>4, <1>6 DEF items

\* What the menus do to their frame.
LEMMA EngineFrame ==
  ASSUME StackInv, Top.op = "engine", NEW g, Within(g) \/ \E f : Calling(f, g)
  PROVE  \A j \in DOMAIN stack' : stack'[j].op = "engine" => stack'[j] = g
<1> USE StackBasics
<1>0. IsSeq(stack) /\ stack # <<>> /\ Len(stack) = 2 /\ stack[2].op = "session"
  BY DEF StackInv
<1>1. CASE Within(g)
  <2>1. /\ IsSeq(stack') /\ Len(stack') = Len(stack)
        /\ stack'[1] = g /\ \A j \in 2..Len(stack) : stack'[j] = stack[j]
    <3>1. stack' = <<g>> \o Tail(stack)
      BY <1>1 DEF Within
    <3> QED BY ONLY <1>0, <3>1, WithinLemma
  <2>2. DOMAIN stack' = 1..2
    BY <1>0, <2>1 DEF IsSeq
  <2> QED BY <1>0, <2>1, <2>2
<1>2. CASE \E f : Calling(f, g)
  <2>1. PICK f : Calling(f, g)
    BY <1>2
  <2>2. /\ IsSeq(stack') /\ Len(stack') = 3
        /\ stack'[1] = f /\ stack'[2] = g /\ \A j \in 3..3 : stack'[j] = stack[j - 1]
    <3>1. stack' = <<f, g>> \o Tail(stack)
      BY <2>1 DEF Calling
    <3> QED BY ONLY <1>0, <3>1, CallLemma
  <2>3. DOMAIN stack' = 1..3
    BY <2>2 DEF IsSeq
  <2>4. stack'[3].op = "session" /\ f.op # "engine"
    BY <1>0, <2>1, <2>2 DEF Calling
  <2> QED BY <2>2, <2>3, <2>4
<1> QED BY <1>1, <1>2

LEMMA EngineMenu ==
  ASSUME Engine, MenuShape
  PROVE  MenuShape' /\ (Top.at # "load" => menu'.hot = menu.hot /\ seen' = seen)
                    /\ (Top.at = "load" => seen' \in {seen, {level}})
<1> USE DEF MenuShape, NoEngine, At
<1>1. CASE EngineStart
  BY <1>1 DEF EngineStart
<1>2. CASE EngineLoad
  <2>1. \/ menu' = menu \/ menu' = [menu EXCEPT !.path = <<"top">>]
        \/ LET name == menu.path[Len(menu.path)]
               file == Global # <<>> \/ \E i \in DOMAIN Menus[name] : Menus[name][i].bar # NoBar
           IN menu' = [menu EXCEPT !.hot = HotTable(Items(name)), !.choice = "none", !.took = "none",
                                   !.lbarFile = file]
    BY <1>2 DEF EngineLoad
  <2>2. seen' \in {seen, {level}} /\ Top.at = "load"
    BY <1>2, Zenon DEF EngineLoad
  <2> QED BY <2>1, <2>2
<1>3. CASE EngineItems
  <2>1. \/ \E i : Exec(Items(Top.c), i, "ran")
        \/ \E b : menu' = [menu EXCEPT !.support = b]
    BY <1>3 DEF EngineItems
  <2>2. seen' = seen /\ Top.at = "items"
    BY <1>3 DEF EngineItems
  <2> QED BY <2>1, <2>2, Zenon DEF Exec
<1>4. CASE EngineRan
  BY <1>4 DEF EngineRan
<1>5. CASE EngineChoose
  BY <1>5 DEF EngineChoose
<1>6. CASE EngineAsk
  BY <1>6 DEF EngineAsk
<1>7. CASE EngineKey
  <2>1. \/ menu' = menu \/ menu' = [menu EXCEPT !.hang = TRUE]
        \/ menu' = [menu EXCEPT !.lbar = IF Item(Top.i).typ = "none" THEN 0 ELSE Top.i,
                                !.choice = IF Item(Top.i).key = "none" THEN "CR" ELSE Item(Top.i).key]
        \/ \E c : menu' = [menu EXCEPT !.choice = c]
    BY <1>7 DEF EngineKey, Choose
  <2>2. seen' = seen /\ Top.at = "key"
    BY <1>7 DEF EngineKey
  <2> QED BY <2>1, <2>2
<1>8. CASE EngineArrow
  <2>1. menu' = menu \/ \E c : menu' = [menu EXCEPT !.choice = c]
    BY <1>8 DEF EngineArrow, Choose
  <2>2. seen' = seen /\ Top.at = "arrow"
    BY <1>8, Zenon DEF EngineArrow
  <2> QED BY <2>1, <2>2
<1>9. CASE EnginePicked
  <2>1. \/ \E i : Exec(Items(Top.c), i, "done")
        \/ menu' = [menu EXCEPT !.lbar = 0]
    BY <1>9 DEF EnginePicked
  <2>2. seen' = seen /\ Top.at = "picked"
    BY <1>9 DEF EnginePicked
  <2> QED BY <2>1, <2>2, Zenon DEF Exec
<1>10. CASE EngineDone
  BY <1>10 DEF EngineDone
<1>11. CASE Fallback
  BY <1>11 DEF Fallback
<1> QED BY <1>1, <1>2, <1>3, <1>4, <1>5, <1>6, <1>7, <1>8, <1>9, <1>10, <1>11 DEF Engine

LEMMA EngineAccess ==
  ASSUME AccessInv, Engine, UNCHANGED level
  PROVE  AccessInv'
<1> USE StackBasics, EngineMenu DEF AccessInv
<1>1. StackInv' /\ Top.op = "engine" /\ MenuShape' /\ level' \in seen'
  <2>1. StackMove /\ Top.op = "engine"
    BY EngineMove DEF StackMove, RunsItem
  <2> QED BY <2>1, StackKept
<1>2. IsSeq(stack) /\ stack # <<>> /\ Len(stack) = 2 /\ stack[1] = Top /\ DOMAIN stack = 1..2
  BY <1>1 DEF StackInv
<1>3. CASE stack' = stack
  <2>1. EnginesOpen'
    <3>1. CASE Top.at = "load"
      BY <1>1, <1>2, <1>3, <3>1 DEF EnginesOpen, Drawn, StackInv
    <3>2. CASE Top.at # "load"
      BY <1>3, <3>2 DEF EnginesOpen, HotOpen
    <3> QED BY <3>1, <3>2
  <2>2. AccessKept'
    BY <1>1, <1>3 DEF AccessKept, At, Top
  <2> QED BY <1>1, <2>1, <2>2
<1>4. CASE Returns
  <2>1. /\ Len(stack') = 1 /\ IsSeq(stack') /\ \A j \in 1..1 : stack'[j] = stack[j + 1]
        /\ stack' # <<>> /\ Head(stack') = stack[2]
    <3>1. stack' = Tail(stack)
      BY <1>4 DEF Returns
    <3> QED BY ONLY <1>2, <3>1, ReturnLemma
  <2>2. DOMAIN stack' = 1..1
    BY <2>1 DEF IsSeq
  <2>3. stack[2].op = "session"
    BY <1>2 DEF StackInv
  <2>4. EnginesOpen'
    BY <2>1, <2>2, <2>3 DEF EnginesOpen
  <2>5. AccessKept'
    BY <2>1, <2>3 DEF AccessKept, At, Top
  <2> QED BY <1>1, <2>4, <2>5
<1>5. ASSUME NEW g, Within(g) \/ \E f : Calling(f, g), EngineNext(g)
      PROVE  EnginesOpen'
  <2>1. \A j \in DOMAIN stack' : stack'[j].op = "engine" => stack'[j] = g
    BY <1>1, <1>5, EngineFrame
  <2>2. CASE Top.at = "load"
    BY <1>5, <2>1, <2>2 DEF EnginesOpen, EngineNext, Drawn
  <2>3. CASE Top.at # "load"
    <3>1. Top.at \in Drawn => Placed(Top) /\ HotOpen(Top.c)
      BY <1>1, <1>2 DEF EnginesOpen
    <3>2. menu'.hot = menu.hot /\ seen' = seen
      BY <2>3
    <3> QED BY <1>5, <2>1, <3>1, <3>2 DEF EnginesOpen, EngineNext, HotOpen
  <2> QED BY <2>2, <2>3
<1>6. ASSUME NEW g, Within(g) PROVE AccessKept'
  <2>1. stack' = <<g>> \o Tail(stack) /\ g.op = "engine"
    BY <1>1, <1>6 DEF Within, Keeps
  <2>2. Head(stack') = g
    BY ONLY <1>2, <2>1, WithinLemma
  <2> QED BY <2>1, <2>2 DEF AccessKept, At, Top
<1>7. CASE \E g : Within(g) /\ EngineNext(g)
  BY <1>1, <1>5, <1>6, <1>7
<1>8. CASE \E g : Within(g) /\ Draws(g)
  <2>1. PICK g : Within(g) /\ Draws(g)
    BY <1>8
  <2> DEFINE name == menu.path[Len(menu.path)]
  <2>2. Readable(name) /\ g.c = name /\ g.i = 2 /\ seen' = {level} /\ menu'.hot = HotTable(Items(name))
    <3>1. PICK file : menu' = [menu EXCEPT !.hot = HotTable(Items(name)), !.choice = "none",
                                           !.took = "none", !.lbarFile = file]
      BY <2>1 DEF Draws
    <3>2. menu'.hot = HotTable(Items(name))
      BY <3>1 DEF MenuShape, NoEngine
    <3> QED BY <2>1, <3>2 DEF Draws
  <2>3. name \in DOMAIN Menus
    BY <2>2 DEF Readable
  <2> HIDE DEF name
  <2>4. ASSUME NEW k \in DOMAIN menu'.hot
        PROVE  menu'.hot[k] \in DOMAIN Items(name) /\ level \in Items(name)[menu'.hot[k]].levels
    BY <2>2, <2>3, <2>4, ItemsLemma, HotTableLemma DEF Access
  <2>5. \A j \in DOMAIN stack' : stack'[j].op = "engine" => stack'[j] = g
    BY <1>1, <2>1, EngineFrame
  <2>6. EnginesOpen'
    BY <2>2, <2>3, <2>4, <2>5 DEF EnginesOpen, HotOpen, Placed
  <2> QED BY <1>1, <1>6, <2>1, <2>6
<1>9. CASE \E f, g : Calling(f, g) /\ EngineNext(g) /\ f.op # "func"
  <2>1. PICK f, g : Calling(f, g) /\ EngineNext(g) /\ f.op # "func"
    BY <1>9
  <2>2. Head(stack') = f
    <3>1. stack' = <<f, g>> \o Tail(stack)
      BY <2>1 DEF Calling
    <3> QED BY ONLY <1>2, <3>1, CallLemma
  <2> QED BY <1>1, <1>5, <2>1, <2>2 DEF AccessKept, At, Top
<1>10. CASE \E i, f, g : MayRun(g, i) /\ Exec(Items(Top.c), i, g.at) /\ RunsItem(f, g, i)
  <2>1. PICK i, f, g : MayRun(g, i) /\ Exec(Items(Top.c), i, g.at) /\ RunsItem(f, g, i)
    BY <1>10
  <2>2. Calling(f, g) /\ EngineNext(g) /\ g.c = Top.c
    BY <2>1 DEF RunsItem
  <2>3. stack'[2] = g
    <3>1. stack' = <<f, g>> \o Tail(stack)
      BY <2>2 DEF Calling
    <3> QED BY ONLY <1>2, <3>1, CallLemma
  <2>4. menu'.ran = i
    BY <2>1 DEF Exec, MenuShape, NoEngine
  <2>5. Top.at \in {"items", "picked"} /\ seen' = seen
    BY <2>1 DEF MayRun
  <2>6. HotOpen(Top.c)
    BY <1>1, <1>2, <2>5 DEF EnginesOpen, Drawn
  <2>7. \E l \in seen : l \in Items(Top.c)[i].levels
    BY <2>1, <2>6 DEF MayRun, HotOpen, Access, Item
  <2>8. AccessKept'
    BY <2>2, <2>3, <2>4, <2>5, <2>7 DEF AccessKept
  <2> QED BY <1>1, <1>5, <2>2, <2>8
<1> QED BY <1>3, <1>4, <1>7, <1>8, <1>9, <1>10, EngineMove

LEMMA FunctionMenu ==
  ASSUME Function, MenuShape
  PROVE  /\ MenuShape' /\ menu'.hot = menu.hot /\ menu'.ran = menu.ran /\ menu'.took = menu.took
         /\ seen' = seen /\ push' = push /\ menu'.lbar = menu.lbar
         /\ \/ menu'.choice = menu.choice /\ ~(Top.c = "hot" /\ Top.at = "shown")
            \/ /\ Top.c = "hot" /\ Top.at = "shown"
               /\ menu'.choice = IF ret.c = "none" THEN menu.choice ELSE ret.c
<1> USE DEF MenuShape, NoEngine, At
<1>0. seen' = seen /\ push' = push
  BY DEF Function
<1>1. CASE FuncMenu
  <2> DEFINE up == IF Len(menu.path) > 1 THEN SubSeq(menu.path, 1, Len(menu.path) - 1) ELSE menu.path
  <2>1. menu' = menu \/ menu' = Onward(Top.c, Top.text[1]) \/ menu' = [menu EXCEPT !.jump = TRUE, !.path = up]
    BY <1>1 DEF FuncMenu
  <2>0. Top.c # "hot"
    BY <1>1 DEF FuncMenu
  <2> HIDE DEF up
  <2>2. CASE menu' = menu \/ menu' = [menu EXCEPT !.jump = TRUE, !.path = up]
    BY <1>0, <2>0, <2>2
  <2>3. CASE menu' = Onward(Top.c, Top.text[1])
    <3> DEFINE on == CASE Top.c = "top" -> <<Top.text[1]>>
                       [] Top.c = "gosub" /\ Len(menu.path) < MaxNest -> Append(menu.path, Top.text[1])
                       [] OTHER -> [menu.path EXCEPT ![Len(menu.path)] = Top.text[1]]
    <3>1. menu' = [menu EXCEPT !.jump = TRUE, !.path = on]
      BY <2>3 DEF Onward
    <3> HIDE DEF on
    <3> QED BY <1>0, <2>0, <3>1
  <2> QED BY <2>1, <2>2, <2>3
<1>2. CASE FuncShow
  <2> DEFINE c == IF ret.c = "none" THEN menu.choice ELSE ret.c
  <2>1. \/ menu' = menu /\ ~(Top.c = "hot" /\ Top.at = "shown")
        \/ menu' = [menu EXCEPT !.choice = c] /\ Top.c = "hot" /\ Top.at = "shown"
    BY <1>2 DEF FuncShow
  <2>2. CASE menu' = menu /\ ~(Top.c = "hot" /\ Top.at = "shown")
    BY <1>0, <2>2
  <2>3. CASE menu' = [menu EXCEPT !.choice = c] /\ Top.c = "hot" /\ Top.at = "shown"
    <3>1. menu'.choice = c
      BY <2>3
    <3> HIDE DEF c
    <3>2. /\ MenuShape' /\ menu'.hot = menu.hot /\ menu'.ran = menu.ran /\ menu'.took = menu.took
          /\ menu'.lbar = menu.lbar
      BY <2>3
    <3> QED BY <1>0, <2>3, <3>1, <3>2 DEF c
  <2> QED BY <2>1, <2>2, <2>3
<1>3. CASE FuncPlain
  <2>1. (menu' = menu \/ menu' = [menu EXCEPT !.hang = TRUE]) /\ Top.c # "hot"
    BY <1>3 DEF FuncPlain
  <2> QED BY <1>0, <2>1
<1>4. CASE FuncEdit
  <2>1. menu' = menu /\ Top.c # "hot"
    BY <1>4 DEF FuncEdit
  <2> QED BY <1>0, <2>1
<1> QED BY <1>1, <1>2, <1>3, <1>4 DEF Function

LEMMA AccessStep ==
  ASSUME AccessInv, [Next]_vars
  PROVE  AccessInv'
<1> USE DEF AccessInv
<1>0. StackMove
  BY StepMove
<1>1. CASE (Outer \/ stack' = stack) /\ UNCHANGED board
  BY <1>0, <1>1, AccessQuiet DEF Outer, board, MenuShape
<1>2. CASE Top.op \in {"show", "hot"} /\ Taken /\ UNCHANGED <<qa, level, seen>>
  <2>1. MenuShape' /\ menu'.hot = menu.hot /\ menu'.ran = menu.ran
    BY <1>2 DEF Taken, MenuShape, NoEngine
  <2> QED BY <1>0, <1>2, <2>1, AccessQuiet
<1>3. CASE Top.op = "script" /\ Script /\ UNCHANGED menu
  <2>1. UNCHANGED <<level, seen>> \/ seen' = seen \cup {level'}
    BY <1>3 DEF Script, ScriptStart, ScriptIncluded, ScriptEnds, ScriptFlow, ScriptIncludes,
                ScriptSets, ScriptCalls, ScriptCalled, ScriptGot
  <2> QED BY <1>0, <1>3, <2>1, AccessQuiet DEF MenuShape
<1>4. CASE Top.op = "func" /\ Function /\ UNCHANGED <<qa, level>>
  BY <1>0, <1>4, FunctionMenu, AccessQuiet
<1>5. CASE Top.op = "engine" /\ Engine /\ UNCHANGED <<qa, level>>
  BY <1>5, EngineAccess
<1>6. CASE Top.op = "session" /\ Board /\ UNCHANGED <<qa, level, seen>>
  <2>1. CASE \E m \in Missing : menu' = [menu EXCEPT !.missing = m]
    <3>1. MenuShape' /\ menu'.hot = menu.hot /\ menu'.ran = menu.ran
      BY <2>1 DEF MenuShape, NoEngine
    <3> QED BY <1>0, <1>6, <3>1, AccessQuiet
  <2>2. CASE menu' = NoEngine
    <3>1. StackInv' /\ MenuShape' /\ level' \in seen'
      BY <1>0, <1>6, <2>2, StackKept DEF MenuShape
    <3>2. DOMAIN menu'.hot = {}
      BY <2>2 DEF NoEngine
    <3>3. EnginesOpen'
      <4>1. \A j \in DOMAIN stack : stack[j].op = "session"
        BY <1>6, StackBasics DEF StackInv
      <4>2. \A j \in DOMAIN stack' : stack'[j].op = "engine" => stack'[j].at = "start"
        BY <1>0, <1>6, <4>1, EngineKept
      <4> QED BY <4>2 DEF EnginesOpen, Drawn
    <3>4. AccessKept'
      <4>1. CASE stack' = stack
        BY <1>6, <4>1 DEF AccessKept, At, Top
      <4>2. CASE ~(At("func", "start")' /\ stack'[2].op = "engine")
        BY <4>2 DEF AccessKept
      <4> QED BY <1>0, <1>6, <4>1, <4>2, EngineKept
    <3> QED BY <3>1, <3>3, <3>4
  <2> QED BY <1>6, <2>1, <2>2 DEF Board
<1>7. CASE Top.op = "command" /\ CommandShown /\ UNCHANGED <<menu, qa>>
  <2>1. seen' = seen \cup {level'}
    BY <1>7 DEF CommandShown
  <2> QED BY <1>0, <1>7, <2>1, AccessQuiet DEF MenuShape
<1> QED BY <1>1, <1>2, <1>3, <1>4, <1>5, <1>6, <1>7, StepMove

LEMMA AccessStarts == Init => AccessInv
<1> SUFFICES ASSUME Init PROVE AccessInv
  OBVIOUS
<1>1. StackInv
  BY StackStarts
<1>2. stack = <<[Frame("session", "-") EXCEPT !.at = "idle"]>> /\ menu = NoEngine
      /\ level = Level /\ seen = {Level}
  BY DEF Init, TerminalInit, MenuInit, QuestionnaireInit
<1>3. Top.op = "session" /\ \A j \in DOMAIN stack : stack[j].op = "session"
  BY <1>2 DEF Top, Frame
<1> QED BY <1>1, <1>2, <1>3 DEF AccessInv, MenuShape, EnginesOpen, AccessKept, At

\* Whatever moves the caller from menu to menu, and whoever changes his level
\* meanwhile, he runs only items that were open to him at some time since the
\* menu was drawn.
THEOREM AccessAlwaysKept == Spec => []AccessKept
<1>1. AccessInv => AccessKept
  BY DEF AccessInv
<1> QED BY AccessStarts, AccessStep, <1>1, PTL DEF Spec

---------------------------------------------------------------------------
(* The scripts that run. *)

VMFields == {"file", "pc", "ans", "done", "skipIf", "ignIf", "skipWhile", "ignWhile",
             "loops", "iters", "subs", "incs", "wild", "saved"}
Line0 == Nat \ {0}
VmOk(q) ==
  /\ DOMAIN q = VMFields /\ q.file \in DOMAIN Scripts /\ q.pc \in Line0
  /\ q.loops \in Seq(Line0) /\ q.subs \in Seq(Line0)
  /\ q.incs \in Seq([file : DOMAIN Scripts, pc : Line0])
VmsOk == IsSeq(qa) /\ \A i \in DOMAIN qa : VmOk(qa[i])

\* The calls of scripts that have begun, counted from the bottom of the stack:
\* each has its vm.
ScriptPlaces ==
  {k \in 1..Len(stack) : LET f == stack[Len(stack) + 1 - k] IN f.op = "script" /\ f.at # "start"}
QaInv == VmsOk /\ Cardinality(ScriptPlaces) = Len(qa)

LEMMA PlacesFinite ==
  ASSUME StackInv
  PROVE  IsFiniteSet(ScriptPlaces) /\ Cardinality(ScriptPlaces) \in Nat
<1>1. IsFiniteSet(1..Len(stack))
  BY StackBasics, FS_Interval
<1>2. ScriptPlaces \subseteq 1..Len(stack)
  BY DEF ScriptPlaces
<1>3. IsFiniteSet(ScriptPlaces)
  BY <1>1, <1>2, FS_Subset
<1> QED BY <1>3, FS_CardinalityType

\* A step that begins or ends no script, one that begins one, and a return.
LEMMA PlacesKept ==
  ASSUME StackInv, NEW g, Within(g) \/ \E f : Calling(f, g)
  PROVE  LET n == Len(stack) IN
         /\ (Top.op = "script" => (Top.at = "start" <=> g.at = "start")) => ScriptPlaces' = ScriptPlaces
         /\ Top.op = "script" /\ Top.at = "start" /\ g.at # "start" =>
              ScriptPlaces' = ScriptPlaces \cup {n} /\ n \notin ScriptPlaces
<1> USE StackBasics
<1> DEFINE n == Len(stack)
<1> DEFINE Begun(f) == f.op = "script" /\ f.at # "start"
<1>0. IsSeq(stack) /\ stack # <<>> /\ n \in Nat \ {0} /\ Top = stack[1]
  BY DEF StackInv
<1>1. /\ Len(stack') \in Nat /\ n <= Len(stack') /\ g.op = Top.op
      /\ \A k \in 1..n - 1 : stack'[Len(stack') + 1 - k] = stack[n + 1 - k]
      /\ stack'[Len(stack') + 1 - n] = g
      /\ \A k \in n + 1..Len(stack') : stack'[Len(stack') + 1 - k].at = "start"
  <2>1. CASE Within(g)
    <3>1. stack' = <<g>> \o Tail(stack) /\ g.op = Top.op
      BY <2>1 DEF Within, Keeps
    <3>2. Len(stack') = n /\ stack'[1] = g /\ \A j \in 2..Len(stack') : stack'[j] = stack[j]
      BY ONLY <1>0, <3>1, WithinLemma
    <3>3. \A k \in 1..n - 1 : n + 1 - k \in 2..n
      BY <1>0
    <3> HIDE DEF n
    <3> QED BY ONLY <1>0, <3>1, <3>2, <3>3
  <2>2. CASE \E f : Calling(f, g)
    <3>1. PICK f : Calling(f, g)
      BY <2>2
    <3>2. stack' = <<f, g>> \o Tail(stack) /\ g.op = Top.op /\ f.at = "start"
      BY <3>1 DEF Calling, Keeps
    <3>3. /\ Len(stack') = n + 1 /\ stack'[1] = f /\ stack'[2] = g
          /\ \A j \in 3..Len(stack') : stack'[j] = stack[j - 1]
      BY ONLY <1>0, <3>2, CallLemma
    <3> HIDE DEF n
    <3>4. Len(stack') \in Nat /\ n <= Len(stack')
      BY ONLY <1>0, <3>3
    <3>5. ASSUME NEW k \in 1..n - 1
          PROVE  stack'[Len(stack') + 1 - k] = stack[n + 1 - k]
      <4>1. /\ Len(stack') + 1 - k \in 3..Len(stack')
            /\ (Len(stack') + 1 - k) - 1 = n + 1 - k
        BY ONLY <1>0, <3>3
      <4> QED BY ONLY <3>3, <4>1
    <3>6. Len(stack') + 1 - n = 2
      BY ONLY <1>0, <3>3
    <3>7. ASSUME NEW k \in n + 1..Len(stack')
          PROVE  stack'[Len(stack') + 1 - k].at = "start"
      <4>1. Len(stack') + 1 - k = 1
        BY ONLY <1>0, <3>3
      <4> QED BY ONLY <3>2, <3>3, <4>1
    <3> QED BY ONLY <3>2, <3>3, <3>4, <3>5, <3>6, <3>7
  <2> QED BY <2>1, <2>2
<1>2. \A k \in 1..n - 1 : k \in ScriptPlaces' <=> k \in ScriptPlaces
  <2> SUFFICES ASSUME NEW k \in 1..n - 1 PROVE k \in ScriptPlaces' <=> k \in ScriptPlaces
    OBVIOUS
  <2>1. k \in 1..n /\ k \in 1..Len(stack')
    BY <1>0, <1>1
  <2>2. stack'[Len(stack') + 1 - k] = stack[n + 1 - k]
    BY <1>1
  <2> QED BY ONLY <2>1, <2>2 DEF ScriptPlaces
<1>3. n \in ScriptPlaces' <=> Begun(g)
  <2>1. n \in 1..Len(stack')
    BY <1>0, <1>1
  <2> QED BY <1>1, <2>1 DEF ScriptPlaces
<1>4. n \in ScriptPlaces <=> Begun(Top)
  <2>1. n \in 1..n /\ n + 1 - n = 1
    BY <1>0
  <2> QED BY ONLY <1>0, <2>1 DEF ScriptPlaces
<1>5. \A k \in n + 1..Len(stack') : k \notin ScriptPlaces'
  BY <1>0, <1>1 DEF ScriptPlaces
<1>6. ScriptPlaces \subseteq 1..n /\ ScriptPlaces' \subseteq 1..Len(stack')
  BY DEF ScriptPlaces
<1>7. /\ ScriptPlaces' \subseteq (1..n - 1) \cup {n}
      /\ ScriptPlaces \subseteq (1..n - 1) \cup {n}
  <2> HIDE DEF n
  <2>1. \A k \in 1..n : k \in 1..n - 1 \/ k = n
    BY ONLY <1>0
  <2>2. \A k \in 1..Len(stack') : k \in 1..n - 1 \/ k = n \/ k \in n + 1..Len(stack')
    BY ONLY <1>0, <1>1
  <2> QED BY ONLY <1>5, <1>6, <2>1, <2>2
<1> HIDE DEF n
<1>8. ASSUME Begun(Top) <=> Begun(g) PROVE ScriptPlaces' = ScriptPlaces
  <2>1. n \in ScriptPlaces' <=> n \in ScriptPlaces
    BY <1>3, <1>4, <1>8
  <2>2. \A k : k \in ScriptPlaces' <=> k \in ScriptPlaces
    <3> SUFFICES ASSUME NEW k PROVE k \in ScriptPlaces' <=> k \in ScriptPlaces
      OBVIOUS
    <3>1. k \in 1..n - 1 \/ k = n \/ (k \notin ScriptPlaces' /\ k \notin ScriptPlaces)
      BY ONLY <1>7, Zenon
    <3> QED BY ONLY <1>2, <2>1, <3>1, Zenon
  <2> QED BY ONLY <2>2, Zenon
<1>9. ASSUME Top.op = "script", Top.at = "start", g.at # "start"
      PROVE  ScriptPlaces' = ScriptPlaces \cup {n} /\ n \notin ScriptPlaces
  BY <1>1, <1>2, <1>3, <1>4, <1>7, <1>9
<1> QED BY <1>1, <1>8, <1>9 DEF n

LEMMA PlacesDrop ==
  ASSUME StackInv, Returns
  PROVE  LET n == Len(stack) IN
         /\ ScriptPlaces' = ScriptPlaces \ {n}
         /\ n \in ScriptPlaces <=> Top.op = "script" /\ Top.at # "start"
<1> USE StackBasics
<1> DEFINE n == Len(stack)
<1>0. IsSeq(stack) /\ stack # <<>> /\ n \in Nat \ {0} /\ Top = stack[1] /\ stack' = Tail(stack)
  BY DEF StackInv, Returns
<1>1. Len(stack') = n - 1 /\ \A j \in 1..n - 1 : stack'[j] = stack[j + 1]
  BY ONLY <1>0, ReturnLemma
<1>2. \A k \in 1..n - 1 : stack'[Len(stack') + 1 - k] = stack[n + 1 - k]
  <2> SUFFICES ASSUME NEW k \in 1..n - 1
               PROVE  stack'[Len(stack') + 1 - k] = stack[n + 1 - k]
    OBVIOUS
  <2> HIDE DEF n
  <2>1. Len(stack') + 1 - k = n - k /\ n - k \in 1..n - 1 /\ (n - k) + 1 = n + 1 - k
    BY ONLY <1>0, <1>1
  <2> QED BY ONLY <1>1, <2>1
<1>3. \A k \in 1..n - 1 : k \in ScriptPlaces' <=> k \in ScriptPlaces
  <2> SUFFICES ASSUME NEW k \in 1..n - 1 PROVE k \in ScriptPlaces' <=> k \in ScriptPlaces
    OBVIOUS
  <2>1. k \in 1..n /\ k \in 1..Len(stack')
    BY <1>0, <1>1
  <2>2. stack'[Len(stack') + 1 - k] = stack[n + 1 - k]
    BY <1>2
  <2> QED BY ONLY <2>1, <2>2 DEF ScriptPlaces
<1>4. n \in ScriptPlaces <=> Top.op = "script" /\ Top.at # "start"
  <2>1. n \in 1..n /\ n + 1 - n = 1
    BY <1>0
  <2> QED BY ONLY <1>0, <2>1 DEF ScriptPlaces
<1>5. ScriptPlaces \subseteq 1..n /\ ScriptPlaces' \subseteq 1..n - 1
  BY <1>1 DEF ScriptPlaces
<1> HIDE DEF n
<1>6. \A k \in 1..n : k \in 1..n - 1 \/ k = n
  BY ONLY <1>0
<1>7. n \notin 1..n - 1
  BY ONLY <1>0
<1>8. ScriptPlaces' = ScriptPlaces \ {n}
  <2> SUFFICES ASSUME NEW k PROVE k \in ScriptPlaces' <=> k \in ScriptPlaces /\ k # n
    OBVIOUS
  <2>1. k \in 1..n - 1 \/ k = n \/ (k \notin ScriptPlaces' /\ k \notin ScriptPlaces)
    <3>1. k \in 1..n \/ k \notin ScriptPlaces
      BY ONLY <1>5, Zenon
    <3>2. k \in 1..n - 1 \/ k \notin ScriptPlaces'
      BY ONLY <1>5, Zenon
    <3> QED BY ONLY <1>6, <3>1, <3>2, <1>7, Zenon
  <2>2. k = n => k \notin ScriptPlaces'
    BY ONLY <1>5, <1>7, Zenon
  <2>3. k \in 1..n - 1 => k # n
    BY ONLY <1>7, Zenon
  <2> QED BY ONLY <1>3, <2>1, <2>2, <2>3, Zenon
<1> QED BY <1>4, <1>8 DEF n

\* What is put before a sequence that may be empty.
LEMMA PushLemma ==
  ASSUME NEW s, IsSeq(s), NEW v
  PROVE  LET t == <<v>> \o s IN
         /\ IsSeq(t) /\ Len(t) = Len(s) + 1 /\ Len(s) \in Nat /\ t[1] = v
         /\ \A j \in 2..Len(t) : t[j] = s[j - 1] /\ j - 1 \in DOMAIN s
<1> DEFINE S == Elements(s) \cup {v}
<1> DEFINE t == <<v>> \o s
<1>1. s \in Seq(S) /\ <<v>> \in Seq(S) /\ Len(s) \in Nat
  <2>1. s \in Seq(Elements(s))
    BY DEF IsSeq
  <2> QED BY <2>1
<1> HIDE DEF S
<1>2. t \in Seq(S) /\ Len(t) = Len(s) + 1 /\ DOMAIN s = 1..Len(s)
  BY <1>1
<1>3. t[1] = v /\ \A j \in 2..Len(t) : t[j] = s[j - 1]
  <2>1. Len(<<v>>) = 1 /\ <<v>>[1] = v
    OBVIOUS
  <2> QED BY <1>1, <1>2, <2>1
<1>4. IsSeq(t)
  BY <1>2, ElementsLemma
<1>5. \A j \in 2..Len(t) : j - 1 \in 1..Len(s)
  BY <1>1, <1>2
<1> QED BY <1>1, <1>2, <1>3, <1>4, <1>5

LEMMA OntoOk ==
  ASSUME NEW q, VmOk(q)
  PROVE  VmOk(Onto(q))
BY DEF VmOk, Onto, VMFields, Line0

LEMMA PassOverOk ==
  ASSUME NEW q, VmOk(q), NEW name
  PROVE  VmOk(PassOver(q, name))
<1> USE DEF VmOk, VMFields
<1>1. \A x : VmOk([q EXCEPT !.ignIf = x]) /\ VmOk([q EXCEPT !.ignWhile = x])
  OBVIOUS
<1>2. \A x : VmOk([q EXCEPT !.skipIf = x]) /\ VmOk([q EXCEPT !.skipWhile = x])
  OBVIOUS
<1> HIDE DEF VmOk, VMFields
<1> QED BY <1>1, <1>2 DEF PassOver

\* A jump goes to a line of the script.
LEMMA JumpOk ==
  ASSUME NEW q, VmOk(q), NEW label
  PROVE  VmOk(Jump(q, label))
<1> DEFINE at == {i \in DOMAIN Lines(q) : Lines(q)[i] = <<"LABEL", label>>}
<1> DEFINE wild == \/ q.wild \/ Around(q.file, Final(at)) # {}
                   \/ \E i \in DOMAIN q.incs : Around(q.incs[i].file, q.incs[i].pc) # {}
<1>1. Jump(q, label) = IF at = {} THEN q
        ELSE [q EXCEPT !.pc = Final(at), !.loops = <<>>,
                       !.skipIf = FALSE, !.ignIf = 0, !.skipWhile = FALSE, !.ignWhile = 0, !.wild = wild]
  BY DEF Jump, Final
<1>2. at # {} => Final(at) \in Line0
  <2>1. Len(Lines(q)) \in Nat /\ DOMAIN Lines(q) = 1..Len(Lines(q))
    BY QuestionnaireAssumption DEF VmOk, Lines
  <2>2. at \in SUBSET Line0 /\ \A i \in at : i <= Len(Lines(q))
    BY <2>1 DEF Line0
  <2> HIDE DEF at
  <2>3. at \in SUBSET Nat
    BY <2>2 DEF Line0
  <2> QED BY <2>1, <2>2, <2>3, GreatestNat
<1>3. <<>> \in Seq(Line0)
  OBVIOUS
<1> HIDE DEF at, wild
<1> QED BY <1>1, <1>2, <1>3 DEF VmOk, VMFields

LEMMA LoopOk ==
  ASSUME NEW q, VmOk(q), NEW c
  PROVE  VmOk(While(q, c)) /\ VmOk(EndWhile(q))
<1>1. VmOk([q EXCEPT !.skipWhile = TRUE]) /\ VmOk([q EXCEPT !.wild = TRUE])
  BY DEF VmOk, VMFields
<1>2. <<q.pc>> \o q.loops \in Seq(Line0)
  BY DEF VmOk
<1>3. VmOk([q EXCEPT !.loops = <<q.pc>> \o @, !.iters = 0])
  <2> DEFINE l == <<q.pc>> \o q.loops
  <2> SUFFICES VmOk([q EXCEPT !.loops = l, !.iters = 0])
    OBVIOUS
  <2>1. l \in Seq(Line0)
    BY <1>2
  <2> HIDE DEF l
  <2> QED BY <2>1 DEF VmOk, VMFields
<1>4. VmOk(While(q, c))
  BY <1>1, <1>3 DEF While
<1>5. CASE q.loops = <<>>
  BY <1>4, <1>5 DEF EndWhile
<1>6. CASE q.loops # <<>>
  <2> DEFINE start == Head(q.loops)
  <2> DEFINE rest == Tail(q.loops)
  <2> DEFINE left == [q EXCEPT !.loops = rest]
  <2>1. start \in Line0 /\ rest \in Seq(Line0)
    BY <1>6 DEF VmOk
  <2>2. EndWhile(q) = left \/ EndWhile(q) = [left EXCEPT !.iters = @ + 1]
        \/ EndWhile(q) = [q EXCEPT !.pc = start, !.iters = @ + 1]
    BY <1>6 DEF EndWhile
  <2> HIDE DEF start, rest
  <2>3. VmOk(left)
    BY <2>1 DEF VmOk, VMFields
  <2>4. VmOk([left EXCEPT !.iters = @ + 1])
    BY <2>1 DEF VmOk, VMFields
  <2>5. VmOk([q EXCEPT !.pc = start, !.iters = @ + 1])
    BY <2>1 DEF VmOk, VMFields
  <2> QED BY <1>4, <2>2, <2>3, <2>4, <2>5
<1> QED BY <1>5, <1>6

LEMMA ControlOk ==
  ASSUME NEW q, VmOk(q), NEW c
  PROVE  VmOk(Control(q, c))
<1> DEFINE called == IF Len(q.subs) < MaxGoSub THEN [q EXCEPT !.subs = <<q.pc>> \o @] ELSE q
<1>1. /\ VmOk([q EXCEPT !.skipIf = ~Test(q, c)]) /\ VmOk([q EXCEPT !.skipIf = TRUE])
      /\ VmOk([q EXCEPT !.skipIf = FALSE]) /\ VmOk([q EXCEPT !.done = TRUE])
      /\ VmOk([q EXCEPT !.skipWhile = TRUE, !.wild = TRUE])
  BY DEF VmOk, VMFields
<1>2. VmOk([q EXCEPT !.ans[c[2]] = c[3]])
  BY DEF VmOk, VMFields
<1>3. VmOk(called)
  <2> DEFINE s == <<q.pc>> \o q.subs
  <2>1. s \in Seq(Line0)
    BY DEF VmOk
  <2>2. called = q \/ called = [q EXCEPT !.subs = s]
    OBVIOUS
  <2> HIDE DEF s, called
  <2> QED BY <2>1, <2>2 DEF VmOk, VMFields
<1> HIDE DEF called
<1>4. VmOk([Jump(called, c[2]) EXCEPT !.wild = TRUE])
  <2> DEFINE r == Jump(called, c[2])
  <2>1. VmOk(r)
    BY <1>3, JumpOk
  <2> HIDE DEF r
  <2>2. VmOk([r EXCEPT !.wild = TRUE])
    BY <2>1 DEF VmOk, VMFields
  <2> QED BY <2>2 DEF r
<1>5. q.subs # <<>> => VmOk([q EXCEPT !.pc = Head(q.subs), !.subs = Tail(@)])
  <2> DEFINE h == Head(q.subs)
  <2> DEFINE s == Tail(q.subs)
  <2> SUFFICES ASSUME q.subs # <<>> PROVE VmOk([q EXCEPT !.pc = h, !.subs = s])
    OBVIOUS
  <2>1. h \in Line0 /\ s \in Seq(Line0)
    BY DEF VmOk
  <2> HIDE DEF h, s
  <2> QED BY <2>1 DEF VmOk, VMFields
<1>6. VmOk(While(q, c)) /\ VmOk(EndWhile(q)) /\ VmOk(Jump(q, c[2]))
  BY LoopOk, JumpOk
<1>7. CASE c[1] = "IF"
  BY <1>1, <1>7 DEF Control
<1>8. CASE c[1] \in {"ELSE", "ENDIF", "BREAK", "QUIT"}
  BY <1>1, <1>8 DEF Control
<1>9. CASE c[1] \in {"WHILE", "ENDWHILE", "GOTO"}
  BY <1>6, <1>9 DEF Control
<1>10. CASE c[1] = "GOSUB"
  BY <1>4, <1>10 DEF Control, called
<1>11. CASE c[1] = "RETURN" /\ q.subs # <<>>
  BY <1>5, <1>11 DEF Control
<1>12. CASE c[1] = "ASSIGN"
  BY <1>2, <1>12 DEF Control
<1>13. CASE /\ c[1] \notin {"IF", "ELSE", "ENDIF", "BREAK", "QUIT", "WHILE", "ENDWHILE", "GOTO", "GOSUB", "ASSIGN"}
            /\ ~(c[1] = "RETURN" /\ q.subs # <<>>)
  BY <1>13 DEF Control
<1> QED BY <1>7, <1>8, <1>9, <1>10, <1>11, <1>12, <1>13

\* A script that has begun has its vm, the first one while it is on top.
LEMMA ScriptHasVm ==
  ASSUME StackInv, QaInv, Top.op = "script", Top.at # "start"
  PROVE  qa # <<>> /\ VmOk(Q) /\ Q = qa[1] /\ Len(qa) \in Nat \ {0} /\ DOMAIN qa = 1..Len(qa)
<1>1. IsFiniteSet(ScriptPlaces) /\ Cardinality(ScriptPlaces) \in Nat
  BY PlacesFinite
<1>2. Len(stack) \in ScriptPlaces
  <2>1. Len(stack) \in Nat \ {0} /\ Top = stack[1]
    BY StackBasics
  <2>2. Len(stack) + 1 - Len(stack) = 1 /\ Len(stack) \in 1..Len(stack)
    BY ONLY <2>1
  <2> QED BY <2>1, <2>2 DEF ScriptPlaces
<1>3. Cardinality(ScriptPlaces) # 0
  BY <1>1, <1>2, FS_EmptySet
<1>4. Len(qa) # 0 /\ qa \in Seq(Elements(qa))
  BY <1>3 DEF QaInv, VmsOk, IsSeq
<1>5. qa # <<>> /\ Q = qa[1] /\ Len(qa) \in Nat \ {0} /\ DOMAIN qa = 1..Len(qa)
  <2>1. qa # <<>>
    BY <1>4
  <2> QED BY <1>4, <2>1 DEF Q
<1> QED BY <1>5 DEF QaInv, VmsOk

LEMMA BecomesOk ==
  ASSUME VmsOk, qa # <<>>, NEW q, VmOk(q), Becomes(q)
  PROVE  VmsOk' /\ Len(qa') = Len(qa)
<1>1. IsSeq(qa) /\ qa' = <<q>> \o Tail(qa)
  BY DEF VmsOk, Becomes
<1>2. /\ IsSeq(qa') /\ Len(qa') = Len(qa) /\ qa'[1] = q
      /\ \A j \in 2..Len(qa') : qa'[j] = qa[j]
  BY ONLY <1>1, qa # <<>>, WithinLemma
<1>3. DOMAIN qa = 1..Len(qa) /\ DOMAIN qa' = 1..Len(qa') /\ Len(qa) \in Nat
  BY <1>1, <1>2 DEF IsSeq
<1>4. ASSUME NEW i \in DOMAIN qa' PROVE VmOk(qa'[i])
  <2>1. CASE i = 1
    BY <1>2, <2>1
  <2>2. CASE i # 1
    <3>1. i \in 2..Len(qa') /\ i \in DOMAIN qa
      BY <1>2, <1>3, <2>2
    <3> QED BY <1>2, <3>1 DEF VmsOk
  <2> QED BY <2>1, <2>2
<1>5. VmsOk'
  <2>1. \A i \in DOMAIN qa' : VmOk(qa'[i])
    BY <1>4
  <2> QED BY <1>2, <2>1 DEF VmsOk, VmOk
<1> QED BY <1>2, <1>5

\* A step that begins or ends no script.
LEMMA PlacesSame ==
  ASSUME StackInv, StackMove, Top.op # "script"
  PROVE  ScriptPlaces' = ScriptPlaces
<1>1. CASE stack' = stack
  BY <1>1 DEF ScriptPlaces
<1>2. CASE \E g : Within(g) \/ \E f : Calling(f, g)
  BY <1>2, PlacesKept
<1>3. CASE Returns
  <2>1. ScriptPlaces' = ScriptPlaces \ {Len(stack)} /\ Len(stack) \notin ScriptPlaces
    BY <1>3, PlacesDrop
  <2> QED BY ONLY <2>1
<1> QED BY <1>1, <1>2, <1>3 DEF StackMove

LEMMA ScriptKeeps ==
  ASSUME StackInv, QaInv, Script
  PROVE  QaInv'
<1> USE DEF At
<1>0. VmsOk /\ Cardinality(ScriptPlaces) = Len(qa)
  BY DEF QaInv
<1>1. Top.op = "script"
  BY ScriptMove
<1>2. ASSUME VmsOk', Len(qa') = Len(qa), ScriptPlaces' = ScriptPlaces PROVE QaInv'
  BY <1>0, <1>2 DEF QaInv
<1>3. ASSUME qa' = qa PROVE VmsOk' /\ Len(qa') = Len(qa)
  BY <1>0, <1>3 DEF VmsOk, IsSeq, Elements, VmOk
<1>4. ASSUME NEW a, Goto(a), Top.at # "start", a # "start" PROVE ScriptPlaces' = ScriptPlaces
  <2>1. PICK g : Within(g) /\ g.at = a
    BY <1>1, <1>4, GotoMove
  <2> QED BY <1>4, <2>1, PlacesKept
<1>5. ASSUME stack' = stack PROVE ScriptPlaces' = ScriptPlaces
  BY <1>5 DEF ScriptPlaces
<1>6. ASSUME NEW f, NEW a, Call(f, a), DOMAIN f = Fields, f.at = "start", f.i = 1,
             f.op \notin {"session", "engine", "hot"}, Top.at # "start", a # "start"
      PROVE  ScriptPlaces' = ScriptPlaces
  <2>1. PICK g : Calling(f, g) /\ g.at = a
    BY <1>1, <1>6, ScriptCallMove
  <2> QED BY <1>6, <2>1, PlacesKept
<1>7. ASSUME Top.at # "start", NEW q, VmOk(q), Becomes(q) PROVE VmsOk' /\ Len(qa') = Len(qa)
  BY <1>0, <1>1, <1>7, ScriptHasVm, BecomesOk
<1>8. ASSUME Top.at # "start" PROVE VmOk(Q) /\ VmOk(Onto(Q))
  BY <1>1, <1>8, ScriptHasVm, OntoOk
<1>9. ASSUME Top.at # "start", NEW v, Put(v) PROVE VmsOk' /\ Len(qa') = Len(qa)
  <2> DEFINE q == [Q EXCEPT !.ans[Cmd[2]] = v]
  <2>1. VmOk(q)
    BY <1>8, <1>9 DEF VmOk, VMFields
  <2> HIDE DEF q
  <2>2. VmOk(Onto(q))
    BY <2>1, OntoOk
  <2> QED BY <1>7, <1>9, <2>2 DEF Put, q
<1>10. CASE ScriptStart
  <2>1. CASE Top.c \in DOMAIN Scripts
    <3> DEFINE v == NewVM(Top.c)
    <3>1. qa' = <<v>> \o qa /\ Goto("run") /\ Top.at = "start"
      BY <1>10, <2>1 DEF ScriptStart
    <3>2. VmOk(v)
      <4>1. /\ DOMAIN v = VMFields /\ v.file = Top.c /\ v.pc = 1
            /\ v.loops = <<>> /\ v.subs = <<>> /\ v.incs = <<>>
        BY DEF NewVM, VMFields
      <4> HIDE DEF v
      <4>2. 1 \in Line0 /\ <<>> \in Seq(Line0) /\ <<>> \in Seq([file : DOMAIN Scripts, pc : Line0])
        BY DEF Line0
      <4> QED BY <2>1, <4>1, <4>2 DEF VmOk
    <3> HIDE DEF v
    <3>3. IsSeq(qa)
      BY <1>0 DEF VmsOk
    <3>4. /\ IsSeq(qa') /\ Len(qa') = Len(qa) + 1 /\ Len(qa) \in Nat /\ qa'[1] = v
          /\ \A j \in 2..Len(qa') : qa'[j] = qa[j - 1] /\ j - 1 \in DOMAIN qa
      BY ONLY <3>1, <3>3, PushLemma
    <3>5. \A i \in DOMAIN qa' : VmOk(qa'[i])
      <4> SUFFICES ASSUME NEW i \in DOMAIN qa' PROVE VmOk(qa'[i])
        OBVIOUS
      <4>1. i = 1 \/ i \in 2..Len(qa')
        BY <3>4 DEF IsSeq
      <4>2. CASE i = 1
        BY <3>2, <3>4, <4>2
      <4>3. CASE i \in 2..Len(qa')
        BY <1>0, <3>4, <4>3 DEF VmsOk
      <4> QED BY <4>1, <4>2, <4>3
    <3>6. VmsOk'
      BY <3>4, <3>5 DEF VmsOk, VmOk
    <3>7. ScriptPlaces' = ScriptPlaces \cup {Len(stack)} /\ Len(stack) \notin ScriptPlaces
      <4>1. PICK g : Within(g) /\ g.at = "run"
        BY <1>1, <3>1, GotoMove
      <4> QED BY <1>1, <3>1, <4>1, PlacesKept
    <3>8. Cardinality(ScriptPlaces') = Cardinality(ScriptPlaces) + 1
      <4>1. IsFiniteSet(ScriptPlaces)
        BY PlacesFinite
      <4> QED BY <3>7, <4>1, FS_AddElement
    <3> QED BY <1>0, <3>4, <3>6, <3>8 DEF QaInv
  <2>2. CASE Top.c \notin DOMAIN Scripts
    <3>1. stack' = Tail(stack) /\ qa' = qa /\ Top.at = "start"
      BY <1>10, <2>2 DEF ScriptStart
    <3>2. ScriptPlaces' = ScriptPlaces \ {Len(stack)} /\ Len(stack) \notin ScriptPlaces
      BY <1>1, <3>1, PlacesDrop DEF Returns
    <3>3. ScriptPlaces' = ScriptPlaces
      BY ONLY <3>2
    <3> QED BY <1>2, <1>3, <3>1, <3>3
  <2> QED BY <2>1, <2>2
<1>11. CASE ScriptIncluded
  <2>0. Top.at # "start" /\ Q.incs # <<>> /\ stack' = stack
    BY <1>11 DEF ScriptIncluded
  <2> DEFINE h == Head(Q.incs)
  <2> DEFINE s == Tail(Q.incs)
  <2> DEFINE q == [Q EXCEPT !.file = h.file, !.pc = h.pc + 1, !.incs = s]
  <2>1. Becomes(q)
    BY <1>11 DEF ScriptIncluded
  <2>2. h \in [file : DOMAIN Scripts, pc : Line0] /\ s \in Seq([file : DOMAIN Scripts, pc : Line0])
    <3> DEFINE R == [file : DOMAIN Scripts, pc : Line0]
    <3>1. Q.incs \in Seq(R)
      BY <1>8, <2>0 DEF VmOk
    <3> HIDE DEF R
    <3>2. h \in R /\ s \in Seq(R)
      BY <2>0, <3>1
    <3> QED BY <3>2 DEF R
  <2> HIDE DEF h, s
  <2>3. VmOk(q)
    BY <1>8, <2>0, <2>2 DEF VmOk, VMFields, Line0
  <2> HIDE DEF q
  <2> QED BY <1>2, <1>5, <1>7, <2>0, <2>1, <2>3
<1>12. CASE ScriptEnds
  <2>1. Top.at = "run" /\ stack' = Tail(stack) /\ qa' = Tail(qa)
    BY <1>12 DEF ScriptEnds, Return
  <2>2. qa # <<>> /\ IsSeq(qa)
    BY <1>0, <1>1, <2>1, ScriptHasVm DEF VmsOk
  <2>3. /\ IsSeq(qa') /\ Len(qa') = Len(qa) - 1 /\ Len(qa) \in Nat \ {0}
        /\ \A j \in 1..Len(qa) - 1 : qa'[j] = qa[j + 1]
    BY ONLY <2>1, <2>2, ReturnLemma
  <2>4. \A i \in DOMAIN qa' : VmOk(qa'[i])
    <3> SUFFICES ASSUME NEW i \in DOMAIN qa' PROVE VmOk(qa'[i])
      OBVIOUS
    <3>1. i \in 1..Len(qa) - 1
      BY <2>3 DEF IsSeq
    <3>2. i + 1 \in DOMAIN qa
      BY <2>2, <2>3, <3>1 DEF IsSeq
    <3> QED BY <1>0, <2>3, <3>1, <3>2 DEF VmsOk
  <2>5. VmsOk'
    BY <2>3, <2>4 DEF VmsOk, VmOk
  <2>6. ScriptPlaces' = ScriptPlaces \ {Len(stack)} /\ Len(stack) \in ScriptPlaces
    BY <1>1, <2>1, PlacesDrop DEF Returns
  <2>7. Cardinality(ScriptPlaces') = Cardinality(ScriptPlaces) - 1
    <3>1. IsFiniteSet(ScriptPlaces)
      BY PlacesFinite
    <3> QED BY <2>6, <3>1, FS_RemoveElement
  <2> QED BY <1>0, <2>3, <2>5, <2>7 DEF QaInv
<1>13. CASE ScriptFlow
  <2> DEFINE q == IF Skipping(Q) THEN PassOver(Q, Cmd[1]) ELSE Control(Q, Cmd)
  <2>1. Top.at # "start" /\ stack' = stack /\ Becomes(Onto(q))
    BY <1>13 DEF ScriptFlow, Running
  <2>2. VmOk(q)
    BY <1>8, <2>1, PassOverOk, ControlOk
  <2> HIDE DEF q
  <2>3. VmOk(Onto(q))
    BY <2>2, OntoOk
  <2> QED BY <1>2, <1>5, <1>7, <2>1, <2>3
<1>14. CASE ScriptIncludes
  <2>1. Top.at # "start" /\ stack' = stack
    BY <1>14 DEF ScriptIncludes, Running
  <2>2. CASE Cmd[2] \in DOMAIN Scripts
    <3> DEFINE s == <<[file |-> Q.file, pc |-> Q.pc]>> \o Q.incs
    <3> DEFINE q == [Q EXCEPT !.file = Cmd[2], !.pc = 1, !.incs = s]
    <3>1. Becomes(q)
      BY <1>14, <2>2 DEF ScriptIncludes
    <3>2. s \in Seq([file : DOMAIN Scripts, pc : Line0])
      <4> DEFINE R == [file : DOMAIN Scripts, pc : Line0]
      <4> DEFINE e == [file |-> Q.file, pc |-> Q.pc]
      <4>1. Q.incs \in Seq(R) /\ e \in R
        BY <1>8, <2>1 DEF VmOk
      <4> HIDE DEF R, e
      <4>2. <<e>> \o Q.incs \in Seq(R)
        BY <4>1
      <4> QED BY <4>2 DEF R, e
    <3> HIDE DEF s
    <3>3. VmOk(q)
      BY <1>8, <2>1, <2>2, <3>2 DEF VmOk, VMFields, Line0
    <3> HIDE DEF q
    <3> QED BY <1>2, <1>5, <1>7, <2>1, <3>1, <3>3
  <2>3. CASE Cmd[2] \notin DOMAIN Scripts
    <3>1. Becomes(Onto(Q))
      BY <1>14, <2>3 DEF ScriptIncludes
    <3> QED BY <1>2, <1>5, <1>7, <1>8, <2>1, <3>1
  <2> QED BY <2>2, <2>3
<1>15. CASE ScriptSets
  <2>1. Top.at # "start" /\ stack' = stack /\ Becomes(Onto(Q))
    BY <1>15 DEF ScriptSets, Running
  <2> QED BY <1>2, <1>5, <1>7, <1>8, <2>1
<1>16. CASE ScriptCalls
  <2> DEFINE f == Calls
  <2>1. /\ Top.at # "start" /\ Call(f, "called") /\ qa' = qa
    BY <1>16 DEF ScriptCalls, Running
  <2>2. DOMAIN f = Fields /\ f.at = "start" /\ f.i = 1 /\ f.op \notin {"session", "engine", "hot"}
    BY <1>16, CallsLemma DEF ScriptCalls
  <2> HIDE DEF f
  <2> QED BY <1>2, <1>3, <1>6, <2>1, <2>2
<1>17. CASE ScriptCalled
  <2>0. Top.at # "start"
    BY <1>17 DEF ScriptCalled
  <2>1. \/ Goto("run") /\ (Becomes(Onto(Q)) \/ \E v : Put(v))
        \/ qa' = qa /\ \/ Call(Frame("line", "-"), "asked") \/ Call(Frame("getkey", "-"), "called")
                       \/ Call(Frame("arrow", "-"), "arrow")
    BY <1>17 DEF ScriptCalled, GetKey
  <2>2. CASE Goto("run") /\ (Becomes(Onto(Q)) \/ \E v : Put(v))
    <3>1. VmsOk' /\ Len(qa') = Len(qa)
      BY <1>7, <1>8, <1>9, <2>0, <2>2
    <3> QED BY <1>2, <1>4, <2>0, <2>2, <3>1
  <2>3. ASSUME qa' = qa, NEW op \in {"line", "getkey", "arrow"}, NEW a \in {"asked", "called", "arrow"},
               Call(Frame(op, "-"), a)
        PROVE  QaInv'
    <3> DEFINE f == Frame(op, "-")
    <3>1. /\ DOMAIN f = Fields /\ f.at = "start" /\ f.i = 1 /\ f.op \notin {"session", "engine", "hot"}
          /\ Call(f, a)
      BY <2>3, FrameLemma
    <3> HIDE DEF f
    <3> QED BY <1>2, <1>3, <1>6, <2>0, <2>3, <3>1
  <2> QED BY <2>1, <2>2, <2>3
<1>18. CASE ScriptGot
  <2>1. Top.at # "start" /\ Goto("run") /\ \E v : Put(v)
    <3>1. CASE At("script", "arrow") /\ Put(IF ret.c \in DOMAIN Arrows THEN Arrows[ret.c] ELSE "")
      BY <1>18, <3>1 DEF ScriptGot
    <3>2. CASE At("script", "asked") /\ \E v \in {"", "text"} : Put(v)
      BY <1>18, <3>2 DEF ScriptGot
    <3> QED BY <1>18, <3>1, <3>2 DEF ScriptGot
  <2>2. VmsOk' /\ Len(qa') = Len(qa)
    BY <1>9, <2>1
  <2> QED BY <1>2, <1>4, <2>1, <2>2
<1> QED BY <1>10, <1>11, <1>12, <1>13, <1>14, <1>15, <1>16, <1>17, <1>18 DEF Script

LEMMA ScriptsKept ==
  ASSUME StackInv, QaInv, [Next]_vars
  PROVE  QaInv'
<1>1. ASSUME qa' = qa, ScriptPlaces' = ScriptPlaces PROVE QaInv'
  BY <1>1 DEF QaInv, VmsOk, IsSeq, Elements, VmOk
<1>2. CASE stack' = stack /\ UNCHANGED qa
  <2>1. ScriptPlaces' = ScriptPlaces
    BY <1>2 DEF ScriptPlaces
  <2> QED BY <1>1, <1>2, <2>1
<1>3. CASE Top.op # "script" /\ UNCHANGED qa
  <2>1. StackMove
    BY StepMove
  <2>2. ScriptPlaces' = ScriptPlaces
    BY <1>3, <2>1, PlacesSame
  <2> QED BY <1>1, <1>3, <2>2
<1>4. CASE Script
  BY <1>4, ScriptKeeps
<1> QED BY <1>2, <1>3, <1>4, StepMove DEF board, Outer

---------------------------------------------------------------------------
(* A light bar's item is carried out at once. *)

LbarInv == menu.lbar = 0 \/ (At("engine", "picked") /\ menu.lbar \in DOMAIN Items(Top.c))

LEMMA EngineLbar ==
  ASSUME AccessInv, LbarInv, Engine
  PROVE  LbarInv'
<1> USE DEF At
<1>1. MenuShape /\ StackInv
  BY DEF AccessInv
<1> USE DEF MenuShape, NoEngine
<1>2. ASSUME Top.at # "picked" PROVE menu.lbar = 0
  BY <1>2 DEF LbarInv
<1>3. ASSUME menu'.lbar = 0 PROVE LbarInv'
  BY <1>3 DEF LbarInv
<1>4. CASE EngineStart
  <2>1. menu' = [menu EXCEPT !.path = <<"top">>, !.drop = TRUE] /\ Top.at = "start"
    BY <1>4 DEF EngineStart
  <2>2. menu'.lbar = 0
    BY <1>1, <1>2, <2>1
  <2> QED BY <1>3, <2>2
<1>5. CASE EngineLoad
  <2> DEFINE name == menu.path[Len(menu.path)]
  <2> DEFINE hot == HotTable(Items(name))
  <2> DEFINE file == Global # <<>> \/ \E i \in DOMAIN Menus[name] : Menus[name][i].bar # NoBar
  <2>1. \/ menu' = menu \/ menu' = [menu EXCEPT !.path = <<"top">>]
        \/ menu' = [menu EXCEPT !.hot = hot, !.choice = "none", !.took = "none", !.lbarFile = file]
    BY <1>5 DEF EngineLoad
  <2>2. Top.at = "load"
    BY <1>5 DEF EngineLoad
  <2> HIDE DEF hot, file
  <2>3. menu'.lbar = 0
    BY <1>1, <1>2, <2>1, <2>2
  <2> QED BY <1>3, <2>3
<1>6. CASE EngineItems
  <2>1. \/ \E i : Exec(Items(Top.c), i, "ran")
        \/ \E b : menu' = [menu EXCEPT !.support = b]
    BY <1>6 DEF EngineItems
  <2>2. Top.at = "items"
    BY <1>6 DEF EngineItems
  <2>3. menu'.lbar = 0
    BY <1>1, <1>2, <2>1, <2>2, Zenon DEF Exec
  <2> QED BY <1>3, <2>3
<1>7. CASE EngineRan \/ EngineAsk \/ EngineDone
  <2>1. menu' = menu /\ Top.at \in {"ran", "ask", "done"}
    BY <1>7 DEF EngineRan, EngineAsk, EngineDone
  <2> QED BY <1>2, <1>3, <2>1
<1>8. CASE EngineChoose
  <2>1. menu' = [menu EXCEPT !.drop = FALSE] /\ Top.at = "choose"
    BY <1>8 DEF EngineChoose
  <2>2. menu'.lbar = 0
    BY <1>1, <1>2, <2>1
  <2> QED BY <1>3, <2>2
<1>9. CASE EngineKey
  <2>0. Top.at = "key" /\ menu.lbar = 0
    BY <1>2, <1>9 DEF EngineKey
  <2> DEFINE bar == IF Item(Top.i).typ = "none" THEN 0 ELSE Top.i
  <2> DEFINE key == IF Item(Top.i).key = "none" THEN "CR" ELSE Item(Top.i).key
  <2>1. \/ menu' = menu \/ menu' = [menu EXCEPT !.hang = TRUE] \/ \E c : menu' = [menu EXCEPT !.choice = c]
        \/ /\ Top.i <= Len(Items(Top.c)) /\ Goto("picked")
           /\ menu' = [menu EXCEPT !.lbar = bar, !.choice = key]
    BY <1>9 DEF EngineKey, Choose
  <2>a. bar \in {0, Top.i}
    OBVIOUS
  <2> HIDE DEF bar, key
  <2>2. CASE menu' = menu \/ menu' = [menu EXCEPT !.hang = TRUE] \/ \E c : menu' = [menu EXCEPT !.choice = c]
    <3>1. menu'.lbar = 0
      BY <1>1, <2>0, <2>2
    <3> QED BY <1>3, <3>1
  <2>3. CASE /\ Top.i <= Len(Items(Top.c)) /\ Goto("picked")
             /\ menu' = [menu EXCEPT !.lbar = bar, !.choice = key]
    <3>1. menu'.lbar \in {0, Top.i} /\ Top.i <= Len(Items(Top.c)) /\ Goto("picked")
      BY <1>1, <2>3, <2>a
    <3>2. Top.op = "engine" /\ Top = stack[1] /\ 1 \in DOMAIN stack
      BY <1>1, <1>9, StackBasics DEF EngineKey
    <3>3. Placed(Top)
      BY <2>0, <3>2 DEF AccessInv, EnginesOpen, Drawn
    <3>4. Top.i \in DOMAIN Items(Top.c)
      <4>1. Len(Items(Top.c)) \in Nat /\ DOMAIN Items(Top.c) = 1..Len(Items(Top.c)) /\ Top.i \in Nat \ {0}
        BY <3>3, ItemsLemma DEF Placed
      <4> QED BY ONLY <3>1, <4>1
    <3> DEFINE g == [Top EXCEPT !.at = "picked"]
    <3>5. g.op = "engine" /\ g.at = "picked" /\ g.c = Top.c
      BY <1>1, <3>2, TopLemma, AtLemma
    <3>6. stack' = <<g>> \o Tail(stack)
      BY <3>1 DEF Goto
    <3> HIDE DEF g
    <3>7. Top' = g
      <4>1. IsSeq(stack) /\ stack # <<>>
        BY <1>1 DEF StackInv
      <4>2. Head(stack') = g
        BY ONLY <3>6, <4>1, WithinLemma
      <4> QED BY <4>2 DEF Top
    <3>8. At("engine", "picked")' /\ (Top.c)' = Top.c
      BY <3>5, <3>7
    <3> QED BY <1>3, <3>1, <3>4, <3>5, <3>7 DEF LbarInv
  <2> QED BY <2>1, <2>2, <2>3
<1>10. CASE EngineArrow
  <2>1. menu' = menu \/ \E c : menu' = [menu EXCEPT !.choice = c]
    BY <1>10 DEF EngineArrow, Choose
  <2>2. Top.at = "arrow"
    BY <1>10 DEF EngineArrow
  <2>3. menu'.lbar = 0
    BY <1>1, <1>2, <2>1, <2>2
  <2> QED BY <1>3, <2>3
<1>11. CASE EnginePicked
  <2>1. (\E i : Exec(Items(Top.c), i, "done")) \/ menu' = [menu EXCEPT !.lbar = 0]
    BY <1>11, Zenon DEF EnginePicked
  <2>2. menu'.lbar = 0
    BY <1>1, <2>1, Zenon DEF Exec
  <2> QED BY <1>3, <2>2
<1>12. CASE Fallback
  <2>1. menu' = menu \/ menu' = [menu EXCEPT !.hang = TRUE]
    BY <1>12 DEF Fallback
  <2>2. Top.at \in {"fallback", "fallen"}
    BY <1>12 DEF Fallback
  <2>3. menu'.lbar = 0
    BY <1>1, <1>2, <2>1, <2>2
  <2> QED BY <1>3, <2>3
<1> QED BY <1>4, <1>5, <1>6, <1>7, <1>8, <1>9, <1>10, <1>11, <1>12 DEF Engine

LEMMA LbarKept ==
  ASSUME AccessInv, LbarInv, [Next]_vars
  PROVE  LbarInv'
<1>1. StackInv /\ MenuShape
  BY DEF AccessInv
<1>2. CASE stack' = stack /\ UNCHANGED board
  BY <1>2 DEF LbarInv, At, Top, board
<1>3. ASSUME Top.op # "engine", menu'.lbar \in {0, menu.lbar} PROVE LbarInv'
  BY <1>3 DEF LbarInv, At
<1>4. CASE (Outer /\ UNCHANGED board) \/ (Top.op \in {"script", "command"} /\ UNCHANGED menu)
  BY <1>3, <1>4 DEF board, Outer
<1>5. CASE Top.op \in {"show", "hot"} /\ Taken
  <2>1. menu'.lbar = menu.lbar
    BY <1>1, <1>5 DEF Taken, MenuShape, NoEngine
  <2> QED BY <1>3, <1>5, <2>1
<1>6. CASE Top.op = "func" /\ Function
  BY <1>1, <1>3, <1>6, FunctionMenu
<1>7. CASE Engine
  BY <1>7, EngineLbar
<1>8. CASE Top.op = "session" /\ Board
  <2>1. (\E m \in Missing : menu' = [menu EXCEPT !.missing = m]) \/ menu' = NoEngine
    BY <1>8 DEF Board
  <2>2. menu'.lbar \in {0, menu.lbar}
    BY <1>1, <2>1 DEF MenuShape, NoEngine
  <2> QED BY <1>3, <1>8, <2>2
<1> QED BY <1>1, <1>2, <1>4, <1>5, <1>6, <1>7, <1>8, StepMove

---------------------------------------------------------------------------
(* Nothing deep is called from a hot text, a chat, or the choice of a menu. *)

LEMMA EngineQuiet ==
  ASSUME HotTextsPlain, AccessInv, LbarInv, Engine
  PROVE  QuietMove
<1>1. StackInv /\ Top.op = "engine"
  BY EngineMove DEF AccessInv
<1>2. ASSUME NEW i, NEW g, MayRun(g, i) PROVE i \in DOMAIN Items(Top.c) /\ Top.c \in DOMAIN Menus
  <2>1. Top.at \in Drawn
    BY <1>2 DEF MayRun, Drawn
  <2>2. Placed(Top) /\ HotOpen(Top.c)
    BY <1>1, <2>1, StackBasics DEF AccessInv, EnginesOpen
  <2>3. Top.c \in DOMAIN Menus /\ Top.i \in Nat \ {0}
    BY <2>2 DEF Placed
  <2>4. Len(Items(Top.c)) \in Nat /\ DOMAIN Items(Top.c) = 1..Len(Items(Top.c))
    BY <2>3, ItemsLemma
  <2>5. CASE i \in Top.i..Len(Items(Top.c))
    BY ONLY <2>3, <2>4, <2>5
  <2>6. CASE i = menu.lbar /\ menu.lbar # 0
    BY <2>3, <2>6 DEF LbarInv
  <2>7. CASE \E k \in DOMAIN menu.hot : menu.hot[k] = i
    BY <2>2, <2>3, <2>7 DEF HotOpen
  <2> QED BY <1>2, <2>5, <2>6, <2>7 DEF MayRun
<1>3. ASSUME NEW i, NEW g, MayRun(g, i), Item(i).typ = "hot" PROVE Plain(Library[Item(i).data[1]])
  BY <1>2, <1>3 DEF HotTextsPlain, Item
<1> QED BY <1>1, <1>3, EngineMove DEF QuietMove, RunsItem

LEMMA ScriptQuiet ==
  ASSUME HotTextsPlain, StackInv, QaInv, Script
  PROVE  QuietMove
<1>1. ASSUME At("script", "run"), Running, Cmd[1] = "MENUCMND", Cmd[2] = "hot"
      PROVE  Plain(Library[Cmd[3][1]])
  <2>1. VmOk(Q)
    BY <1>1, ScriptHasVm DEF At
  <2>2. Q.file \in DOMAIN Scripts /\ Q.pc \in Line0
    BY <2>1 DEF VmOk
  <2>3. Q.pc \in DOMAIN Scripts[Q.file]
    <3>1. ~(Q.pc > Len(Scripts[Q.file]))
      BY <1>1 DEF Running, Finished, Lines
    <3>2. Len(Scripts[Q.file]) \in Nat /\ DOMAIN Scripts[Q.file] = 1..Len(Scripts[Q.file])
      BY <2>2, QuestionnaireAssumption
    <3> QED BY ONLY <2>2, <3>1, <3>2 DEF Line0
  <2> QED BY <1>1, <2>2, <2>3 DEF HotTextsPlain, Cmd, Lines
<1>2. CmdPlain
  BY <1>1 DEF CmdPlain
<1> QED BY <1>2, ScriptMove

LEMMA StepQuiet ==
  ASSUME HotTextsPlain, AccessInv, LbarInv, QaInv, QuietInv, [Next]_vars
  PROVE  QuietMove
<1>1. StackInv
  BY DEF AccessInv
<1>2. Plain(Startchat)
  BY DEF HotTextsPlain
<1>3. CASE stack' = stack
  BY <1>3 DEF QuietMove
<1>4. CASE Script
  BY <1>1, <1>4, ScriptQuiet
<1>5. CASE Engine
  BY <1>5, EngineQuiet
<1>6. CASE Function
  BY <1>1, <1>6, FunctionMove
<1> QED BY <1>1, <1>2, <1>3, <1>4, <1>5, <1>6, StepMove

---------------------------------------------------------------------------
(* A hot key that was taken is what the menu carries out. *)

\* From the taking of the key to the return of the function that showed the
\* text, the key is in "abort", then it is what is returned, then the choice.
HotEngine(at) ==
  /\ at \in {"choose", "ask", "key", "arrow"} => menu.took = "none"
  /\ at \in {"items", "picked"} => menu.took = "none" \/ menu.choice = menu.took
  /\ at = "ran" => \/ menu.took = "none" \/ menu.choice = menu.took \/ pager.abort = menu.took
                   \/ At("func", "shown") /\ ret.c = menu.took
HotInv ==
  /\ PagerShape
  /\ (\E j \in DOMAIN stack : stack[j].op = "hot") \/ (pager.keys = {} /\ pager.abort = "none")
  /\ pager.abort \in {"none", menu.took}
  /\ \A j \in DOMAIN stack : stack[j].op = "hot" /\ stack[j].at = "start" => pager.abort = "none"
  /\ At("func", "shown") => ret.c \in {"none", menu.took}
  /\ \A j \in DOMAIN stack : stack[j].op = "engine" => HotEngine(stack[j].at)

\* Where a frame comes from.
LEMMA FrameFrom ==
  ASSUME StackInv, StackMove, NEW j \in DOMAIN stack'
  PROVE  \/ \E k \in DOMAIN stack : stack'[j] = stack[k] /\ (k # 1 \/ stack' = stack)
         \/ Keeps(stack'[j])
         \/ j = 1 /\ stack'[1].at = "start" /\ \E g : Calling(stack'[1], g)
<1> USE StackBasics
<1>0. IsSeq(stack) /\ stack # <<>>
  BY DEF StackInv
<1>1. CASE stack' = stack
  BY <1>1
<1>2. CASE \E g : Within(g)
  <2>1. PICK g : Within(g)
    BY <1>2
  <2>2. /\ IsSeq(stack') /\ Len(stack') = Len(stack)
        /\ stack'[1] = g /\ \A i \in 2..Len(stack') : stack'[i] = stack[i]
    <3>1. stack' = <<g>> \o Tail(stack)
      BY <2>1 DEF Within
    <3> QED BY ONLY <1>0, <3>1, WithinLemma
  <2>3. j \in 1..Len(stack)
    BY <2>2 DEF IsSeq
  <2>4. CASE j = 1
    BY <2>1, <2>2, <2>4 DEF Within
  <2>5. CASE j # 1
    BY <2>2, <2>3, <2>5
  <2> QED BY <2>4, <2>5
<1>3. CASE \E f, g : Calling(f, g)
  <2>1. PICK f, g : Calling(f, g)
    BY <1>3
  <2>2. /\ IsSeq(stack') /\ Len(stack') = Len(stack) + 1
        /\ stack'[1] = f /\ stack'[2] = g /\ \A i \in 3..Len(stack') : stack'[i] = stack[i - 1]
    <3>1. stack' = <<f, g>> \o Tail(stack)
      BY <2>1 DEF Calling
    <3> QED BY ONLY <1>0, <3>1, CallLemma
  <2>3. j \in 1..Len(stack) + 1 /\ Keeps(g) /\ f.at = "start"
    BY <2>1, <2>2 DEF IsSeq, Calling
  <2>4. CASE j = 1
    BY <2>1, <2>2, <2>3, <2>4
  <2>5. CASE j = 2
    BY <2>2, <2>3, <2>5
  <2>6. CASE j \in 3..Len(stack')
    <3>1. stack'[j] = stack[j - 1] /\ j - 1 \in DOMAIN stack /\ j - 1 # 1
      BY <2>2, <2>6
    <3> QED BY <3>1
  <2> QED BY <2>2, <2>3, <2>4, <2>5, <2>6
<1>4. CASE Returns
  <2>1. /\ IsSeq(stack') /\ Len(stack') = Len(stack) - 1
        /\ \A i \in 1..Len(stack) - 1 : stack'[i] = stack[i + 1]
    <3>1. stack' = Tail(stack)
      BY <1>4 DEF Returns
    <3> QED BY ONLY <1>0, <3>1, ReturnLemma
  <2>2. j \in 1..Len(stack) - 1
    BY <2>1 DEF IsSeq
  <2>3. j + 1 \in DOMAIN stack /\ j + 1 # 1
    BY <2>2
  <2> QED BY <2>1, <2>2, <2>3
<1> QED BY <1>1, <1>2, <1>3, <1>4 DEF StackMove

\* A hot text stays until it returns.
LEMMA HotStays ==
  ASSUME StackInv, StackMove, Returns => Top.op # "hot",
         NEW k \in DOMAIN stack, stack[k].op = "hot"
  PROVE  \E j \in DOMAIN stack' : stack'[j].op = "hot"
<1> USE StackBasics
<1>0. IsSeq(stack) /\ stack # <<>>
  BY DEF StackInv
<1>1. CASE stack' = stack
  BY <1>1
<1>2. CASE \E g : Within(g)
  <2>1. PICK g : Within(g)
    BY <1>2
  <2>2. /\ IsSeq(stack') /\ Len(stack') = Len(stack)
        /\ stack'[1] = g /\ \A i \in 2..Len(stack') : stack'[i] = stack[i]
    <3>1. stack' = <<g>> \o Tail(stack)
      BY <2>1 DEF Within
    <3> QED BY ONLY <1>0, <3>1, WithinLemma
  <2>3. DOMAIN stack' = 1..Len(stack)
    BY <2>2 DEF IsSeq
  <2>4. stack'[k].op = "hot"
    <3>1. CASE k = 1
      BY <2>1, <2>2, <3>1 DEF Within, Keeps
    <3>2. CASE k # 1
      BY <2>2, <3>2
    <3> QED BY <3>1, <3>2
  <2> QED BY <2>3, <2>4
<1>3. CASE \E f, g : Calling(f, g)
  <2>1. PICK f, g : Calling(f, g)
    BY <1>3
  <2>2. /\ IsSeq(stack') /\ Len(stack') = Len(stack) + 1
        /\ stack'[1] = f /\ stack'[2] = g /\ \A i \in 3..Len(stack') : stack'[i] = stack[i - 1]
    <3>1. stack' = <<f, g>> \o Tail(stack)
      BY <2>1 DEF Calling
    <3> QED BY ONLY <1>0, <3>1, CallLemma
  <2>3. DOMAIN stack' = 1..Len(stack) + 1 /\ k + 1 \in 1..Len(stack) + 1
    BY <2>2 DEF IsSeq
  <2>4. stack'[k + 1].op = "hot"
    <3>1. CASE k = 1
      BY <2>1, <2>2, <3>1 DEF Calling, Keeps
    <3>2. CASE k # 1
      <4>1. k + 1 \in 3..Len(stack') /\ (k + 1) - 1 = k
        BY <2>2, <3>2
      <4> QED BY <2>2, <4>1
    <3> QED BY <3>1, <3>2
  <2> QED BY <2>3, <2>4
<1>4. CASE Returns
  <2>1. /\ IsSeq(stack') /\ Len(stack') = Len(stack) - 1
        /\ \A i \in 1..Len(stack) - 1 : stack'[i] = stack[i + 1]
    <3>1. stack' = Tail(stack)
      BY <1>4 DEF Returns
    <3> QED BY ONLY <1>0, <3>1, ReturnLemma
  <2>2. k # 1
    BY <1>4
  <2>3. k - 1 \in 1..Len(stack) - 1 /\ (k - 1) + 1 = k
    BY <2>2
  <2>4. DOMAIN stack' = 1..Len(stack) - 1
    BY <2>1 DEF IsSeq
  <2> QED BY <2>1, <2>3, <2>4
<1> QED BY <1>1, <1>2, <1>3, <1>4 DEF StackMove

\* Only a hot text returns to the function that waits for its key.
LEMMA ShownAgain ==
  ASSUME StackInv, StackMove, At("func", "shown")'
  PROVE  stack' = stack \/ (Returns /\ Top.op = "hot")
<1> USE StackBasics
<1>0. IsSeq(stack) /\ stack # <<>>
  BY DEF StackInv
<1>1. CASE \E g : Within(g)
  <2>1. PICK g : Within(g)
    BY <1>1
  <2>2. Head(stack') = g
    <3>1. stack' = <<g>> \o Tail(stack)
      BY <2>1 DEF Within
    <3> QED BY ONLY <1>0, <3>1, WithinLemma
  <2>3. g.op # "func"
    BY <2>1 DEF Within, Keeps
  <2> QED BY <2>2, <2>3 DEF At, Top
<1>2. CASE \E f, g : Calling(f, g)
  <2>1. PICK f, g : Calling(f, g)
    BY <1>2
  <2>2. Head(stack') = f
    <3>1. stack' = <<f, g>> \o Tail(stack)
      BY <2>1 DEF Calling
    <3> QED BY ONLY <1>0, <3>1, CallLemma
  <2>3. f.at = "start"
    BY <2>1 DEF Calling
  <2> QED BY <2>2, <2>3 DEF At, Top
<1>3. CASE Returns
  <2>1. stack' = Tail(stack) /\ Len(stack) > 1
    <3>1. Len(stack) \in Nat \ {0} /\ Len(stack) # 1
      BY ONLY <1>3, StackInv, StackBasics DEF Returns
    <3>2. Len(stack) > 1
      BY ONLY <3>1
    <3> QED BY <1>3, <3>2 DEF Returns
  <2>2. Head(stack') = stack[2]
    BY ONLY <1>0, <2>1, ReturnLemma
  <2>3. stack[2].op = "func" /\ stack[2].at = "shown"
    BY <2>2 DEF At, Top
  <2>4. 1 \in 1..Len(stack) - 1 /\ 1 + 1 = 2
    BY <2>1
  <2>5. stack[1].op = "hot"
    BY ONLY StackInv, <2>3, <2>4 DEF StackInv
  <2> QED BY <1>3, <2>5
<1> QED BY <1>1, <1>2, <1>3 DEF StackMove

\* Under what is deep there is no hot text; under a hot text an item runs.
LEMMA NoOtherHot ==
  ASSUME StackInv, QuietInv, Deep(Top), NEW j \in DOMAIN stack, j # 1
  PROVE  stack[j].op # "hot"
<1>1. 1 \in 1..j - 1 /\ stack[1] = Top
  BY StackBasics
<1> QED BY <1>1 DEF QuietInv, Guard

LEMMA HotOverRan ==
  ASSUME StackInv, QuietInv, NEW j \in DOMAIN stack, NEW k \in DOMAIN stack,
         stack[j].op = "hot", stack[k].op = "engine"
  PROVE  stack[k].at \in {"ran", "done"}
<1>1. k = Len(stack) - 1 /\ j # Len(stack) /\ j # k
  BY DEF StackInv
<1>2. j \in 1..k - 1
  BY <1>1, StackBasics
<1> QED BY <1>2 DEF QuietInv, Guard, Deep

\* A step that has nothing to do with hot keys.
LEMMA HotStill ==
  ASSUME StackInv, QuietInv, HotInv, QuietMove, PagerStill,
         Top.op \notin {"engine", "hot"}, ~At("func", "shown"),
         menu'.took = menu.took, menu'.choice = menu.choice
  PROVE  HotInv'
<1>0. StackMove
  BY QuietIsMove
<1>1. PagerShape' /\ pager'.keys = pager.keys /\ pager'.abort = pager.abort
  BY DEF HotInv, PagerStill
<1>2. (\E j \in DOMAIN stack' : stack'[j].op = "hot") \/ (pager'.keys = {} /\ pager'.abort = "none")
  BY <1>0, <1>1, HotStays DEF HotInv
<1>3. pager'.abort \in {"none", menu'.took}
  BY <1>1 DEF HotInv
<1>4. ASSUME NEW j \in DOMAIN stack', stack'[j].op = "hot", stack'[j].at = "start"
      PROVE  pager'.abort = "none"
  <2>1. CASE \E k \in DOMAIN stack : stack'[j] = stack[k]
    BY <1>1, <1>4, <2>1 DEF HotInv
  <2>2. CASE Keeps(stack'[j])
    BY <1>4, <2>2 DEF Keeps
  <2>3. CASE j = 1 /\ \E g : Calling(stack'[1], g)
    <3>1. Top.op = "func"
      BY <1>4, <2>3 DEF Calling
    <3>2. Deep(Top)
      BY <3>1 DEF Deep
    <3>3. \A k \in DOMAIN stack : stack[k].op # "hot"
      BY <3>1, <3>2, NoOtherHot, StackBasics
    <3> QED BY <1>1, <3>3 DEF HotInv
  <2> QED BY <1>0, <2>1, <2>2, <2>3, FrameFrom
<1>5. ~At("func", "shown")'
  <2> SUFFICES ASSUME At("func", "shown")' PROVE FALSE
    OBVIOUS
  <2>1. stack' = stack
    BY <1>0, ShownAgain
  <2> QED BY <2>1 DEF At, Top
<1>6. ASSUME NEW j \in DOMAIN stack', stack'[j].op = "engine"
      PROVE  HotEngine(stack[j].at)'
  <2>1. CASE \E k \in DOMAIN stack : stack'[j] = stack[k]
    <3>1. PICK k \in DOMAIN stack : stack'[j] = stack[k]
      BY <2>1
    <3>2. HotEngine(stack[k].at)
      BY <1>6, <3>1 DEF HotInv
    <3> QED BY <1>1, <3>1, <3>2 DEF HotEngine
  <2>2. CASE Keeps(stack'[j])
    BY <1>6, <2>2 DEF Keeps
  <2>3. CASE j = 1 /\ stack'[1].at = "start"
    BY <2>3 DEF HotEngine
  <2> QED BY <1>0, <2>1, <2>2, <2>3, FrameFrom
<1> QED BY <1>1, <1>2, <1>3, <1>4, <1>5, <1>6 DEF HotInv

\* The menus themselves take no key: they only go on with the one that was taken.
Settled(at, m) ==
  /\ at \in {"choose", "ask", "key", "arrow"} => m.took = "none"
  /\ at \in {"items", "picked", "ran"} => m.took = "none" \/ m.choice = m.took
EnginesSettle ==
  \A j \in DOMAIN stack' : stack'[j].op = "engine" => Settled(stack'[j].at, menu')

LEMMA EngineWithin ==
  ASSUME StackInv, Top.op = "engine", NEW g, g.op = "engine", stack' = <<g>> \o Tail(stack),
         Settled(g.at, menu')
  PROVE  EnginesSettle
<1>0. IsSeq(stack) /\ stack # <<>> /\ Len(stack) = 2 /\ stack[2].op = "session"
  BY StackBasics DEF StackInv
<1>1. /\ IsSeq(stack') /\ Len(stack') = 2
      /\ stack'[1] = g /\ \A j \in 2..Len(stack') : stack'[j] = stack[j]
  BY ONLY <1>0, stack' = <<g>> \o Tail(stack), WithinLemma
<1>2. DOMAIN stack' = 1..2
  BY ONLY <1>1 DEF IsSeq
<1> QED BY <1>0, <1>1, <1>2 DEF EnginesSettle

LEMMA EngineCalls ==
  ASSUME StackInv, Top.op = "engine", NEW f, NEW a, NEW caller, CallFrom(f, a, caller),
         f.op # "engine", DOMAIN caller = Fields, Settled(a, menu')
  PROVE  EnginesSettle
<1> DEFINE g == [caller EXCEPT !.at = a]
<1>0. IsSeq(stack) /\ stack # <<>> /\ Len(stack) = 2 /\ stack[2].op = "session"
  BY StackBasics DEF StackInv
<1>1. stack' = <<f, g>> \o Tail(stack)
  BY DEF CallFrom
<1>2. g.at = a
  BY AtLemma
<1> HIDE DEF g
<1>3. /\ IsSeq(stack') /\ Len(stack') = Len(stack) + 1
      /\ stack'[1] = f /\ stack'[2] = g /\ \A j \in 3..Len(stack') : stack'[j] = stack[j - 1]
  <2>1. IsSeq(stack) /\ stack # <<>>
    BY <1>0
  <2> QED BY ONLY <2>1, <1>1, CallLemma
<1>4. DOMAIN stack' = 1..3 /\ stack'[3] = stack[2]
  <2>1. Len(stack') = 3
    BY ONLY <1>0, <1>3
  <2>2. 3 \in 3..Len(stack') /\ 3 - 1 = 2
    BY ONLY <2>1
  <2>3. stack'[3] = stack[2]
    BY <1>3, <2>2
  <2>4. DOMAIN stack' = 1..Len(stack')
    BY ONLY <1>3 DEF IsSeq
  <2> QED BY ONLY <2>1, <2>3, <2>4
<1> QED BY <1>0, <1>2, <1>3, <1>4 DEF EnginesSettle

LEMMA EngineSettles ==
  ASSUME StackInv, MenuShape, Engine, Settled(Top.at, menu)
  PROVE  EnginesSettle
<1> USE DEF At, MenuShape, NoEngine
<1>0. DOMAIN Top = Fields /\ Top.op = "engine"
  BY TopLemma, EngineMove
<1>1. ASSUME stack' = Tail(stack) PROVE EnginesSettle
  <2>1. IsSeq(stack) /\ stack # <<>> /\ Len(stack) = 2 /\ stack[2].op = "session"
    BY <1>0, StackBasics DEF StackInv
  <2>2. /\ IsSeq(stack') /\ Len(stack') = Len(stack) - 1
        /\ \A j \in 1..Len(stack) - 1 : stack'[j] = stack[j + 1]
    BY ONLY <1>1, <2>1, ReturnLemma
  <2>3. DOMAIN stack' = {1} /\ stack'[1] = stack[2]
    <3>1. Len(stack') = 1 /\ 1 \in 1..Len(stack) - 1 /\ 1 + 1 = 2
      BY ONLY <2>1, <2>2
    <3>2. stack'[1] = stack[2]
      BY <2>2, <3>1
    <3> QED BY ONLY <2>2, <3>1, <3>2 DEF IsSeq
  <2> QED BY <2>1, <2>3 DEF EnginesSettle
<1>2. ASSUME NEW a, Goto(a), Settled(a, menu') PROVE EnginesSettle
  <2> DEFINE g == [Top EXCEPT !.at = a]
  <2>1. g.op = "engine" /\ g.at = a
    BY <1>0, AtLemma
  <2>2. stack' = <<g>> \o Tail(stack)
    BY <1>2 DEF Goto
  <2> HIDE DEF g
  <2> QED BY <1>0, <1>2, <2>1, <2>2, EngineWithin
<1>3. ASSUME NEW f, NEW a, Call(f, a), f.op # "engine", Settled(a, menu') PROVE EnginesSettle
  <2>1. CallFrom(f, a, Top)
    BY <1>3 DEF Call, CallFrom
  <2> QED BY <1>0, <1>3, <2>1, EngineCalls
<1>4. ASSUME menu'.took = "none" PROVE \A a : Settled(a, menu')
  BY <1>4 DEF Settled
<1>5. \A a : a \notin {"choose", "ask", "key", "arrow", "items", "picked", "ran"} => Settled(a, menu')
  BY DEF Settled
<1>6. CASE EngineStart
  <2>1. Call(Frame("drain", "-"), "load") /\ Frame("drain", "-").op # "engine"
    BY <1>6, FrameLemma DEF EngineStart
  <2> QED BY <1>3, <1>5, <2>1
<1>7. CASE EngineLoad
  <2>1. Top.at = "load"
    BY <1>7 DEF EngineLoad
  <2> DEFINE name == menu.path[Len(menu.path)]
  <2> DEFINE hot == HotTable(Items(name))
  <2> DEFINE file == Global # <<>> \/ \E i \in DOMAIN Menus[name] : Menus[name][i].bar # NoBar
  <2> DEFINE g == [Top EXCEPT !.at = "items", !.c = name, !.i = 2]
  <2>2. \/ stack' = Tail(stack) \/ Goto("fallback") \/ stack' = stack
        \/ /\ stack' = <<g>> \o Tail(stack)
           /\ menu' = [menu EXCEPT !.hot = hot, !.choice = "none", !.took = "none", !.lbarFile = file]
    BY <1>7 DEF EngineLoad
  <2>3. g.op = "engine"
    BY <1>0 DEF Fields
  <2> HIDE DEF hot, file, g
  <2>4. CASE stack' = stack
    <3>1. \A j \in DOMAIN stack : stack[j].op = "engine" => stack[j] = Top
      BY <1>0, StackBasics DEF StackInv
    <3> QED BY <1>5, <2>1, <2>4, <3>1 DEF EnginesSettle
  <2>5. CASE /\ stack' = <<g>> \o Tail(stack)
             /\ menu' = [menu EXCEPT !.hot = hot, !.choice = "none", !.took = "none", !.lbarFile = file]
    <3>1. menu'.took = "none"
      BY <2>5
    <3> QED BY <1>0, <1>4, <2>3, <2>5, <3>1, EngineWithin
  <2> QED BY <1>1, <1>2, <1>5, <2>2, <2>4, <2>5
<1>8. CASE EngineItems
  <2>1. Top.at = "items"
    BY <1>8 DEF EngineItems
  <2>2. CASE \E i : Exec(Items(Top.c), i, "ran")
    <3>1. PICK i : Exec(Items(Top.c), i, "ran")
      BY <2>2
    <3> DEFINE f == Func(Items(Top.c)[i].typ, Items(Top.c)[i].data)
    <3> DEFINE caller == [Top EXCEPT !.i = i]
    <3>2. CallFrom(f, "ran", caller) /\ menu'.took = menu.took /\ menu'.choice = menu.choice
      BY <3>1 DEF Exec
    <3>3. f.op # "engine" /\ DOMAIN caller = Fields
      BY <1>0, FuncLemma
    <3> HIDE DEF f, caller
    <3>4. Settled("ran", menu')
      BY <2>1, <3>2 DEF Settled
    <3> QED BY <1>0, <3>2, <3>3, <3>4, EngineCalls
  <2>3. CASE \E b : /\ menu' = [menu EXCEPT !.support = b]
                    /\ Goto(IF menu.choice = "none" THEN "choose" ELSE "picked")
    <3>1. menu'.took = menu.took /\ menu'.choice = menu.choice
      BY <2>3
    <3>2. CASE menu.choice = "none"
      <4>1. Goto("choose") /\ Settled("choose", menu')
        BY <2>1, <2>3, <3>1, <3>2 DEF Settled
      <4> QED BY <1>2, <4>1
    <3>3. CASE menu.choice # "none"
      <4>1. Goto("picked") /\ Settled("picked", menu')
        BY <2>1, <2>3, <3>1, <3>3 DEF Settled
      <4> QED BY <1>2, <4>1
    <3> QED BY <3>2, <3>3
  <2> QED BY <1>8, <2>2, <2>3 DEF EngineItems
<1>9. CASE EngineRan
  <2> DEFINE next == IF menu.choice = "none" THEN Top.i + 1 ELSE Len(Items(Top.c)) + 1
  <2> DEFINE g == [Top EXCEPT !.at = "items", !.i = next]
  <2>1. /\ menu' = menu /\ Top.at = "ran"
        /\ stack' = Tail(stack) \/ Goto("load") \/ stack' = <<g>> \o Tail(stack)
    BY <1>9 DEF EngineRan
  <2>2. g.op = "engine" /\ g.at = "items"
    BY <1>0 DEF Fields
  <2> HIDE DEF g
  <2>3. Settled(g.at, menu')
    BY <2>1, <2>2 DEF Settled
  <2> QED BY <1>0, <1>1, <1>2, <1>5, <2>1, <2>2, <2>3, EngineWithin
<1>10. CASE EngineChoose
  <2> DEFINE first == IF menu.support THEN CorrectArrow(Items(Top.c), 2, FALSE) ELSE 2
  <2> DEFINE ready == [Top EXCEPT !.i = first]
  <2> DEFINE g == [ready EXCEPT !.at = "ask"]
  <2>1. /\ menu' = [menu EXCEPT !.drop = FALSE] /\ Top.at = "choose"
        /\ CallFrom(Frame("drain", "-"), "ask", ready) \/ stack' = <<g>> \o Tail(stack)
    BY <1>10 DEF EngineChoose
  <2>2. DOMAIN ready = Fields /\ g.op = "engine" /\ Frame("drain", "-").op # "engine"
    BY <1>0, FrameLemma DEF Fields
  <2> HIDE DEF ready, g
  <2>3. menu'.took = "none"
    BY <2>1 DEF Settled
  <2> QED BY <1>0, <1>4, <2>1, <2>2, <2>3, EngineWithin, EngineCalls
<1>11. CASE EngineAsk
  <2>1. Call(TimedKey, "key") /\ menu' = menu /\ Top.at = "ask"
    BY <1>11 DEF EngineAsk
  <2>2. menu'.took = "none"
    BY <2>1 DEF Settled
  <2> QED BY <1>3, <1>4, <2>1, <2>2, TimedLemma
<1>12. CASE EngineKey
  <2> DEFINE bar == IF Item(Top.i).typ = "none" THEN 0 ELSE Top.i
  <2> DEFINE key == IF Item(Top.i).key = "none" THEN "CR" ELSE Item(Top.i).key
  <2>1. \/ menu' = menu \/ menu' = [menu EXCEPT !.hang = TRUE] \/ \E c : menu' = [menu EXCEPT !.choice = c]
        \/ menu' = [menu EXCEPT !.lbar = bar, !.choice = key]
    BY <1>12 DEF EngineKey, Choose
  <2>2. \/ stack' = Tail(stack) \/ Call(Frame("arrow", "-"), "arrow") \/ Goto("picked") \/ Goto("ask")
    BY <1>12 DEF EngineKey
  <2>3. Top.at = "key"
    BY <1>12 DEF EngineKey
  <2> HIDE DEF bar, key
  <2>4. menu'.took = "none"
    BY <2>1, <2>3 DEF Settled
  <2> QED BY <1>1, <1>2, <1>3, <1>4, <2>2, <2>4, FrameLemma
<1>13. CASE EngineArrow
  <2> DEFINE g == [Top EXCEPT !.at = "ask", !.i = Moved(Items(Top.c), Top.i, ret.c)]
  <2>1. menu' = menu \/ \E c : menu' = [menu EXCEPT !.choice = c]
    BY <1>13 DEF EngineArrow, Choose
  <2>2. stack' = <<g>> \o Tail(stack) \/ Goto("picked") \/ Goto("ask")
    BY <1>13 DEF EngineArrow
  <2>3. Top.at = "arrow" /\ g.op = "engine"
    BY <1>0, <1>13 DEF EngineArrow, Fields
  <2> HIDE DEF g
  <2>4. menu'.took = "none"
    BY <2>1, <2>3 DEF Settled
  <2> QED BY <1>0, <1>2, <1>4, <2>2, <2>3, <2>4, EngineWithin
<1>14. CASE EnginePicked
  <2>1. (\E i : Exec(Items(Top.c), i, "done")) \/ Goto("load")
    BY <1>14 DEF EnginePicked
  <2>2. CASE \E i : Exec(Items(Top.c), i, "done")
    <3>1. PICK i : Exec(Items(Top.c), i, "done")
      BY <2>2
    <3> DEFINE f == Func(Items(Top.c)[i].typ, Items(Top.c)[i].data)
    <3> DEFINE caller == [Top EXCEPT !.i = i]
    <3>2. CallFrom(f, "done", caller)
      BY <3>1 DEF Exec
    <3>3. f.op # "engine" /\ DOMAIN caller = Fields
      BY <1>0, FuncLemma
    <3> HIDE DEF f, caller
    <3> QED BY <1>0, <1>5, <3>2, <3>3, EngineCalls
  <2> QED BY <1>2, <1>5, <2>1, <2>2
<1>15. CASE EngineDone
  <2>1. stack' = Tail(stack) \/ Goto("load")
    BY <1>15 DEF EngineDone
  <2> QED BY <1>1, <1>2, <1>5, <2>1
<1>16. CASE Fallback
  <2>1. stack' = Tail(stack) \/ Goto("fallback") \/ Call(Frame("getkey", "-"), "fallen")
    BY <1>16 DEF Fallback, GetKey
  <2> QED BY <1>1, <1>2, <1>3, <1>5, <2>1, FrameLemma
<1> QED BY <1>6, <1>7, <1>8, <1>9, <1>10, <1>11, <1>12, <1>13, <1>14, <1>15, <1>16 DEF Engine

\* Engine frames are where they were, unless the menus are at work.
LEMMA EngineStays ==
  ASSUME StackInv, StackMove, Top.op # "engine", NEW j \in DOMAIN stack', stack'[j].op = "engine"
  PROVE  stack'[j].at = "start" \/ \E k \in DOMAIN stack : stack'[j] = stack[k]
BY FrameFrom DEF Keeps

LEMMA HotSame ==
  ASSUME StackInv, HotInv, stack' = stack, UNCHANGED <<board, pager>>, Outer \/ ret' = ret
  PROVE  HotInv'
<1>1. menu' = menu /\ pager' = pager /\ Top' = Top
  BY DEF board, Top
<1>2. At("func", "shown")' <=> At("func", "shown")
  BY <1>1 DEF At
<1>3. At("func", "shown") => ret' = ret
  BY DEF At, Outer
<1>4. \A j \in DOMAIN stack : stack[j].op = "engine" => HotEngine(stack[j].at)'
  <2> SUFFICES ASSUME NEW j \in DOMAIN stack, stack[j].op = "engine" PROVE HotEngine(stack[j].at)'
    OBVIOUS
  <2>1. HotEngine(stack[j].at)
    BY DEF HotInv
  <2> QED BY <1>1, <1>2, <1>3, <2>1 DEF HotEngine
<1> QED BY <1>1, <1>2, <1>3, <1>4 DEF HotInv, PagerShape

\* A text is shown, and takes no key.
LEMMA ShowPager ==
  ASSUME Show, ~Hot, ~(At("show", "hot") /\ ret.c \in pager.keys)
  PROVE  PagerStill /\ Top.op = "show"
<1> USE DEF PagerStill, PagerShape, At
<1>1. CASE ShowStart
  <2>1. pager' = [pager EXCEPT !.lines = 0, !.stop = FALSE] /\ Top.op = "show"
    BY <1>1 DEF ShowStart, Unpaged
  <2> QED BY <2>1
<1>2. CASE ShowEnd
  <2> DEFINE d == pager.disp /\ Top.on
  <2>1. pager' = [pager EXCEPT !.disp = d, !.stop = FALSE] /\ Top.op = "show"
    BY <1>2 DEF ShowEnd
  <2> HIDE DEF d
  <2> QED BY <2>1
<1>3. CASE ShowCode
  <2> DEFINE d == pager.disp \/ (~pager.hot /\ \A j \in 1..Top.i : Top.text[j] # "off")
  <2>1. /\ Top.op = "show"
        /\ \/ pager' = pager \/ pager' = [pager EXCEPT !.disp = d]
           \/ pager' = [pager EXCEPT !.disp = FALSE, !.stop = FALSE]
           \/ pager' = [pager EXCEPT !.skip = TRUE]
    BY <1>3 DEF ShowCode, More
  <2> HIDE DEF d
  <2> QED BY <2>1
<1>4. CASE ShowScripted
  <2>1. pager' = [pager EXCEPT !.skip = Top.also] /\ Top.op = "show"
    BY <1>4 DEF ShowScripted
  <2> QED BY <2>1
<1>5. CASE ShowLine
  <2>1. pager' = pager /\ Top.op = "show"
    BY <1>5 DEF ShowLine, More
  <2> QED BY <2>1
<1>6. CASE ShowHot
  <2> DEFINE h == pager.have \/ IsKey(ret)
  <2>1. /\ Top.op = "show"
        /\ pager' = [pager EXCEPT !.have = h] \/ pager' = [pager EXCEPT !.stop = TRUE]
    BY <1>6 DEF ShowHot
  <2> HIDE DEF h
  <2> QED BY <2>1
<1>7. CASE ShowPage
  <2> DEFINE p == [pager EXCEPT !.lines = @ + 1]
  <2>1. Top.op = "show" /\ (pager' = p \/ pager' = [p EXCEPT !.lines = 0])
    BY <1>7 DEF ShowPage
  <2> QED BY <2>1
<1> QED BY <1>1, <1>2, <1>3, <1>4, <1>5, <1>6, <1>7 DEF Show

\* A hot text begins: no key was taken yet.
LEMMA HotBegins ==
  ASSUME StackInv, StackMove, HotInv, At("hot", "start"), Hot, menu' = menu
  PROVE  HotInv'
<1> USE StackBasics
<1> DEFINE f == Text(Top.text)
<1> DEFINE caller == [Top EXCEPT !.on = pager.more, !.also = pager.disp]
<1> DEFINE g == [caller EXCEPT !.at = "end"]
<1>1. /\ stack' = <<f, g>> \o Tail(stack)
      /\ pager' = [pager EXCEPT !.more = FALSE, !.disp = FALSE, !.hot = TRUE, !.keys = Top.keys,
                                !.have = FALSE, !.abort = "none", !.lines = 0, !.stop = FALSE]
  BY DEF Hot, At, CallFrom
<1>2. f.op = "show" /\ g.op = "hot" /\ g.at = "end"
  BY TopLemma, TextLemma DEF At, Fields
<1> HIDE DEF f, g
<1>3. IsSeq(stack) /\ stack # <<>>
  BY DEF StackInv
<1>4. IsSeq(stack') /\ Len(stack') = Len(stack) + 1 /\ Head(stack') = f /\ stack'[2] = g
  BY ONLY <1>1, <1>3, CallLemma
<1>5. 2 \in DOMAIN stack' /\ Top' = f
  <2>1. 2 \in 1..Len(stack')
    BY <1>4
  <2> QED BY <1>4, <2>1 DEF IsSeq, Top
<1>6. PagerShape' /\ pager'.abort = "none"
  BY <1>1 DEF HotInv, PagerShape
<1>7. ~At("func", "shown")'
  BY <1>2, <1>5 DEF At
<1>8. ASSUME NEW j \in DOMAIN stack', stack'[j].op = "engine" PROVE HotEngine(stack[j].at)'
  <2>1. CASE \E k \in DOMAIN stack : stack'[j] = stack[k]
    <3>1. PICK k \in DOMAIN stack : stack'[j] = stack[k]
      BY <2>1
    <3>2. HotEngine(stack[k].at)
      BY <1>8, <3>1 DEF HotInv
    <3>3. pager.abort = "none" /\ ~At("func", "shown")
      BY DEF HotInv, At
    <3> QED BY <3>1, <3>2, <3>3 DEF HotEngine
  <2>2. CASE stack'[j].at = "start"
    BY <2>2 DEF HotEngine
  <2> QED BY <1>8, <2>1, <2>2, EngineStays DEF At
<1>9. \E j \in DOMAIN stack' : stack'[j].op = "hot"
  BY <1>2, <1>4, <1>5
<1> QED BY <1>6, <1>7, <1>8, <1>9 DEF HotInv

\* It returns the key that was taken, to the function that carries it on.
LEMMA HotReturns ==
  ASSUME StackInv, StackMove, QuietInv, HotInv, At("hot", "end"), Hot, menu' = menu
  PROVE  HotInv'
<1> USE StackBasics
<1>0. IsSeq(stack) /\ stack # <<>> /\ Top.op = "hot"
  BY DEF StackInv, At
<1>a. Len(stack) > 1
  <2>1. Len(stack) \in Nat \ {0} /\ Len(stack) # 1
    BY <1>0
  <2> QED BY ONLY <2>1
<1>1. \A j \in DOMAIN stack : j # 1 => stack[j].op # "hot"
  BY <1>0, NoOtherHot DEF Deep
<1>2. ~OtherHot
  <2>1. \A j \in 2..Len(stack) : j \in DOMAIN stack /\ j # 1
    OBVIOUS
  <2> QED BY <1>1, <2>1 DEF OtherHot
<1>3. /\ stack' = Tail(stack) /\ ret' = NodeKey(pager.abort, FALSE)
      /\ pager' = [pager EXCEPT !.more = Top.on, !.disp = Top.also, !.hot = FALSE, !.keys = {},
                                !.have = FALSE, !.abort = "none", !.lines = 1, !.stop = FALSE]
  BY <1>2 DEF Hot, At, Return
<1>4. PagerShape' /\ pager'.keys = {} /\ pager'.abort = "none" /\ ret'.c = pager.abort
  BY <1>3 DEF HotInv, PagerShape, NodeKey
<1>5. IsSeq(stack') /\ Len(stack') = Len(stack) - 1 /\ \A j \in 1..Len(stack) - 1 : stack'[j] = stack[j + 1]
  <2>1. IsSeq(stack) /\ stack # <<>>
    BY <1>0
  <2> QED BY ONLY <1>3, <2>1, ReturnLemma
<1>6. Head(stack') = stack[2]
  <2>1. IsSeq(stack) /\ stack # <<>>
    BY <1>0
  <2> QED BY ONLY <1>3, <1>a, <2>1, ReturnLemma
<1>7. At("func", "shown")'
  <2>1. 1 \in 1..Len(stack) - 1 /\ 1 + 1 = 2
    BY <1>a
  <2>2. stack[1].op = "hot"
    BY <1>0
  <2>3. stack[2].op = "func" /\ stack[2].at = "shown"
    BY ONLY StackInv, <2>1, <2>2 DEF StackInv
  <2> QED BY <1>6, <2>3 DEF At, Top
<1>8. ASSUME NEW j \in DOMAIN stack', stack'[j].op = "engine" PROVE HotEngine(stack[j].at)'
  <2>1. DOMAIN stack' = 1..Len(stack) - 1
    BY <1>5 DEF IsSeq
  <2>2. stack'[j] = stack[j + 1] /\ j + 1 \in DOMAIN stack
    BY <1>5, <2>1
  <2>3. HotEngine(stack[j + 1].at)
    BY <1>8, <2>2 DEF HotInv
  <2>4. ~At("func", "shown")
    BY <1>0 DEF At
  <2> QED BY <1>4, <1>7, <2>2, <2>3, <2>4 DEF HotEngine
<1> QED BY <1>4, <1>8 DEF HotInv

\* A key is taken.
LEMMA HotTaken ==
  ASSUME StackInv, StackMove, QuietInv, HotInv, Show, Taken,
         At("show", "hot"), ret.c \in pager.keys, MenuShape
  PROVE  HotInv'
<1>1. pager' = [pager EXCEPT !.abort = ret.c] /\ menu' = [menu EXCEPT !.took = ret.c]
  BY DEF Show, ShowStart, ShowEnd, ShowCode, ShowScripted, ShowLine, ShowHot, ShowPage, Hot, More,
         At, Taken
<1>2. /\ PagerShape' /\ pager'.abort = ret.c /\ pager'.keys = pager.keys
      /\ menu'.took = ret.c /\ menu'.choice = menu.choice
  BY <1>1 DEF HotInv, PagerShape, MenuShape, NoEngine
<1>3. Top.op = "show" /\ Top = stack[1]
  BY StackBasics DEF At
<1>4. PICK h \in DOMAIN stack : stack[h].op = "hot"
  BY DEF HotInv
<1>5. \E j \in DOMAIN stack' : stack'[j].op = "hot"
  BY <1>3, <1>4, HotStays
<1>6. ASSUME NEW j \in DOMAIN stack', stack'[j].op = "hot" PROVE stack'[j].at # "start"
  <2>1. CASE \E k \in DOMAIN stack : stack'[j] = stack[k]
    BY <1>3, <1>6, <2>1 DEF StackInv
  <2>2. CASE Keeps(stack'[j])
    BY <1>3, <1>6, <2>2 DEF Keeps
  <2>3. CASE j = 1 /\ \E g : Calling(stack'[1], g)
    BY <1>3, <1>6, <2>3 DEF Calling
  <2> QED BY <2>1, <2>2, <2>3, FrameFrom
<1>7. ~At("func", "shown")'
  <2> SUFFICES ASSUME At("func", "shown")' PROVE FALSE
    OBVIOUS
  <2>1. stack' = stack
    BY <1>3, ShownAgain
  <2> QED BY <1>3, <2>1 DEF At, Top
<1>8. ASSUME NEW j \in DOMAIN stack', stack'[j].op = "engine" PROVE HotEngine(stack[j].at)'
  <2>1. CASE \E k \in DOMAIN stack : stack'[j] = stack[k]
    <3>1. PICK k \in DOMAIN stack : stack'[j] = stack[k]
      BY <2>1
    <3>2. stack[k].at \in {"ran", "done"}
      BY <1>4, <1>8, <3>1, HotOverRan
    <3> QED BY <1>2, <3>1, <3>2 DEF HotEngine
  <2>2. CASE stack'[j].at = "start"
    BY <2>2 DEF HotEngine
  <2> QED BY <1>3, <1>8, <2>1, <2>2, EngineStays
<1> QED BY <1>2, <1>5, <1>6, <1>7, <1>8 DEF HotInv

\* A function returns to its menu, perhaps with the key.
LEMMA HotFunction ==
  ASSUME StackInv, MenuShape, QuietInv, HotInv, Function
  PROVE  HotInv'
<1>0. StackMove /\ QuietMove /\ Top.op = "func" /\ PagerStill
  BY FunctionMove, FunctionPager
<1>1. CASE ~At("func", "shown")
  <2>1. menu'.took = menu.took /\ menu'.choice = menu.choice
    <3>1. ~(Top.c = "hot" /\ Top.at = "shown")
      BY <1>0, <1>1 DEF At
    <3> QED BY <3>1, FunctionMenu
  <2> QED BY <1>0, <1>1, <2>1, HotStill
<1>2. CASE At("func", "shown")
  <2>0. Top.c = "hot" /\ Top.at = "shown"
    BY <1>2, StackBasics DEF At, StackInv
  <2>1. menu'.took = menu.took /\ menu'.choice = IF ret.c = "none" THEN menu.choice ELSE ret.c
    BY <2>0, FunctionMenu
  <2>2. stack' = Tail(stack)
    BY <2>0 DEF Function, FuncMenu, FuncShow, FuncPlain, FuncEdit
  <2>3. \A j \in DOMAIN stack : stack[j].op # "hot"
    <3>1. Deep(Top) /\ Top = stack[1]
      BY <1>0, StackBasics DEF Deep
    <3> QED BY <1>0, <3>1, NoOtherHot
  <2>4. pager.keys = {} /\ pager.abort = "none"
    BY <2>3 DEF HotInv
  <2>5. PagerShape' /\ pager'.keys = {} /\ pager'.abort = "none"
    BY <1>0, <2>4 DEF PagerStill, HotInv
  <2>6. ~At("func", "shown")'
    <3> SUFFICES ASSUME At("func", "shown")' PROVE FALSE
      OBVIOUS
    <3>1. stack' = stack
      BY <1>0, ShownAgain
    <3>2. IsSeq(stack) /\ stack # <<>>
      BY DEF StackInv
    <3>3. Len(stack') = Len(stack) - 1 /\ Len(stack) \in Nat
      BY ONLY <2>2, <3>2, ReturnLemma
    <3> QED BY ONLY <3>1, <3>3
  <2>7. ret.c \in {"none", menu.took}
    BY <1>2 DEF HotInv
  <2>8. ASSUME NEW j \in DOMAIN stack', stack'[j].op = "engine" PROVE HotEngine(stack[j].at)'
    <3>1. CASE \E k \in DOMAIN stack : stack'[j] = stack[k]
      <4>1. PICK k \in DOMAIN stack : stack'[j] = stack[k]
        BY <3>1
      <4>2. HotEngine(stack[k].at)
        BY <2>8, <4>1 DEF HotInv
      <4> QED BY <2>1, <2>4, <2>7, <4>1, <4>2 DEF HotEngine
    <3>2. CASE stack'[j].at = "start"
      BY <3>2 DEF HotEngine
    <3> QED BY <1>0, <2>8, <3>1, <3>2, EngineStays
  <2> QED BY <2>1, <2>5, <2>6, <2>8 DEF HotInv
<1> QED BY <1>1, <1>2

\* The menus go on with the key, or draw the menu anew and forget it.
LEMMA HotMenus ==
  ASSUME StackInv, MenuShape, HotInv, Engine
  PROVE  HotInv'
<1>0. StackMove /\ Top.op = "engine" /\ PagerStill
  BY EngineMove, EnginePager DEF StackMove, RunsItem
<1>1. \A j \in DOMAIN stack : stack[j].op # "hot"
  <2>1. DOMAIN stack = 1..2 /\ stack[1] = Top /\ stack[2].op = "session"
    BY <1>0, StackBasics DEF StackInv
  <2>2. \A j \in 1..2 : j = 1 \/ j = 2
    OBVIOUS
  <2> QED BY <1>0, <2>1, <2>2
<1>2. pager.keys = {} /\ pager.abort = "none"
  BY <1>1 DEF HotInv
<1>3. PagerShape' /\ pager'.keys = {} /\ pager'.abort = "none"
  BY <1>0, <1>2 DEF PagerStill, HotInv
<1>4. Settled(Top.at, menu)
  <2>1. HotEngine(Top.at)
    BY <1>0, StackBasics DEF HotInv
  <2> QED BY <1>0, <1>2, <2>1 DEF HotEngine, Settled, At
<1>5. EnginesSettle
  BY <1>4, EngineSettles
<1>6. \A j \in DOMAIN stack' : stack'[j].op = "engine" => HotEngine(stack[j].at)'
  BY <1>5 DEF EnginesSettle, Settled, HotEngine
<1>7. ~At("func", "shown")'
  <2> SUFFICES ASSUME At("func", "shown")' PROVE FALSE
    OBVIOUS
  <2>1. stack' = stack
    BY <1>0, ShownAgain
  <2> QED BY <1>0, <2>1 DEF At, Top
<1> QED BY <1>3, <1>6, <1>7 DEF HotInv

\* The session enters the menus and leaves them.
LEMMA HotBoard ==
  ASSUME StackInv, MenuShape, QuietInv, HotInv, Board, UNCHANGED pager
  PROVE  HotInv'
<1>0. StackMove /\ QuietMove /\ Top.op = "session"
  BY SessionMove, QuietIsMove
<1>a. PagerStill
  BY DEF PagerStill, PagerShape
<1>1. CASE \E m \in Missing : menu' = [menu EXCEPT !.missing = m]
  <2>1. menu'.took = menu.took /\ menu'.choice = menu.choice
    BY <1>1 DEF MenuShape, NoEngine
  <2> QED BY <1>0, <1>a, <2>1, HotStill DEF At
<1>2. CASE menu' = NoEngine
  <2>1. menu'.took = "none"
    BY <1>2 DEF NoEngine
  <2>2. \A j \in DOMAIN stack : stack[j].op # "hot"
    <3>1. DOMAIN stack = 1..1 /\ stack[1] = Top
      BY <1>0, StackBasics
    <3>2. \A j \in 1..1 : j = 1
      OBVIOUS
    <3> QED BY <1>0, <3>1, <3>2
  <2>3. PagerShape' /\ pager'.keys = {} /\ pager'.abort = "none"
    BY <2>2 DEF HotInv, PagerShape
  <2>4. ~At("func", "shown")'
    <3> SUFFICES ASSUME At("func", "shown")' PROVE FALSE
      OBVIOUS
    <3>1. stack' = stack
      BY <1>0, ShownAgain
    <3> QED BY <1>0, <3>1 DEF At, Top
  <2>5. \A j \in DOMAIN stack' : HotEngine(stack[j].at)'
    BY <2>1 DEF HotEngine
  <2> QED BY <2>3, <2>4, <2>5 DEF HotInv
<1> QED BY <1>1, <1>2 DEF Board

LEMMA HotKept ==
  ASSUME HotTextsPlain, AccessInv, LbarInv, QaInv, QuietInv, HotInv, [Next]_vars
  PROVE  HotInv'
<1>1. StackInv /\ MenuShape
  BY DEF AccessInv
<1>2. QuietMove /\ StackMove
  BY StepQuiet, QuietIsMove
<1>3. CASE stack' = stack /\ UNCHANGED <<board, pager>> /\ (Outer \/ ret' = ret)
  BY <1>1, <1>3, HotSame
<1>4. ASSUME PagerStill, UNCHANGED menu, Top.op \notin {"engine", "hot", "func"} PROVE HotInv'
  BY <1>1, <1>2, <1>4, HotStill DEF At
<1>5. CASE Outer /\ Top.op # "hot" /\ UNCHANGED board /\ PagerStill
  BY <1>4, <1>5 DEF Outer, board
<1>6. CASE Top.op \in {"show", "hot"} /\ Show /\ Taken
  <2>1. CASE At("show", "hot") /\ ret.c \in pager.keys
    BY <1>1, <1>2, <1>6, <2>1, HotTaken
  <2>2. CASE ~(At("show", "hot") /\ ret.c \in pager.keys)
    <3>1. menu' = menu
      BY <1>6, <2>2 DEF Taken
    <3>2. CASE Hot
      <4>1. At("hot", "start") \/ At("hot", "end")
        BY <3>2 DEF Hot
      <4> QED BY <1>1, <1>2, <3>1, <3>2, <4>1, HotBegins, HotReturns
    <3>3. CASE ~Hot
      BY <1>4, <1>6, <2>2, <3>1, <3>3, ShowPager
    <3> QED BY <3>2, <3>3
  <2> QED BY <2>1, <2>2
<1>7. CASE Top.op = "script" /\ Script /\ UNCHANGED menu
  BY <1>4, <1>7, ScriptPager
<1>8. CASE Function
  BY <1>1, <1>8, HotFunction
<1>9. CASE Engine
  BY <1>1, <1>9, HotMenus
<1>10. CASE Board /\ UNCHANGED pager
  BY <1>1, <1>10, HotBoard
<1>11. CASE Top.op = "command" /\ UNCHANGED menu /\ PagerStill
  BY <1>4, <1>11
<1> QED BY <1>1, <1>3, <1>5, <1>6, <1>7, <1>8, <1>9, <1>10, <1>11, StepMove

\* All of it together.
HotKeyInv == AccessInv /\ LbarInv /\ QaInv /\ QuietInv /\ HotInv

LEMMA HotKeyStarts == Init => HotKeyInv
<1> SUFFICES ASSUME Init PROVE HotKeyInv
  OBVIOUS
<1> DEFINE f == [Frame("session", "-") EXCEPT !.at = "idle"]
<1>0. /\ stack = <<f>> /\ menu = NoEngine /\ qa = <<>>
      /\ pager = [more |-> TRUE, disp |-> TRUE, lines |-> 0, stop |-> FALSE,
                  hot |-> FALSE, keys |-> {}, have |-> FALSE, abort |-> "none", skip |-> FALSE]
  BY DEF Init, TerminalInit, MenuInit, QuestionnaireInit
<1>1. AccessInv /\ StackInv
  BY AccessStarts, StackStarts
<1>2. f.op = "session"
  BY DEF Frame
<1> HIDE DEF f
<1>3. DOMAIN stack = 1..1 /\ Len(stack) = 1 /\ stack[1] = f /\ Top = f
  BY <1>0 DEF Top
<1>4. \A j \in DOMAIN stack : j = 1 /\ stack[j].op = "session"
  BY <1>2, <1>3
<1>5. LbarInv
  BY <1>0 DEF LbarInv, NoEngine
<1>6. QaInv
  <2>1. ScriptPlaces = {}
    <3>1. \A k \in 1..Len(stack) : Len(stack) + 1 - k = 1
      BY <1>3
    <3> QED BY <1>2, <1>3, <3>1 DEF ScriptPlaces
  <2>2. Cardinality(ScriptPlaces) = 0
    BY <2>1, FS_EmptySet
  <2>3. Len(qa) = 0 /\ DOMAIN qa = {} /\ IsSeq(qa)
    BY <1>0 DEF IsSeq
  <2> QED BY <2>2, <2>3 DEF QaInv, VmsOk
<1>7. QuietInv
  <2>1. \A j \in DOMAIN stack : \A k \in 1..j - 1 : FALSE
    BY <1>4
  <2> QED BY <1>4, <2>1 DEF QuietInv
<1>8. HotInv
  <2>1. PagerShape /\ pager.keys = {} /\ pager.abort = "none"
    BY <1>0 DEF PagerShape
  <2> QED BY <1>2, <1>3, <1>4, <2>1 DEF HotInv, At
<1> QED BY <1>1, <1>5, <1>6, <1>7, <1>8 DEF HotKeyInv

LEMMA HotKeyStep ==
  ASSUME HotTextsPlain, HotKeyInv, [Next]_vars
  PROVE  HotKeyInv'
<1> USE DEF HotKeyInv
<1>1. StackInv
  BY DEF AccessInv
<1>2. QuietInv'
  BY <1>1, StepQuiet, QuietKept
<1>3. QaInv'
  BY <1>1, ScriptsKept
<1> QED BY <1>2, <1>3, AccessStep, LbarKept, HotKept

LEMMA HotKeyHonoredThen ==
  ASSUME HotKeyInv
  PROVE  HotKeyHonored
<1>1. StackInv
  BY DEF HotKeyInv, AccessInv
<1> SUFFICES ASSUME Top.op = "engine" PROVE HotKeyHonored
  BY DEF HotKeyHonored, At
<1>2. HotEngine(Top.at)
  BY <1>1, StackBasics DEF HotKeyInv, HotInv
<1> QED BY <1>2 DEF HotKeyHonored, HotEngine, At

\* Where hot texts run no scripts, and the chat's text runs none, the hot key
\* that interrupts a text is what the menu carries out: not one of the caller's
\* keys that stop a text is taken and then asked for again, whatever menus,
\* texts, questionnaires, chats and commands of the sysop are under way.
THEOREM HotKeyAlwaysHonored == ASSUME HotTextsPlain PROVE Spec => []HotKeyHonored
<1>1. Init => HotKeyInv
  BY HotKeyStarts
<1>2. HotKeyInv /\ [Next]_vars => HotKeyInv'
  BY HotKeyStep
<1>3. HotKeyInv => HotKeyHonored
  BY HotKeyHonoredThen
<1> QED BY <1>1, <1>2, <1>3, PTL DEF Spec

---------------------------------------------------------------------------
(* Who calls whom. *)

\* The call by, at the place at, may have called op.
May(op, by, at) ==
  \/ op = "getkey" /\ \/ by \in {"peek", "arrow", "line", "enter", "ask", "yesno"} /\ at = "got"
                      \/ by = "mate" /\ at = "end"
                      \/ by = "drain" /\ at = "took"
                      \/ by = "arrow" /\ at = "final"
                      \/ by = "show" /\ at = "hit"
                      \/ by = "session" /\ at = "key"
                      \/ by = "engine" /\ at \in {"key", "fallen"}
                      \/ by = "script" /\ at = "called"
                      \/ by = "chat" /\ at = "char"
  \/ op = "peek" /\ \/ by \in {"mate", "drain"} /\ at = "peeked"
                    \/ by = "show" /\ at = "hot"
                    \/ by = "script" /\ at = "called"
  \/ op = "mate" /\ \/ by = "drain" /\ at = "start"
                    \/ by = "line" /\ at = "end"
                    \/ by = "session" /\ at = "done"
  \/ op = "drain" /\ \/ by = "engine" /\ at \in {"load", "ask"}
                     \/ by = "script" /\ at = "called"
  \/ op = "arrow" /\ by \in {"engine", "script"} /\ at = "arrow"
  \/ op = "line" /\ \/ by = "func" /\ at \in {"pass", "line"}
                    \/ by = "script" /\ at = "asked"
  \/ op = "enter" /\ \/ by = "press" /\ at = "end"
                     \/ by = "show" /\ at = "next"
                     \/ by = "script" /\ at = "called"
  \/ op = "ask" /\ \/ by = "press" /\ at = "more"
                   \/ by = "show" /\ at = "next"
  \/ op = "press" /\ by = "func" /\ at \in {"end", "toggled"}
  \/ op = "yesno" /\ by = "session" /\ at = "done"
  \/ op = "show" /\ \/ by = "hot" /\ at = "end"
                    \/ by = "show" /\ at = "next"
                    \/ by = "chat" /\ at \in {"key", "capture", "end"}
                    \/ by = "func" /\ at \in {"end", "enter"}
                    \/ by = "script" /\ at = "called"
                    \/ by = "session" /\ at = "done"
  \/ op = "hot" /\ by = "func" /\ at = "shown"
  \/ op = "script" /\ \/ by \in {"show", "yesno"} /\ at = "scripted"
                      \/ by = "func" /\ at = "end"
  \/ op = "func" /\ \/ by = "engine" /\ at \in {"ran", "done"}
                    \/ by = "script" /\ at = "called"
  \/ op = "engine" /\ by = "session" /\ at = "left"
  \/ op = "command" /\ by = "getkey" /\ at = "local"
  \/ op = "chat" /\ by = "command" /\ at = "end"
  \/ op = "window" /\ \/ by = "command" /\ at \in {"asked", "shown"}
                      \/ by = "chat" /\ at \in {"key", "named", "leave"}

\* So it is along the stack.
AdjInv == \A j \in 1..Len(stack) - 1 : May(stack[j].op, stack[j + 1].op, stack[j + 1].at)

\* A step leaves the stack, returns, goes on within the call on top, or calls
\* what that call may call from the place it comes to.
NestMove ==
  \/ stack' = stack
  \/ stack' = Tail(stack)
  \/ \E g : stack' = <<g>> \o Tail(stack) /\ g.op = Top.op
  \/ \E f, g : stack' = <<f, g>> \o Tail(stack) /\ g.op = Top.op /\ May(f.op, g.op, g.at)

\* A step of that kind keeps the stack so.
LEMMA NestKept ==
  ASSUME StackInv, AdjInv, NestMove
  PROVE  AdjInv'
<1>0. IsSeq(stack) /\ stack # <<>>
  BY DEF StackInv
<1>a. Len(stack) \in Nat \ {0} /\ DOMAIN stack = 1..Len(stack) /\ Top = stack[1]
  BY StackBasics
<1>1. CASE stack' = stack
  BY <1>1 DEF AdjInv
<1>2. CASE stack' = Tail(stack)
  <2>1. Len(stack') = Len(stack) - 1 /\ \A j \in 1..Len(stack) - 1 : stack'[j] = stack[j + 1]
    BY ONLY <1>0, <1>2, ReturnLemma
  <2>2. ASSUME NEW j \in 1..Len(stack') - 1 PROVE May(stack'[j].op, stack'[j + 1].op, stack'[j + 1].at)
    <3>1. stack'[j] = stack[j + 1] /\ stack'[j + 1] = stack[(j + 1) + 1] /\ j + 1 \in 1..Len(stack) - 1
      BY <1>a, <2>1
    <3> QED BY <3>1 DEF AdjInv
  <2> QED BY <2>2 DEF AdjInv
<1>3. CASE \E g : stack' = <<g>> \o Tail(stack) /\ g.op = Top.op
  <2>1. PICK g : stack' = <<g>> \o Tail(stack) /\ g.op = Top.op
    BY <1>3
  <2>2. Len(stack') = Len(stack) /\ stack'[1] = g /\ \A j \in 2..Len(stack) : stack'[j] = stack[j]
    BY ONLY <1>0, <2>1, WithinLemma
  <2>3. ASSUME NEW j \in 1..Len(stack') - 1 PROVE May(stack'[j].op, stack'[j + 1].op, stack'[j + 1].at)
    <3>1. j \in 1..Len(stack) - 1 /\ j + 1 \in 2..Len(stack) /\ stack'[j + 1] = stack[j + 1]
      BY <1>a, <2>2
    <3>2. stack'[j].op = stack[j].op
      <4>1. CASE j = 1
        BY <4>1, <1>a, <2>1, <2>2
      <4>2. CASE j # 1
        BY <4>2, <3>1, <2>2
      <4> QED BY <4>1, <4>2
    <3> QED BY <3>1, <3>2 DEF AdjInv
  <2> QED BY <2>3 DEF AdjInv
<1>4. CASE \E f, g : stack' = <<f, g>> \o Tail(stack) /\ g.op = Top.op /\ May(f.op, g.op, g.at)
  <2>1. PICK f, g : stack' = <<f, g>> \o Tail(stack) /\ g.op = Top.op /\ May(f.op, g.op, g.at)
    BY <1>4
  <2>2. /\ Len(stack') = Len(stack) + 1 /\ stack'[1] = f /\ stack'[2] = g
        /\ \A j \in 3..Len(stack) + 1 : stack'[j] = stack[j - 1]
    BY ONLY <1>0, <2>1, CallLemma
  <2>3. ASSUME NEW j \in 1..Len(stack') - 1 PROVE May(stack'[j].op, stack'[j + 1].op, stack'[j + 1].at)
    <3>1. CASE j = 1
      BY <3>1, <2>1, <2>2
    <3>2. CASE j # 1
      <4>1. j - 1 \in 1..Len(stack) - 1 /\ (j - 1) + 1 = j /\ stack'[j + 1] = stack[j]
        BY <1>a, <2>2, <3>2
      <4>2. stack'[j].op = stack[j - 1].op
        <5>1. CASE j = 2
          BY <5>1, <1>a, <2>1, <2>2
        <5>2. CASE j # 2
          BY <5>2, <3>2, <1>a, <2>2
        <5> QED BY <5>1, <5>2
      <4>3. May(stack[j - 1].op, stack[(j - 1) + 1].op, stack[(j - 1) + 1].at)
        BY <4>1 DEF AdjInv
      <4> QED BY <4>1, <4>2, <4>3
    <3> QED BY <3>1, <3>2
  <2> QED BY <2>3 DEF AdjInv
<1> QED BY <1>1, <1>2, <1>3, <1>4 DEF NestMove

LEMMA NestGoto ==
  ASSUME StackInv, NEW a, Goto(a)
  PROVE  NestMove
<1>1. [Top EXCEPT !.at = a].op = Top.op
  BY TopLemma, AtLemma
<1> QED BY <1>1 DEF Goto, NestMove

LEMMA NestCallFrom ==
  ASSUME StackInv, NEW f, NEW a, NEW caller, CallFrom(f, a, caller),
         DOMAIN caller = Fields, caller.op = Top.op, May(f.op, Top.op, a)
  PROVE  NestMove
<1> DEFINE g == [caller EXCEPT !.at = a]
<1>1. g.op = Top.op /\ g.at = a
  BY AtLemma
<1>2. stack' = <<f, g>> \o Tail(stack)
  BY DEF CallFrom
<1> HIDE DEF g
<1> QED BY <1>1, <1>2 DEF NestMove

LEMMA NestCall ==
  ASSUME StackInv, NEW f, NEW a, Call(f, a), May(f.op, Top.op, a)
  PROVE  NestMove
<1>1. CallFrom(f, a, Top)
  BY DEF Call, CallFrom
<1> QED BY <1>1, TopLemma, NestCallFrom

LEMMA NestFrame ==
  ASSUME StackInv, NEW op, NEW c, NEW a, Call(Frame(op, c), a), May(op, Top.op, a)
  PROVE  NestMove
BY FrameLemma, NestCall

LEMMA NestText ==
  ASSUME StackInv, NEW t, NEW a, Call(Text(t), a), May("show", Top.op, a)
  PROVE  NestMove
BY TextLemma, NestCall

LEMMA NestTimed ==
  ASSUME StackInv, NEW a, Call(TimedKey, a), May("getkey", Top.op, a)
  PROVE  NestMove
BY TimedLemma, NestCall

\* What each handler does to the stack is a step of that kind.
LEMMA KeyNests ==
  ASSUME StackInv, KeyRefused \/ KeyPushed \/ KeyLocal \/ KeyNotLocal \/ KeyRead \/ KeyWaits
                   \/ KeyDeadline \/ KeyExpires \/ KeyLost
  PROVE  NestMove
<1>1. Top.op = "getkey"
  BY KeyMove
<1>2. ASSUME NEW k, Hand(k) PROVE NestMove
  <2>1. CASE Goto("start")
    BY <2>1, NestGoto
  <2>2. CASE Return(k)
    BY <2>2 DEF Return, NestMove
  <2> QED BY <1>2, <2>1, <2>2 DEF Hand
<1>3. CASE KeyRefused \/ KeyExpires \/ KeyLost
  BY <1>3 DEF KeyRefused, KeyExpires, KeyLost, Return, NestMove
<1>4. CASE KeyPushed \/ KeyRead
  BY <1>2, <1>4 DEF KeyPushed, KeyRead
<1>5. CASE KeyLocal
  <2>1. CASE Call(Frame("command", Head(local)), "local")
    BY <1>1, <2>1, NestFrame DEF May
  <2> QED BY <1>2, <1>5, <2>1 DEF KeyLocal
<1>6. CASE KeyNotLocal
  <2>1. Goto("read") \/ Return(Failed)
    BY <1>6 DEF KeyNotLocal
  <2> QED BY <2>1, NestGoto DEF Return, NestMove
<1>7. CASE KeyWaits
  BY <1>7 DEF KeyWaits, NestMove
<1>8. CASE KeyDeadline
  BY <1>8, NestGoto DEF KeyDeadline
<1> QED BY <1>3, <1>4, <1>5, <1>6, <1>7, <1>8

LEMMA InputNests ==
  ASSUME StackInv, Peek \/ Mate \/ Drain \/ Arrow \/ YesNo \/ Line \/ Press \/ Enter \/ Ask
  PROVE  NestMove
<1> USE DEF At
<1>0. DOMAIN Top = Fields
  BY TopLemma
<1>a. ASSUME stack' = Tail(stack) PROVE NestMove
  BY <1>a DEF NestMove
<1>1. CASE Peek
  <2>1. Top.op = "peek"
    BY <1>1 DEF Peek
  <2>2. stack' = Tail(stack) \/ Call(TimedKey, "got")
    BY <1>1 DEF Peek, Return
  <2> QED BY <1>a, <2>1, <2>2, NestTimed DEF May
<1>2. CASE Mate
  <2>1. Top.op = "mate"
    BY <1>2 DEF Mate
  <2>2. stack' = Tail(stack) \/ Call(Frame("peek", "-"), "peeked") \/ Call(Frame("getkey", "-"), "end")
    BY <1>2 DEF Mate, Return, PeekKey, GetKey
  <2> QED BY <1>a, <2>1, <2>2, NestFrame DEF May
<1>3. CASE Drain
  <2>1. Top.op = "drain"
    BY <1>3 DEF Drain
  <2>2. \/ stack' = Tail(stack) \/ Call(Frame("peek", "-"), "peeked")
        \/ CallFrom(GetKey, "took", [Top EXCEPT !.c = ret.c])
        \/ CallFrom(MateOf(Top.c), "start", [Top EXCEPT !.i = @ + 1])
    BY <1>3 DEF Drain, PeekKey
  <2>3. /\ DOMAIN [Top EXCEPT !.c = ret.c] = Fields /\ [Top EXCEPT !.c = ret.c].op = "drain"
        /\ DOMAIN [Top EXCEPT !.i = @ + 1] = Fields /\ [Top EXCEPT !.i = @ + 1].op = "drain"
    BY <1>0, <2>1 DEF Fields
  <2>4. GetKey.op = "getkey" /\ \A c : MateOf(c).op = "mate"
    BY FrameLemma DEF GetKey, MateOf
  <2>5. CASE CallFrom(GetKey, "took", [Top EXCEPT !.c = ret.c])
    <3> DEFINE f == GetKey
    <3> DEFINE caller == [Top EXCEPT !.c = ret.c]
    <3>1. CallFrom(f, "took", caller) /\ DOMAIN caller = Fields /\ caller.op = "drain" /\ f.op = "getkey"
      BY <2>3, <2>4, <2>5
    <3> HIDE DEF f, caller
    <3> QED BY <2>1, <3>1, NestCallFrom DEF May
  <2>6. CASE CallFrom(MateOf(Top.c), "start", [Top EXCEPT !.i = @ + 1])
    <3> DEFINE f == MateOf(Top.c)
    <3> DEFINE caller == [Top EXCEPT !.i = @ + 1]
    <3>1. CallFrom(f, "start", caller) /\ DOMAIN caller = Fields /\ caller.op = "drain" /\ f.op = "mate"
      BY <2>3, <2>4, <2>6
    <3> HIDE DEF f, caller
    <3> QED BY <2>1, <3>1, NestCallFrom DEF May
  <2> QED BY <1>a, <2>1, <2>2, <2>5, <2>6, NestFrame DEF May
<1>4. CASE Arrow
  <2>1. Top.op = "arrow"
    BY <1>4 DEF Arrow
  <2>2. stack' = Tail(stack) \/ Goto("sequence") \/ \E a \in {"got", "final"} : Call(TimedKey, a)
    BY <1>4 DEF Arrow, Return
  <2> QED BY <1>a, <2>1, <2>2, NestGoto, NestTimed DEF May
<1>5. CASE YesNo
  <2>1. Top.op = "yesno"
    BY <1>5 DEF YesNo
  <2>2. \/ stack' = Tail(stack) \/ Goto("ask") \/ Call(Frame("getkey", "-"), "got")
        \/ Call(Frame("script", "yesno"), "scripted")
    BY <1>5 DEF YesNo, GetKey
  <2> QED BY <1>a, <2>1, <2>2, NestFrame, NestGoto DEF May
<1>6. CASE Line
  <2>1. Top.op = "line"
    BY <1>6 DEF Line
  <2>2. \/ stack' = Tail(stack) \/ Goto("start") \/ Call(Frame("getkey", "-"), "got")
        \/ Call(Frame("mate", "CR"), "end")
    BY <1>6 DEF Line, Return, GetKey, MateOf
  <2> QED BY <1>a, <2>1, <2>2, NestFrame, NestGoto DEF May
<1>7. CASE Press
  <2>1. Top.op = "press"
    BY <1>7 DEF Press
  <2>2. \/ stack' = Tail(stack) \/ Goto("more") \/ Call(Frame("ask", "-"), "more")
        \/ Call(Frame("enter", "-"), "end")
    BY <1>7 DEF Press, Return
  <2> QED BY <1>a, <2>1, <2>2, NestFrame, NestGoto DEF May
<1>8. CASE Enter
  <2>1. Top.op = "enter"
    BY <1>8 DEF Enter
  <2>2. stack' = Tail(stack) \/ Goto("start") \/ Call(Frame("getkey", "-"), "got")
    BY <1>8 DEF Enter, Return, GetKey
  <2> QED BY <1>a, <2>1, <2>2, NestFrame, NestGoto DEF May
<1>9. CASE Ask
  <2>1. Top.op = "ask"
    BY <1>9 DEF Ask
  <2>2. stack' = Tail(stack) \/ Call(Frame("getkey", "-"), "got")
    BY <1>9 DEF Ask, Return, GetKey
  <2> QED BY <1>a, <2>1, <2>2, NestFrame DEF May
<1> QED BY <1>1, <1>2, <1>3, <1>4, <1>5, <1>6, <1>7, <1>8, <1>9

LEMMA ShowNests ==
  ASSUME StackInv, Show
  PROVE  NestMove
<1> USE DEF At
<1>0. DOMAIN Top = Fields
  BY TopLemma
<1>a. ASSUME stack' = Tail(stack) PROVE NestMove
  BY <1>a DEF NestMove
<1>b. DOMAIN Passed = Fields /\ Passed.op = Top.op
  BY <1>0 DEF Passed, Fields
<1>c. ASSUME Advance PROVE NestMove
  <2>1. [Passed EXCEPT !.at = "next"].op = Top.op
    BY <1>b, AtLemma
  <2> QED BY <1>c, <2>1 DEF Advance, NestMove
<1>d. ASSUME NEW op \in {"enter", "ask"}, CallFrom(Frame(op, "-"), "next", Passed), Top.op = "show"
      PROVE  NestMove
  <2> DEFINE f == Frame(op, "-")
  <2>1. f.op = op /\ CallFrom(f, "next", Passed)
    BY <1>d, FrameLemma
  <2> HIDE DEF f
  <2> QED BY <1>b, <1>d, <2>1, NestCallFrom DEF May
<1>1. CASE ShowStart
  <2>1. /\ stack' = <<[Top EXCEPT !.at = "next", !.on = pager.disp]>> \o Tail(stack)
        /\ [Top EXCEPT !.at = "next", !.on = pager.disp].op = Top.op
    BY <1>0, <1>1 DEF ShowStart, Fields
  <2> QED BY <2>1 DEF NestMove
<1>2. CASE ShowEnd
  BY <1>2, <1>a DEF ShowEnd, Return
<1>3. CASE ShowCode
  <2>1. Top.op = "show"
    BY <1>3 DEF ShowCode, More
  <2>2. CASE Advance \/ CallFrom(Frame("enter", "-"), "next", Passed)
    BY <1>c, <1>d, <2>1, <2>2
  <2>4. CASE CallFrom(Text(Library[Element]), "next", Passed)
    <3> DEFINE f == Text(Library[Element])
    <3>1. CallFrom(f, "next", Passed) /\ f.op = "show"
      BY <2>4, TextLemma
    <3> HIDE DEF f
    <3> QED BY <1>b, <2>1, <3>1, NestCallFrom DEF May
  <2>3. CASE /\ ~Advance /\ ~CallFrom(Frame("enter", "-"), "next", Passed)
             /\ ~CallFrom(Text(Library[Element]), "next", Passed)
    <3> DEFINE f == Frame("script", Element)
    <3> DEFINE caller == [Passed EXCEPT !.also = pager.skip]
    <3>1. CallFrom(f, "scripted", caller) /\ f.op = "script"
      BY <1>3, <2>3, FrameLemma DEF ShowCode
    <3>2. DOMAIN caller = Fields /\ caller.op = Top.op
      BY <1>b DEF Fields
    <3> HIDE DEF f, caller
    <3> QED BY <2>1, <3>1, <3>2, NestCallFrom DEF May
  <2> QED BY <2>2, <2>3, <2>4
<1>4. CASE ShowScripted
  BY <1>4, NestGoto DEF ShowScripted
<1>5. CASE ShowLine
  <2>1. Top.op = "show" /\ (Call(Frame("peek", "-"), "hot") \/ Goto("lined"))
    BY <1>5 DEF ShowLine, More, PeekKey
  <2> QED BY <2>1, NestGoto, NestFrame DEF May
<1>6. CASE ShowHot
  <2>1. Top.op = "show" /\ (Call(TimedKey, "hit") \/ Goto("lined"))
    BY <1>6 DEF ShowHot
  <2> QED BY <2>1, NestGoto, NestTimed DEF May
<1>7. CASE ShowPage
  <2>1. Top.op = "show" /\ (Advance \/ CallFrom(Frame("ask", "-"), "next", Passed))
    BY <1>7 DEF ShowPage
  <2> QED BY <2>1, <1>c, <1>d
<1>8. CASE Hot
  <2>1. Top.op = "hot"
    BY <1>8 DEF Hot
  <2>2. CASE stack' # Tail(stack)
    <3> DEFINE f == Text(Top.text)
    <3> DEFINE caller == [Top EXCEPT !.on = pager.more, !.also = pager.disp]
    <3>1. CallFrom(f, "end", caller) /\ f.op = "show"
      BY <1>8, <2>2, TextLemma DEF Hot, Return
    <3>2. DOMAIN caller = Fields /\ caller.op = "hot"
      BY <1>0, <2>1 DEF Fields
    <3> HIDE DEF f, caller
    <3> QED BY <2>1, <3>1, <3>2, NestCallFrom DEF May
  <2> QED BY <1>a, <2>2
<1> QED BY <1>1, <1>2, <1>3, <1>4, <1>5, <1>6, <1>7, <1>8 DEF Show

LEMMA SessionNests ==
  ASSUME StackInv, Request \/ Door \/ DoorEnds \/ Answered \/ Unwind \/ Board
  PROVE  NestMove
<1> USE DEF At
<1>0. DOMAIN Top = Fields /\ Top.op = "session"
  BY TopLemma, SessionMove
<1>1. CASE Request
  <2>1. PICK r \in Requests : Asks(r)
    BY <1>1 DEF Request
  <2>2. \/ Call(Frame("getkey", "-"), "key") \/ Call(Frame("yesno", "-"), "done")
        \/ \E t \in Texts : Call(Text(t), "done")
    BY <2>1 DEF Asks, GetKey
  <2> QED BY <1>0, <2>2, NestFrame, NestText DEF May
<1>2. CASE Door \/ DoorEnds
  <2>1. PICK a, on : stack' = <<[Top EXCEPT !.at = a, !.on = on]>> \o Tail(stack)
    BY <1>2 DEF Door, DoorEnds
  <2>2. [Top EXCEPT !.at = a, !.on = on].op = Top.op
    BY <1>0 DEF Fields
  <2> QED BY <2>1, <2>2 DEF NestMove
<1>3. CASE Answered
  <2>1. Call(Frame("mate", ret.c), "done") \/ Goto("done")
    BY <1>3 DEF Answered, MateOf
  <2> QED BY <1>0, <2>1, NestFrame, NestGoto DEF May
<1>4. CASE Unwind
  BY <1>4, NestGoto DEF Unwind
<1>5. CASE Board
  <2>1. Call(Frame("engine", "-"), "left") \/ Goto("done") \/ Call(Text(Goodbye), "done")
    BY <1>5 DEF Board
  <2> QED BY <1>0, <2>1, NestFrame, NestGoto, NestText DEF May
<1> QED BY <1>1, <1>2, <1>3, <1>4, <1>5

LEMMA SysopNests ==
  ASSUME StackInv, SysopCommand \/ WindowOpens \/ WindowCloses \/ Chat
  PROVE  NestMove
<1> USE DEF At
<1>0. DOMAIN Top = Fields
  BY TopLemma
<1>a. ASSUME stack' = Tail(stack) PROVE NestMove
  BY <1>a DEF NestMove
<1>1. CASE SysopCommand
  <2>0. Top.op = "command"
    BY <1>1, CommandMove
  <2>1. CASE CommandStart
    <3>1. stack' = Tail(stack) \/ Call(Frame("window", "password"), "asked") \/ Goto("granted")
      BY <2>1 DEF CommandStart, Window
    <3> QED BY <1>a, <2>0, <3>1, NestGoto, NestFrame DEF May
  <2>2. CASE CommandAsked
    <3>1. Goto("end") \/ Goto("granted")
      BY <2>2 DEF CommandAsked
    <3> QED BY <3>1, NestGoto
  <2>3. CASE CommandGranted
    <3>1. Goto("end") \/ Call(Frame("chat", "-"), "end") \/ Call(Frame("window", Top.c), "shown")
      BY <2>3 DEF CommandGranted, Window
    <3> QED BY <2>0, <3>1, NestGoto, NestFrame DEF May
  <2>4. CASE CommandShown
    BY <2>4, NestGoto DEF CommandShown
  <2>5. CASE CommandEnd
    BY <2>5, <1>a DEF CommandEnd, Return
  <2> QED BY <1>1, <2>1, <2>2, <2>3, <2>4, <2>5 DEF SysopCommand
<1>2. CASE WindowOpens \/ WindowCloses
  <2>1. Goto("open") \/ stack' = Tail(stack)
    BY <1>2 DEF WindowOpens, WindowCloses, Return
  <2> QED BY <1>a, <2>1, NestGoto
<1>3. CASE Chat
  <2>0. Top.op = "chat"
    BY <1>3, ChatMove
  <2>1. CASE ChatStart
    <3> DEFINE f == Text(Startchat)
    <3> DEFINE h == [Top EXCEPT !.on = pager.more, !.also = idle.on]
    <3> DEFINE a == IF AutoCapture THEN "capture" ELSE "key"
    <3> DEFINE g == [h EXCEPT !.at = a]
    <3>1. stack' = <<f, g>> \o Tail(stack) /\ f.op = "show"
      BY <2>1, TextLemma DEF ChatStart, CallFrom
    <3>2. g.op = "chat" /\ g.at \in {"key", "capture"}
      BY <1>0, <2>0 DEF Fields
    <3> HIDE DEF f, g
    <3> QED BY <2>0, <3>1, <3>2 DEF NestMove, May
  <2>2. CASE ChatKey \/ ChatCapture
    <3>1. Goto("leave") \/ Call(Frame("getkey", "-"), "char") \/ Call(Frame("window", "name"), "named")
      BY <2>2 DEF ChatKey, ChatCapture, Window, GetKey
    <3> QED BY <2>0, <3>1, NestGoto, NestFrame DEF May
  <2>3. CASE ChatChar
    <3>1. \/ Goto("leave") \/ Goto("key") \/ Call(Frame("window", "closed"), "key")
          \/ Call(Frame("window", "name"), "named")
      BY <2>3 DEF ChatChar, Window
    <3> QED BY <2>0, <3>1, NestGoto, NestFrame DEF May
  <2>4. CASE ChatNamed
    BY <2>4, NestGoto DEF ChatNamed
  <2>5. CASE ChatLeave
    <3>1. Call(Frame("window", "closed"), "leave") \/ Call(Text(Startchat), "end")
      BY <2>5 DEF ChatLeave, Window
    <3> QED BY <2>0, <3>1, NestText, NestFrame DEF May
  <2>6. CASE ChatEnd
    BY <2>6, <1>a DEF ChatEnd
  <2> QED BY <1>3, <2>1, <2>2, <2>3, <2>4, <2>5, <2>6 DEF Chat
<1> QED BY <1>1, <1>2, <1>3

LEMMA ScriptNests ==
  ASSUME StackInv, Script
  PROVE  NestMove
<1> USE DEF At
<1>0. Top.op = "script"
  BY ScriptMove
<1>1. CASE ScriptStart \/ ScriptEnds
  <2>1. Goto("run") \/ stack' = Tail(stack)
    BY <1>1 DEF ScriptStart, ScriptEnds, Return
  <2> QED BY <2>1, NestGoto DEF NestMove
<1>2. CASE ScriptIncluded \/ ScriptFlow \/ ScriptIncludes \/ ScriptSets
  BY <1>2 DEF ScriptIncluded, ScriptFlow, ScriptIncludes, ScriptSets, NestMove
<1>3. CASE ScriptCalls
  <2> DEFINE f == Calls
  <2>1. f.op \in {"show", "enter", "drain", "getkey", "peek", "func"}
    <3>1. Cmd[1] \in Callers
      BY <1>3 DEF ScriptCalls
    <3>2. CASE Cmd[1] = "DISPLAYFILE"
      <4>1. f = Text(Library[Cmd[2]])
        BY <3>2 DEF Calls
      <4> QED BY <4>1, TextLemma
    <3>3. CASE Cmd[1] = "WAITENTER"
      <4>1. f = Frame("enter", "-")
        BY <3>3 DEF Calls
      <4> QED BY <4>1, FrameLemma
    <3>4. CASE Cmd[1] = "ASK"
      <4>1. f = Frame("drain", "-")
        BY <3>4 DEF Calls
      <4> QED BY <4>1, FrameLemma
    <3>5. CASE Cmd[1] \in {"GETCHOICE", "GETRAWKEY"}
      <4>1. f = Frame("getkey", "-")
        BY <3>5 DEF Calls, GetKey
      <4> QED BY <4>1, FrameLemma
    <3>6. CASE Cmd[1] = "KEYPRESS"
      <4>1. f = Frame("peek", "-")
        BY <3>6 DEF Calls, PeekKey
      <4> QED BY <4>1, FrameLemma
    <3>7. CASE Cmd[1] = "MENUCMND"
      <4>1. f = Func(Cmd[2], Cmd[3])
        BY <3>7 DEF Calls
      <4> QED BY <4>1, FuncLemma
    <3> QED BY <3>1, <3>2, <3>3, <3>4, <3>5, <3>6, <3>7 DEF Callers
  <2>2. Call(f, "called")
    BY <1>3 DEF ScriptCalls
  <2> HIDE DEF f
  <2> QED BY <1>0, <2>1, <2>2, NestCall DEF May
<1>4. CASE ScriptCalled
  <2>1. \/ Goto("run") \/ Call(Frame("line", "-"), "asked") \/ Call(Frame("getkey", "-"), "called")
        \/ Call(Frame("arrow", "-"), "arrow")
    BY <1>4 DEF ScriptCalled, GetKey
  <2> QED BY <1>0, <2>1, NestGoto, NestFrame DEF May
<1>5. CASE ScriptGot
  BY <1>5, NestGoto DEF ScriptGot
<1> QED BY <1>1, <1>2, <1>3, <1>4, <1>5 DEF Script

LEMMA FunctionNests ==
  ASSUME StackInv, Function
  PROVE  NestMove
<1> USE DEF At
<1>0. DOMAIN Top = Fields /\ Top.op = "func"
  BY TopLemma, FunctionMove
<1>a. ASSUME stack' = Tail(stack) PROVE NestMove
  BY <1>a DEF NestMove
<1>1. CASE FuncMenu
  <2>1. stack' = Tail(stack) \/ Call(Frame("line", "-"), "pass")
    BY <1>1 DEF FuncMenu
  <2> QED BY <1>0, <1>a, <2>1, NestFrame DEF May
<1>2. CASE FuncShow
  <2>1. \/ stack' = Tail(stack)
        \/ \E t : \E a \in {"end", "enter"} : Call(Text(t), a)
        \/ Call(Frame("press", "-"), "end")
        \/ Call(Frame("script", Top.text[1]), "end")
        \/ Call(HotText(Library[Top.text[1]], HotChars), "shown")
    BY <1>2 DEF FuncShow
  <2>2. CASE Call(HotText(Library[Top.text[1]], HotChars), "shown")
    <3> DEFINE f == HotText(Library[Top.text[1]], HotChars)
    <3>1. f.op = "hot" /\ Call(f, "shown")
      BY <2>2 DEF HotText, Frame
    <3> HIDE DEF f
    <3> QED BY <1>0, <3>1, NestCall DEF May
  <2> QED BY <1>0, <1>a, <2>1, <2>2, NestFrame, NestText DEF May
<1>3. CASE FuncPlain
  <2>1. stack' = Tail(stack) \/ Call(Frame("press", "-"), "toggled")
    BY <1>3 DEF FuncPlain, Return
  <2> QED BY <1>0, <1>a, <2>1, NestFrame DEF May
<1>4. CASE FuncEdit
  <2>1. \/ stack' = Tail(stack) \/ Call(Frame("line", "-"), "line")
        \/ CallFrom(Frame("line", "-"), "line", [Top EXCEPT !.on = pager.more, !.also = pager.disp])
    BY <1>4 DEF FuncEdit
  <2>2. CASE CallFrom(Frame("line", "-"), "line", [Top EXCEPT !.on = pager.more, !.also = pager.disp])
    <3> DEFINE f == Frame("line", "-")
    <3> DEFINE caller == [Top EXCEPT !.on = pager.more, !.also = pager.disp]
    <3>1. f.op = "line" /\ CallFrom(f, "line", caller)
      BY <2>2, FrameLemma
    <3>2. DOMAIN caller = Fields /\ caller.op = "func"
      BY <1>0 DEF Fields
    <3> HIDE DEF f, caller
    <3> QED BY <1>0, <3>1, <3>2, NestCallFrom DEF May
  <2> QED BY <1>0, <1>a, <2>1, <2>2, NestFrame DEF May
<1> QED BY <1>1, <1>2, <1>3, <1>4 DEF Function

LEMMA EngineNests ==
  ASSUME StackInv, Engine
  PROVE  NestMove
<1> USE DEF At
<1>0. DOMAIN Top = Fields /\ Top.op = "engine"
  BY TopLemma, EngineMove
<1>a. ASSUME stack' = Tail(stack) PROVE NestMove
  BY <1>a DEF NestMove
<1>b. ASSUME NEW items, NEW i, NEW at \in {"ran", "done"}, Exec(items, i, at) PROVE NestMove
  <2> DEFINE f == Func(items[i].typ, items[i].data)
  <2> DEFINE caller == [Top EXCEPT !.i = i]
  <2>1. f.op = "func" /\ CallFrom(f, at, caller)
    BY <1>b, FuncLemma DEF Exec
  <2>2. DOMAIN caller = Fields /\ caller.op = "engine"
    BY <1>0 DEF Fields
  <2> HIDE DEF f, caller
  <2> QED BY <1>0, <2>1, <2>2, NestCallFrom DEF May
<1>1. CASE EngineStart
  BY <1>0, <1>1, NestFrame DEF EngineStart, May
<1>2. CASE EngineLoad
  <2>1. \/ stack' = Tail(stack) \/ Goto("fallback") \/ stack' = stack
        \/ stack' = <<[Top EXCEPT !.at = "items", !.c = menu.path[Len(menu.path)], !.i = 2]>> \o Tail(stack)
    BY <1>2 DEF EngineLoad
  <2>2. [Top EXCEPT !.at = "items", !.c = menu.path[Len(menu.path)], !.i = 2].op = Top.op
    BY <1>0 DEF Fields
  <2> QED BY <1>a, <2>1, <2>2, NestGoto DEF NestMove
<1>3. CASE EngineItems
  <2>1. (\E i : Exec(Items(Top.c), i, "ran")) \/ Goto("choose") \/ Goto("picked")
    BY <1>3 DEF EngineItems
  <2> QED BY <1>b, <2>1, NestGoto
<1>4. CASE EngineRan
  <2>1. stack' = Tail(stack) \/ Goto("load") \/ \E i : stack' = <<[Top EXCEPT !.at = "items", !.i = i]>> \o Tail(stack)
    BY <1>4 DEF EngineRan
  <2>2. ASSUME NEW i, stack' = <<[Top EXCEPT !.at = "items", !.i = i]>> \o Tail(stack) PROVE NestMove
    <3>1. [Top EXCEPT !.at = "items", !.i = i].op = Top.op
      BY <1>0 DEF Fields
    <3> QED BY <2>2, <3>1 DEF NestMove
  <2> QED BY <1>a, <2>1, <2>2, NestGoto
<1>5. CASE EngineChoose
  <2> DEFINE ready == [Top EXCEPT !.i = IF menu.support THEN CorrectArrow(Items(Top.c), 2, FALSE) ELSE 2]
  <2>1. CallFrom(Frame("drain", "-"), "ask", ready) \/ stack' = <<[ready EXCEPT !.at = "ask"]>> \o Tail(stack)
    BY <1>5 DEF EngineChoose
  <2>2. DOMAIN ready = Fields /\ ready.op = "engine"
    BY <1>0 DEF Fields
  <2> HIDE DEF ready
  <2>3. [ready EXCEPT !.at = "ask"].op = "engine"
    BY <2>2, AtLemma
  <2>4. CASE CallFrom(Frame("drain", "-"), "ask", ready)
    <3> DEFINE f == Frame("drain", "-")
    <3>1. f.op = "drain" /\ CallFrom(f, "ask", ready)
      BY <2>4, FrameLemma
    <3> HIDE DEF f
    <3> QED BY <1>0, <2>2, <3>1, NestCallFrom DEF May
  <2> QED BY <1>0, <2>1, <2>3, <2>4 DEF NestMove
<1>6. CASE EngineAsk
  BY <1>0, <1>6, NestTimed DEF EngineAsk, May
<1>7. CASE EngineKey
  <2>1. stack' = Tail(stack) \/ Call(Frame("arrow", "-"), "arrow") \/ Goto("picked") \/ Goto("ask")
    BY <1>7 DEF EngineKey
  <2> QED BY <1>0, <1>a, <2>1, NestGoto, NestFrame DEF May
<1>8. CASE EngineArrow
  <2>1. \/ Goto("picked") \/ Goto("ask")
        \/ \E i : stack' = <<[Top EXCEPT !.at = "ask", !.i = i]>> \o Tail(stack)
    BY <1>8 DEF EngineArrow
  <2>2. ASSUME NEW i, stack' = <<[Top EXCEPT !.at = "ask", !.i = i]>> \o Tail(stack) PROVE NestMove
    <3>1. [Top EXCEPT !.at = "ask", !.i = i].op = Top.op
      BY <1>0 DEF Fields
    <3> QED BY <2>2, <3>1 DEF NestMove
  <2> QED BY <2>1, <2>2, NestGoto
<1>9. CASE EnginePicked
  <2>1. (\E i : Exec(Items(Top.c), i, "done")) \/ Goto("load")
    BY <1>9 DEF EnginePicked
  <2> QED BY <1>b, <2>1, NestGoto
<1>10. CASE EngineDone
  <2>1. stack' = Tail(stack) \/ Goto("load")
    BY <1>10 DEF EngineDone
  <2> QED BY <1>a, <2>1, NestGoto
<1>11. CASE Fallback
  <2>1. Call(Frame("getkey", "-"), "fallen") \/ stack' = Tail(stack) \/ Goto("fallback")
    BY <1>11 DEF Fallback, GetKey
  <2> QED BY <1>0, <1>a, <2>1, NestGoto, NestFrame DEF May
<1> QED BY <1>1, <1>2, <1>3, <1>4, <1>5, <1>6, <1>7, <1>8, <1>9, <1>10, <1>11 DEF Engine

\* Every step does.
LEMMA StepNests ==
  ASSUME StackInv, [Next]_vars
  PROVE  NestMove
<1>1. CASE UNCHANGED vars
  BY <1>1 DEF vars, NestMove
<1>2. CASE MenuStep
  <2>1. CASE TerminalStep
    BY <2>1, KeyNests, InputNests, ShowNests, SessionNests DEF TerminalStep
  <2> QED BY <1>2, <2>1, ScriptNests, EngineNests, FunctionNests, SessionNests DEF MenuStep
<1>3. CASE Work
  BY <1>2, <1>3, SysopNests DEF Work
<1>4. CASE Waits \/ Answer
  BY <1>4, KeyNests, SysopNests DEF Waits, Answer
<1>5. CASE Pump \/ Caller \/ SysopPresses \/ Time \/ Stays
  <2>1. stack' = stack
    BY <1>5 DEF Pump, Caller, SysopPresses, Time, Stays, Outside, Tick, vars
  <2> QED BY <2>1 DEF NestMove
<1> QED BY <1>1, <1>3, <1>4, <1>5 DEF Next

---------------------------------------------------------------------------
(* Keys in order. *)

\* The place of a byte in what was typed; the bytes on their way; the key that
\* PeekKey is about to put back; and the keys that were read but not handed out.
Place(k) == <<k.s, k.i>>
LineOf == rbuf \o wire
Held == At("peek", "got") /\ IsKey(ret)
Row == IF Held THEN <<ret>> \o push ELSE push

\* Sequences of any elements.
LEMMA TailLemma ==
  ASSUME NEW s, IsSeq(s), s # <<>>
  PROVE  /\ IsSeq(Tail(s)) /\ Len(s) \in Nat \ {0} /\ Len(Tail(s)) = Len(s) - 1
         /\ \A j \in 1..Len(Tail(s)) : Tail(s)[j] = s[j + 1] /\ j + 1 \in 2..Len(s)
         /\ Head(s) = s[1]
<1>1. /\ IsSeq(Tail(s)) /\ Len(Tail(s)) = Len(s) - 1 /\ Len(s) \in Nat \ {0}
      /\ \A j \in 1..Len(s) - 1 : Tail(s)[j] = s[j + 1]
  BY ReturnLemma
<1>2. Head(s) = s[1]
  BY DEF IsSeq
<1> QED BY <1>1, <1>2

\* One sequence after another.
LEMMA AfterLemma ==
  ASSUME NEW s, IsSeq(s), NEW t, IsSeq(t)
  PROVE  LET u == s \o t IN
         /\ IsSeq(u) /\ Len(u) = Len(s) + Len(t) /\ Len(s) \in Nat /\ Len(t) \in Nat
         /\ \A j \in 1..Len(u) : \/ j \in 1..Len(s) /\ u[j] = s[j]
                                 \/ j - Len(s) \in 1..Len(t) /\ u[j] = t[j - Len(s)]
<1> DEFINE S == Elements(s) \cup Elements(t)
<1> DEFINE u == s \o t
<1>1. s \in Seq(S) /\ t \in Seq(S)
  <2>1. s \in Seq(Elements(s)) /\ t \in Seq(Elements(t))
    BY DEF IsSeq
  <2> QED BY <2>1
<1> HIDE DEF S
<1>2. u \in Seq(S) /\ Len(u) = Len(s) + Len(t) /\ Len(s) \in Nat /\ Len(t) \in Nat
  BY <1>1
<1>3. \A j \in 1..Len(s) : u[j] = s[j]
  BY <1>1
<1>4. \A j \in Len(s) + 1..Len(s) + Len(t) : u[j] = t[j - Len(s)]
  BY <1>1
<1>5. IsSeq(u)
  BY <1>2, ElementsLemma
<1>6. \A j \in 1..Len(u) : j \in 1..Len(s) \/ (j \in Len(s) + 1..Len(s) + Len(t) /\ j - Len(s) \in 1..Len(t))
  BY <1>2
<1> QED BY <1>2, <1>3, <1>4, <1>5, <1>6

LEMMA SameSeq ==
  ASSUME NEW s, IsSeq(s), NEW t, IsSeq(t), Len(s) = Len(t), \A j \in 1..Len(s) : s[j] = t[j]
  PROVE  s = t
<1>1. s = [j \in 1..Len(s) |-> s[j]] /\ t = [j \in 1..Len(t) |-> t[j]]
  BY DEF IsSeq
<1> QED BY <1>1

LEMMA SplitLemma ==
  ASSUME NEW s, IsSeq(s), NEW n \in 1..Len(s)
  PROVE  LET t == SubSeq(s, 1, n)
             u == SubSeq(s, n + 1, Len(s)) IN
         IsSeq(t) /\ IsSeq(u) /\ t # <<>> /\ t \o u = s
<1> DEFINE S == Elements(s)
<1> DEFINE t == SubSeq(s, 1, n)
<1> DEFINE u == SubSeq(s, n + 1, Len(s))
<1>1. s \in Seq(S) /\ Len(s) \in Nat
  BY DEF IsSeq
<1> HIDE DEF S
<1>2. /\ t \in Seq(S) /\ Len(t) = n /\ \A j \in 1..n : t[j] = s[j]
      /\ u \in Seq(S) /\ Len(u) = Len(s) - n /\ \A j \in 1..Len(s) - n : u[j] = s[j + n]
  <2>1. (\A i \in 1..n : s[i] \in S) /\ (\A i \in n + 1..Len(s) : s[i] \in S)
    BY <1>1
  <2>2. t = [i \in 1..n |-> s[i]]
    BY <1>1
  <2>3. u = [i \in 1..Len(s) - n |-> s[i + n]]
    BY <1>1
  <2> HIDE DEF t, u
  <2>4. t \in Seq(S) /\ Len(t) = n /\ \A j \in 1..n : t[j] = s[j]
    <3>1. n \in Nat
      OBVIOUS
    <3> QED BY <2>1, <2>2, <3>1
  <2>5. u \in Seq(S) /\ Len(u) = Len(s) - n /\ \A j \in 1..Len(s) - n : u[j] = s[j + n]
    <3>1. Len(s) - n \in Nat /\ \A j \in 1..Len(s) - n : j + n \in n + 1..Len(s)
      BY <1>1
    <3>2. \A i \in 1..Len(s) - n : s[i + n] \in S
      BY <2>1, <3>1
    <3> DEFINE m == Len(s) - n
    <3> DEFINE e[i \in 1..m] == s[i + n]
    <3>3. u = e
      BY <2>3
    <3>4. e \in [1..m -> S] /\ m \in Nat /\ \A j \in 1..m : e[j] = s[j + n]
      BY <3>1, <3>2
    <3> HIDE DEF e, m
    <3>5. e \in Seq(S) /\ Len(e) = m
      BY <3>4
    <3> QED BY <3>3, <3>4, <3>5 DEF m
  <2> QED BY <2>4, <2>5
<1> HIDE DEF t, u
<1>3. IsSeq(t) /\ IsSeq(u) /\ t # <<>>
  <2>1. IsSeq(t) /\ IsSeq(u)
    BY <1>2, ElementsLemma
  <2>2. Len(t) # 0
    BY <1>2
  <2> QED BY <2>1, <2>2
<1>4. /\ IsSeq(t \o u) /\ Len(t \o u) = n + (Len(s) - n)
      /\ \A j \in 1..Len(t \o u) : \/ j \in 1..n /\ (t \o u)[j] = t[j]
                                   \/ j - n \in 1..Len(u) /\ (t \o u)[j] = u[j - n]
  BY <1>2, <1>3, AfterLemma
<1>5. ASSUME NEW j \in 1..Len(t \o u) PROVE (t \o u)[j] = s[j]
  <2>1. CASE j \in 1..n /\ (t \o u)[j] = t[j]
    BY <1>2, <2>1
  <2>2. CASE j - n \in 1..Len(u) /\ (t \o u)[j] = u[j - n]
    <3>1. u[j - n] = s[(j - n) + n] /\ (j - n) + n = j
      BY <1>2, <1>1, <2>2
    <3> QED BY <2>2, <3>1
  <2> QED BY <1>4, <2>1, <2>2
<1>6. Len(t \o u) = Len(s)
  BY <1>1, <1>4
<1>7. t \o u = s
  BY <1>1, <1>4, <1>5, <1>6, SameSeq, ElementsLemma
<1> QED BY <1>3, <1>7 DEF t, u

---------------------------------------------------------------------------
\* a comes before b, or b was put aside.
Apart(a, b, A) == a # b /\ (Before(a, b) \/ b \in A)

\* What was handed out, g, and the row of keys r that were read but not handed
\* out, are in order, but for keys with a place in A.
Ordered(g, r, A) ==
  /\ \A i, j \in 1..Len(g) : i < j => Apart(g[i], g[j], A)
  /\ \A i \in 1..Len(g) : \A j \in 1..Len(r) : r[j].s # 0 => Apart(g[i], Place(r[j]), A)
  /\ \A i, j \in 1..Len(r) : i < j /\ r[i].s # 0 /\ r[j].s # 0 => Apart(Place(r[i]), Place(r[j]), A)
\* What was taken from the line is before the place p of what was not.
AllBefore(g, r, p) ==
  /\ \A i \in 1..Len(g) : Before(g[i], p)
  /\ \A j \in 1..Len(r) : r[j].s # 0 => Before(Place(r[j]), p)
\* Keys that no caller typed.
NodeKeys(n) == IsSeq(n) /\ \A j \in 1..Len(n) : n[j].s = 0

\* The order survives when more keys are put aside, when node keys come first,
\* when the first key is thrown away or handed out, and when one is read.
LEMMA OrderedMore ==
  ASSUME NEW g, NEW r, NEW A, NEW B, A \subseteq B, Ordered(g, r, A)
  PROVE  Ordered(g, r, B)
<1>1. \A a, b : Apart(a, b, A) => Apart(a, b, B)
  BY DEF Apart
<1> QED BY <1>1 DEF Ordered

LEMMA OrderedPrefix ==
  ASSUME NEW g, NEW r, IsSeq(r), NEW A, NEW n, NodeKeys(n)
  PROVE  /\ Ordered(g, r, A) => Ordered(g, n \o r, A)
         /\ \A p : AllBefore(g, r, p) => AllBefore(g, n \o r, p)
<1> DEFINE t == n \o r
<1>1. /\ IsSeq(t) /\ Len(t) = Len(n) + Len(r) /\ Len(n) \in Nat /\ Len(r) \in Nat
      /\ \A j \in 1..Len(t) : \/ j \in 1..Len(n) /\ t[j] = n[j]
                              \/ j - Len(n) \in 1..Len(r) /\ t[j] = r[j - Len(n)]
  BY AfterLemma DEF NodeKeys
<1> HIDE DEF t
<1>2. \A j \in 1..Len(t) : t[j].s # 0 => j - Len(n) \in 1..Len(r) /\ t[j] = r[j - Len(n)]
  BY <1>1 DEF NodeKeys
<1>3. ASSUME Ordered(g, r, A) PROVE Ordered(g, t, A)
  <2>1. \A i \in 1..Len(g) : \A j \in 1..Len(t) : t[j].s # 0 => Apart(g[i], Place(t[j]), A)
    BY <1>2, <1>3 DEF Ordered
  <2>2. ASSUME NEW i \in 1..Len(t), NEW j \in 1..Len(t), i < j, t[i].s # 0, t[j].s # 0
        PROVE  Apart(Place(t[i]), Place(t[j]), A)
    <3>1. /\ i - Len(n) \in 1..Len(r) /\ t[i] = r[i - Len(n)]
          /\ j - Len(n) \in 1..Len(r) /\ t[j] = r[j - Len(n)]
      BY <1>2, <2>2
    <3>2. i - Len(n) < j - Len(n)
      BY <1>1, <2>2
    <3> QED BY <1>3, <2>2, <3>1, <3>2 DEF Ordered
  <2> QED BY <1>3, <2>1, <2>2 DEF Ordered
<1>4. ASSUME NEW p, AllBefore(g, r, p) PROVE AllBefore(g, t, p)
  BY <1>2, <1>4 DEF AllBefore
<1> QED BY <1>3, <1>4 DEF t

LEMMA OrderedTail ==
  ASSUME NEW g, NEW r, IsSeq(r), r # <<>>, NEW A
  PROVE  /\ Ordered(g, r, A) => Ordered(g, Tail(r), A)
         /\ \A p : AllBefore(g, r, p) => AllBefore(g, Tail(r), p)
<1> DEFINE t == Tail(r)
<1>1. /\ IsSeq(t) /\ Len(r) \in Nat \ {0} /\ Len(t) = Len(r) - 1
      /\ \A j \in 1..Len(t) : t[j] = r[j + 1] /\ j + 1 \in 2..Len(r)
  BY TailLemma
<1> HIDE DEF t
<1>2. \A j \in 1..Len(t) : t[j] = r[j + 1] /\ j + 1 \in 1..Len(r)
  BY <1>1
<1>3. ASSUME Ordered(g, r, A) PROVE Ordered(g, t, A)
  <2>1. \A i \in 1..Len(g) : \A j \in 1..Len(t) : t[j].s # 0 => Apart(g[i], Place(t[j]), A)
    BY <1>2, <1>3 DEF Ordered
  <2>2. ASSUME NEW i \in 1..Len(t), NEW j \in 1..Len(t), i < j, t[i].s # 0, t[j].s # 0
        PROVE  Apart(Place(t[i]), Place(t[j]), A)
    <3>1. i + 1 < j + 1
      BY <2>2
    <3> QED BY <1>2, <1>3, <2>2, <3>1 DEF Ordered
  <2> QED BY <1>3, <2>1, <2>2 DEF Ordered
<1>4. ASSUME NEW p, AllBefore(g, r, p) PROVE AllBefore(g, t, p)
  BY <1>2, <1>4 DEF AllBefore
<1> QED BY <1>3, <1>4 DEF t

\* One more element at the end.
LEMMA AppendLemma ==
  ASSUME NEW T, NEW g \in Seq(T), NEW p
  PROVE  LET h == Append(g, p) IN
         /\ Len(h) = Len(g) + 1 /\ Len(g) \in Nat
         /\ \A j \in 1..Len(h) : (j \in 1..Len(g) /\ h[j] = g[j]) \/ (j = Len(g) + 1 /\ h[j] = p)
<1>1. g \in Seq(T \cup {p})
  OBVIOUS
<1>2. /\ Len(Append(g, p)) = Len(g) + 1 /\ Len(g) \in Nat /\ Append(g, p)[Len(g) + 1] = p
      /\ \A j \in 1..Len(g) : Append(g, p)[j] = g[j]
  BY <1>1
<1>3. \A j \in 1..Len(g) + 1 : j \in 1..Len(g) \/ j = Len(g) + 1
  BY <1>2
<1> QED BY <1>2, <1>3

\* The first of the row is handed out.
LEMMA OrderedTake ==
  ASSUME NEW T, NEW g \in Seq(T), NEW r, IsSeq(r), r # <<>>, r[1].s # 0, NEW A
  PROVE  LET h == Append(g, Place(r[1])) IN
         /\ Ordered(g, r, A) => Ordered(h, Tail(r), A)
         /\ \A p : AllBefore(g, r, p) => AllBefore(h, Tail(r), p)
<1> DEFINE t == Tail(r)
<1> DEFINE h == Append(g, Place(r[1]))
<1>1. /\ IsSeq(t) /\ Len(r) \in Nat \ {0} /\ Len(t) = Len(r) - 1
      /\ \A j \in 1..Len(t) : t[j] = r[j + 1] /\ j + 1 \in 2..Len(r)
  BY TailLemma
<1>2. /\ Len(h) = Len(g) + 1 /\ Len(g) \in Nat
      /\ \A j \in 1..Len(h) : (j \in 1..Len(g) /\ h[j] = g[j]) \/ (j = Len(g) + 1 /\ h[j] = Place(r[1]))
  BY AppendLemma
<1> HIDE DEF t, h
<1>3. /\ \A j \in 1..Len(t) : t[j] = r[j + 1] /\ j + 1 \in 1..Len(r) /\ 1 < j + 1
      /\ 1 \in 1..Len(r)
  BY <1>1
<1>4. ASSUME Ordered(g, r, A) PROVE Ordered(h, t, A)
  <2>1. ASSUME NEW i \in 1..Len(h), NEW j \in 1..Len(h), i < j PROVE Apart(h[i], h[j], A)
    <3>1. i \in 1..Len(g) /\ h[i] = g[i]
      BY <1>2, <2>1
    <3>2. CASE j \in 1..Len(g) /\ h[j] = g[j]
      BY <1>4, <2>1, <3>1, <3>2 DEF Ordered
    <3>3. CASE h[j] = Place(r[1])
      BY <1>3, <1>4, <3>1, <3>3 DEF Ordered
    <3> QED BY <1>2, <3>2, <3>3
  <2>2. ASSUME NEW i \in 1..Len(h), NEW j \in 1..Len(t), t[j].s # 0 PROVE Apart(h[i], Place(t[j]), A)
    <3>1. CASE i \in 1..Len(g) /\ h[i] = g[i]
      BY <1>3, <1>4, <2>2, <3>1 DEF Ordered
    <3>2. CASE h[i] = Place(r[1])
      BY <1>3, <1>4, <2>2, <3>2 DEF Ordered
    <3> QED BY <1>2, <3>1, <3>2
  <2>3. \A i, j \in 1..Len(t) : i < j /\ t[i].s # 0 /\ t[j].s # 0 => Apart(Place(t[i]), Place(t[j]), A)
    <3>1. Ordered(g, t, A)
      BY <1>4, OrderedTail DEF t
    <3> QED BY <3>1 DEF Ordered
  <2> QED BY <2>1, <2>2, <2>3 DEF Ordered
<1>5. ASSUME NEW p, AllBefore(g, r, p) PROVE AllBefore(h, t, p)
  <2>1. \A i \in 1..Len(h) : Before(h[i], p)
    BY <1>2, <1>3, <1>5 DEF AllBefore
  <2> QED BY <1>3, <1>5, <2>1 DEF AllBefore
<1> QED BY <1>4, <1>5 DEF t, h

\* A byte is read: it passes only what was put aside.
LEMMA OrderedRead ==
  ASSUME NEW T, NEW g \in Seq(T), NEW r, IsSeq(r), NEW A, NEW k, k.s # 0,
         Ordered(g, r, A),
         \A i \in 1..Len(g) : g[i] # Place(k) /\ Before(g[i], Place(k)),
         \A j \in 1..Len(r) : r[j].s # 0 => Place(r[j]) # Place(k) /\ Place(r[j]) \in A
  PROVE  /\ Ordered(g, <<k>> \o r, A)
         /\ Ordered(Append(g, Place(k)), r, A)
<1> DEFINE t == <<k>> \o r
<1> DEFINE h == Append(g, Place(k))
<1>1. /\ IsSeq(t) /\ Len(t) = Len(r) + 1 /\ Len(r) \in Nat /\ t[1] = k
      /\ \A j \in 2..Len(t) : t[j] = r[j - 1]
  BY PushLemma
<1>2. /\ Len(h) = Len(g) + 1 /\ Len(g) \in Nat
      /\ \A j \in 1..Len(h) : (j \in 1..Len(g) /\ h[j] = g[j]) \/ (j = Len(g) + 1 /\ h[j] = Place(k))
  BY AppendLemma
<1> HIDE DEF t, h
<1>3. \A j \in 1..Len(t) : (j = 1 /\ t[j] = k) \/ (1 < j /\ j - 1 \in 1..Len(r) /\ t[j] = r[j - 1])
  BY <1>1
<1>4. Ordered(g, t, A)
  <2>1. ASSUME NEW i \in 1..Len(g), NEW j \in 1..Len(t), t[j].s # 0 PROVE Apart(g[i], Place(t[j]), A)
    <3>1. CASE t[j] = k
      BY <3>1 DEF Apart
    <3>2. CASE j - 1 \in 1..Len(r) /\ t[j] = r[j - 1]
      BY <2>1, <3>2 DEF Ordered
    <3> QED BY <1>3, <3>1, <3>2
  <2>2. ASSUME NEW i \in 1..Len(t), NEW j \in 1..Len(t), i < j, t[i].s # 0, t[j].s # 0
        PROVE  Apart(Place(t[i]), Place(t[j]), A)
    <3>1. 1 < j /\ j - 1 \in 1..Len(r) /\ t[j] = r[j - 1]
      BY <1>3, <2>2
    <3>2. CASE t[i] = k
      BY <2>2, <3>1, <3>2 DEF Apart
    <3>3. CASE i - 1 \in 1..Len(r) /\ t[i] = r[i - 1]
      <4>1. i - 1 < j - 1
        BY <2>2
      <4> QED BY <2>2, <3>1, <3>3, <4>1 DEF Ordered
    <3> QED BY <1>3, <3>2, <3>3
  <2> QED BY <2>1, <2>2 DEF Ordered
<1>5. Ordered(h, r, A)
  <2>1. ASSUME NEW i \in 1..Len(h), NEW j \in 1..Len(h), i < j PROVE Apart(h[i], h[j], A)
    <3>1. i \in 1..Len(g) /\ h[i] = g[i]
      BY <1>2, <2>1
    <3>2. CASE j \in 1..Len(g) /\ h[j] = g[j]
      BY <2>1, <3>1, <3>2 DEF Ordered
    <3>3. CASE h[j] = Place(k)
      BY <3>1, <3>3 DEF Apart
    <3> QED BY <1>2, <3>2, <3>3
  <2>2. ASSUME NEW i \in 1..Len(h), NEW j \in 1..Len(r), r[j].s # 0 PROVE Apart(h[i], Place(r[j]), A)
    <3>1. CASE i \in 1..Len(g) /\ h[i] = g[i]
      BY <2>2, <3>1 DEF Ordered
    <3>2. CASE h[i] = Place(k)
      BY <2>2, <3>2 DEF Apart
    <3> QED BY <1>2, <3>1, <3>2
  <2> QED BY <2>1, <2>2 DEF Ordered
<1> QED BY <1>4, <1>5 DEF t, h

LEMMA BeforeMore ==
  ASSUME NEW T, NEW g \in Seq(T), NEW r, IsSeq(r), NEW k, NEW p, AllBefore(g, r, p),
         k.s # 0 => Before(Place(k), p)
  PROVE  /\ AllBefore(g, <<k>> \o r, p)
         /\ k.s # 0 => AllBefore(Append(g, Place(k)), r, p)
<1> DEFINE t == <<k>> \o r
<1> DEFINE h == Append(g, Place(k))
<1>1. /\ IsSeq(t) /\ Len(t) = Len(r) + 1 /\ Len(r) \in Nat /\ t[1] = k
      /\ \A j \in 2..Len(t) : t[j] = r[j - 1]
  BY PushLemma
<1>2. /\ Len(h) = Len(g) + 1 /\ Len(g) \in Nat
      /\ \A j \in 1..Len(h) : (j \in 1..Len(g) /\ h[j] = g[j]) \/ (j = Len(g) + 1 /\ h[j] = Place(k))
  BY AppendLemma
<1> HIDE DEF t, h
<1>3. \A j \in 1..Len(t) : t[j] = k \/ (j - 1 \in 1..Len(r) /\ t[j] = r[j - 1])
  BY <1>1
<1>4. AllBefore(g, t, p)
  BY <1>3 DEF AllBefore
<1>5. k.s # 0 => AllBefore(h, r, p)
  BY <1>2 DEF AllBefore
<1> QED BY <1>4, <1>5 DEF t, h

---------------------------------------------------------------------------
(* What is on its way. *)

LEMMA EmptyCat ==
  ASSUME NEW t, IsSeq(t)
  PROVE  <<>> \o t = t
<1> DEFINE S == Elements(t)
<1>1. t \in Seq(S)
  BY DEF IsSeq
<1> HIDE DEF S
<1> QED BY <1>1

LEMMA TailCat ==
  ASSUME NEW s, IsSeq(s), s # <<>>, NEW t, IsSeq(t)
  PROVE  /\ Tail(s) \o t = Tail(s \o t) /\ IsSeq(s \o t) /\ s \o t # <<>>
         /\ Head(s) = (s \o t)[1] /\ Head(s) = s[1]
<1> DEFINE u == s \o t
<1> DEFINE r == Tail(s)
<1>1. /\ IsSeq(u) /\ Len(u) = Len(s) + Len(t) /\ Len(s) \in Nat /\ Len(t) \in Nat
      /\ \A j \in 1..Len(u) : \/ j \in 1..Len(s) /\ u[j] = s[j]
                              \/ j - Len(s) \in 1..Len(t) /\ u[j] = t[j - Len(s)]
  BY AfterLemma
<1>2. /\ IsSeq(r) /\ Len(s) \in Nat \ {0} /\ Len(r) = Len(s) - 1 /\ Head(s) = s[1]
      /\ \A j \in 1..Len(r) : r[j] = s[j + 1] /\ j + 1 \in 2..Len(s)
  BY TailLemma
<1> DEFINE v == r \o t
<1>3. /\ IsSeq(v) /\ Len(v) = Len(r) + Len(t)
      /\ \A j \in 1..Len(v) : \/ j \in 1..Len(r) /\ v[j] = r[j]
                              \/ j - Len(r) \in 1..Len(t) /\ v[j] = t[j - Len(r)]
  BY <1>2, AfterLemma
<1> HIDE DEF u, v, r
<1>4. u # <<>>
  <2>1. Len(u) # 0
    BY <1>1, <1>2
  <2> QED BY <2>1
<1> DEFINE x == Tail(u)
<1>5. /\ IsSeq(x) /\ Len(x) = Len(u) - 1
      /\ \A j \in 1..Len(x) : x[j] = u[j + 1] /\ j + 1 \in 2..Len(u)
  BY <1>1, <1>4, TailLemma
<1> HIDE DEF x
<1>6. Len(x) = Len(v)
  BY <1>1, <1>2, <1>3, <1>5
<1>7. ASSUME NEW j \in 1..Len(v) PROVE v[j] = x[j]
  <2>1. x[j] = u[j + 1] /\ j + 1 \in 1..Len(u)
    BY <1>1, <1>2, <1>5, <1>6
  <2>2. CASE j \in 1..Len(r) /\ v[j] = r[j]
    <3>1. j + 1 \in 1..Len(s) /\ ~(j + 1 - Len(s) \in 1..Len(t)) /\ v[j] = s[j + 1]
      BY <1>2, <2>2
    <3> QED BY <1>1, <2>1, <3>1
  <2>3. CASE j - Len(r) \in 1..Len(t) /\ v[j] = t[j - Len(r)]
    <3>1. j - Len(r) = (j + 1) - Len(s) /\ ~(j + 1 \in 1..Len(s))
      BY <1>2, <2>3
    <3> QED BY <1>1, <2>1, <2>3, <3>1
  <2> QED BY <1>3, <2>2, <2>3
<1>8. v = x
  BY <1>3, <1>5, <1>6, <1>7, SameSeq
<1>9. u[1] = s[1]
  BY <1>1, <1>2
<1> QED BY <1>1, <1>2, <1>4, <1>8, <1>9 DEF u, v, x, r

LEMMA CatCat ==
  ASSUME NEW s, IsSeq(s), NEW t, IsSeq(t), NEW u, IsSeq(u), NEW v, v = s \o t, NEW w, w = t \o u
  PROVE  v \o u = s \o w
<1> DEFINE S == Elements(s) \cup Elements(t) \cup Elements(u)
<1>1. s \in Seq(S) /\ t \in Seq(S) /\ u \in Seq(S)
  <2>1. s \in Seq(Elements(s)) /\ t \in Seq(Elements(t)) /\ u \in Seq(Elements(u))
    BY DEF IsSeq
  <2> QED BY <2>1
<1> HIDE DEF S
<1> QED BY <1>1

---------------------------------------------------------------------------
\* Bytes of what was typed, w; the byte b follows the byte a in it; and a line l
\* holds the last bytes of it, all of them.
OfTyped(s, i, w) == s \in 1..Len(w) /\ i \in 1..Len(w[s])
ByteOk(b, w) == OfTyped(b.s, b.i, w) /\ b.c = w[b.s][b.i]
Follows(b, a, w) == (b.s = a.s /\ b.i = a.i + 1) \/ (b.s = a.s + 1 /\ b.i = 1 /\ a.i = Len(w[a.s]))
Formed(l, w) ==
  /\ \A j \in 1..Len(l) : ByteOk(l[j], w)
  /\ \A j \in 1..Len(l) - 1 : Follows(l[j + 1], l[j], w)
  /\ \A j, k \in 1..Len(l) : j < k => Before(Place(l[j]), Place(l[k]))
  /\ l # <<>> => l[Len(l)].s = Len(w) /\ l[Len(l)].i = Len(w[Len(w)])
\* The codes of a stroke.
Strings == Seq(STRING) \ {<<>>}

\* A line stays one when a byte is taken from it, and when a stroke is typed.
LEMMA FormedTail ==
  ASSUME NEW l, IsSeq(l), l # <<>>, NEW w, Formed(l, w)
  PROVE  Formed(Tail(l), w) /\ IsSeq(Tail(l))
<1> DEFINE t == Tail(l)
<1>1. /\ IsSeq(t) /\ Len(l) \in Nat \ {0} /\ Len(t) = Len(l) - 1
      /\ \A j \in 1..Len(t) : t[j] = l[j + 1] /\ j + 1 \in 2..Len(l)
  BY TailLemma
<1> HIDE DEF t
<1>2. \A j \in 1..Len(t) : t[j] = l[j + 1] /\ j + 1 \in 1..Len(l)
  BY <1>1
<1>3. \A j \in 1..Len(t) : ByteOk(t[j], w)
  BY <1>2 DEF Formed
<1>4. ASSUME NEW j \in 1..Len(t) - 1 PROVE Follows(t[j + 1], t[j], w)
  <2>1. j \in 1..Len(t) /\ j + 1 \in 1..Len(t) /\ j + 1 \in 1..Len(l) - 1
    BY <1>1
  <2>2. t[j] = l[j + 1] /\ t[j + 1] = l[(j + 1) + 1]
    BY <1>2, <2>1
  <2> QED BY <2>1, <2>2 DEF Formed
<1>5. ASSUME NEW j \in 1..Len(t), NEW k \in 1..Len(t), j < k
      PROVE  Before(Place(t[j]), Place(t[k]))
  <2>1. j + 1 < k + 1
    BY <1>5
  <2> QED BY <1>2, <2>1 DEF Formed
<1>6. ASSUME t # <<>> PROVE t[Len(t)] = l[Len(l)]
  <2>1. Len(t) # 0
    BY <1>1, <1>6 DEF IsSeq
  <2>2. Len(t) \in 1..Len(t) /\ Len(t) + 1 = Len(l)
    BY <1>1, <2>1
  <2> QED BY <1>2, <2>2
<1>7. Formed(t, w)
  BY <1>3, <1>4, <1>5, <1>6 DEF Formed
<1> QED BY <1>1, <1>7 DEF t

LEMMA BytesLemma ==
  ASSUME NEW code \in Strings, NEW n
  PROVE  LET b == Bytes(code, n) IN
         /\ IsSeq(b) /\ Len(b) = Len(code) /\ Len(b) \in Nat \ {0}
         /\ \A i \in 1..Len(b) : b[i].c = code[i] /\ b[i].s = n /\ b[i].i = i
<1> DEFINE b == Bytes(code, n)
<1>1. code \in Seq(STRING) /\ Len(code) \in Nat \ {0}
  BY DEF Strings
<1> DEFINE f == [i \in 1..Len(code) |-> [c |-> code[i], s |-> n, i |-> i]]
<1> DEFINE S == {f[i] : i \in 1..Len(code)}
<1>2. f \in [1..Len(code) -> S]
  OBVIOUS
<1>3. b = f
  BY DEF Bytes
<1>4. \A i \in 1..Len(code) : f[i].c = code[i] /\ f[i].s = n /\ f[i].i = i
  OBVIOUS
<1> HIDE DEF f, S, b
<1>5. f \in Seq(S) /\ Len(f) = Len(code)
  BY <1>1, <1>2
<1>6. IsSeq(f)
  BY <1>5, ElementsLemma
<1> QED BY <1>1, <1>3, <1>4, <1>5, <1>6 DEF b

LEMMA TypedMore ==
  ASSUME NEW T, NEW w \in Seq(T), NEW code, NEW v, v = Append(w, code)
  PROVE  /\ Len(v) = Len(w) + 1 /\ Len(w) \in Nat /\ v[Len(w) + 1] = code
         /\ \A s \in 1..Len(w) : v[s] = w[s] /\ s \in 1..Len(v)
<1>1. /\ Len(v) = Len(w) + 1 /\ Len(w) \in Nat
      /\ \A j \in 1..Len(v) : (j \in 1..Len(w) /\ v[j] = w[j]) \/ (j = Len(w) + 1 /\ v[j] = code)
  BY AppendLemma
<1>2. \A s \in 1..Len(w) : v[s] = w[s] /\ s \in 1..Len(v)
  BY ONLY <1>1
<1>3. v[Len(w) + 1] = code
  BY ONLY <1>1
<1> QED BY ONLY <1>1, <1>2, <1>3

LEMMA FormedMore ==
  ASSUME NEW l, IsSeq(l), NEW T, NEW w \in Seq(T), Formed(l, w), NEW code \in Strings,
         l = <<>> \/ w # <<>>
  PROVE  LET m == l \o Bytes(code, Len(w) + 1)
             v == Append(w, code) IN
         IsSeq(m) /\ m # <<>> /\ Formed(m, v)
<1> DEFINE b == Bytes(code, Len(w) + 1)
<1> DEFINE m == l \o b
<1> DEFINE v == Append(w, code)
<1>1. /\ IsSeq(b) /\ Len(b) = Len(code) /\ Len(b) \in Nat \ {0}
      /\ \A i \in 1..Len(b) : b[i].c = code[i] /\ b[i].s = Len(w) + 1 /\ b[i].i = i
  BY BytesLemma
<1>2. /\ Len(v) = Len(w) + 1 /\ Len(w) \in Nat /\ v[Len(w) + 1] = code
      /\ \A s \in 1..Len(w) : v[s] = w[s] /\ s \in 1..Len(v)
  <2>1. v = Append(w, code)
    OBVIOUS
  <2> HIDE DEF v
  <2> QED BY ONLY <2>1, w \in Seq(T), TypedMore
<1>3. /\ IsSeq(m) /\ Len(m) = Len(l) + Len(b) /\ Len(l) \in Nat
      /\ \A j \in 1..Len(m) : \/ j \in 1..Len(l) /\ m[j] = l[j]
                              \/ j - Len(l) \in 1..Len(b) /\ m[j] = b[j - Len(l)]
  <2>1. m = l \o b /\ IsSeq(l) /\ IsSeq(b)
    BY <1>1
  <2> HIDE DEF b, m, v
  <2> QED BY ONLY <2>1, AfterLemma
<1> HIDE DEF b, m, v
<1>4. m # <<>>
  <2>1. Len(m) # 0
    BY <1>1, <1>3
  <2> QED BY <2>1
<1>5. ASSUME NEW i \in 1..Len(b) PROVE ByteOk(b[i], v)
  BY <1>1, <1>2 DEF ByteOk, OfTyped
<1>6. ASSUME NEW j \in 1..Len(m) PROVE ByteOk(m[j], v)
  <2>1. CASE j \in 1..Len(l) /\ m[j] = l[j]
    BY <1>2, <2>1 DEF Formed, ByteOk, OfTyped
  <2>2. CASE j - Len(l) \in 1..Len(b) /\ m[j] = b[j - Len(l)]
    BY <1>5, <2>2
  <2> QED BY <1>3, <2>1, <2>2
<1>7. ASSUME NEW j \in 1..Len(m) - 1 PROVE Follows(m[j + 1], m[j], v)
  <2>1. j \in 1..Len(m) /\ j + 1 \in 1..Len(m)
    BY <1>3, <1>1
  <2>2. CASE j + 1 \in 1..Len(l)
    <3>1. j \in 1..Len(l) - 1 /\ j \in 1..Len(l)
      BY <1>3, <2>2
    <3>2. m[j] = l[j] /\ m[j + 1] = l[j + 1]
      BY <1>1, <1>3, <2>1, <2>2, <3>1
    <3>3. Follows(l[j + 1], l[j], w) /\ l[j].s \in 1..Len(w)
      BY <3>1 DEF Formed, ByteOk, OfTyped
    <3> QED BY <1>2, <3>2, <3>3 DEF Follows
  <2>3. CASE j + 1 = Len(l) + 1
    <3>1. j = Len(l) /\ j \in 1..Len(l) /\ l # <<>>
      BY <1>3, <2>3, <2>1
    <3>2. m[j] = l[Len(l)] /\ m[j + 1] = b[1] /\ 1 \in 1..Len(b)
      BY <1>1, <1>3, <2>1, <2>3, <3>1
    <3>3. l[Len(l)].s = Len(w) /\ l[Len(l)].i = Len(w[Len(w)]) /\ Len(w) \in 1..Len(w)
      BY <3>1 DEF Formed, ByteOk, OfTyped
    <3> QED BY <1>1, <1>2, <3>2, <3>3 DEF Follows
  <2>4. CASE j + 1 > Len(l) + 1
    <3>1. j - Len(l) \in 1..Len(b) /\ (j + 1) - Len(l) \in 1..Len(b) /\ (j + 1) - Len(l) = (j - Len(l)) + 1
      BY <1>1, <1>3, <2>1, <2>4
    <3>2. m[j] = b[j - Len(l)] /\ m[j + 1] = b[(j + 1) - Len(l)]
      BY <1>1, <1>3, <2>1, <2>4
    <3> QED BY <1>1, <3>1, <3>2 DEF Follows
  <2> QED BY <1>3, <2>1, <2>2, <2>3, <2>4
<1>8. ASSUME NEW j \in 1..Len(m), NEW k \in 1..Len(m), j < k
      PROVE  Before(Place(m[j]), Place(m[k]))
  <2>1. CASE k \in 1..Len(l) /\ m[k] = l[k]
    <3>1. j \in 1..Len(l) /\ m[j] = l[j]
      BY <1>1, <1>3, <1>8, <2>1
    <3> QED BY <1>8, <2>1, <3>1 DEF Formed
  <2>2. CASE k - Len(l) \in 1..Len(b) /\ m[k] = b[k - Len(l)]
    <3>1. CASE j \in 1..Len(l) /\ m[j] = l[j]
      <4>1. m[j].s \in 1..Len(w) /\ m[k].s = Len(w) + 1
        BY <1>1, <2>2, <3>1 DEF Formed, ByteOk, OfTyped
      <4>2. m[j].s < m[k].s
        BY <1>2, <4>1
      <4> QED BY <4>2 DEF Before, Place
    <3>2. CASE j - Len(l) \in 1..Len(b) /\ m[j] = b[j - Len(l)]
      <4>1. j - Len(l) < k - Len(l)
        BY <1>3, <1>8
      <4>2. m[j].s = m[k].s /\ m[j].i < m[k].i
        BY <1>1, <2>2, <3>2, <4>1
      <4> QED BY <4>2 DEF Before, Place
    <3> QED BY <1>3, <3>1, <3>2
  <2> QED BY <1>3, <2>1, <2>2
<1>9. m[Len(m)].s = Len(v) /\ m[Len(m)].i = Len(v[Len(v)])
  <2>1. Len(m) \in 1..Len(m) /\ ~(Len(m) \in 1..Len(l)) /\ Len(m) - Len(l) = Len(b) /\ Len(b) \in 1..Len(b)
    BY <1>1, <1>3
  <2>2. m[Len(m)] = b[Len(b)]
    BY <1>3, <2>1
  <2> QED BY <1>1, <1>2, <2>1, <2>2
<1>10. Formed(m, v)
  BY <1>6, <1>7, <1>8, <1>9 DEF Formed
<1> QED BY <1>3, <1>4, <1>10 DEF b, m, v

\* What is on its way to the session is the end of what was typed.
FlowInv ==
  /\ kind \in Kinds /\ typed \in Seq(Strokes[kind])
  /\ IsSeq(rbuf) /\ IsSeq(wire)
  /\ Formed(LineOf, typed)

\* A byte is taken from the line.
Shorter == LineOf # <<>> /\ LineOf' = Tail(LineOf)

\* What each step of the stream does to the line.
LEMMA FlowSame ==
  ASSUME FlowInv, UNCHANGED <<kind, typed, rbuf, wire>>
  PROVE  FlowInv' /\ LineOf' = LineOf
BY DEF FlowInv, LineOf

LEMMA LineSeq ==
  ASSUME FlowInv
  PROVE  IsSeq(LineOf) /\ Len(LineOf) \in Nat /\ (rbuf = <<>> => LineOf = wire)
BY AfterLemma, EmptyCat DEF FlowInv, LineOf

LEMMA FillLine ==
  ASSUME FlowInv, Fill
  PROVE  LineOf' = LineOf /\ IsSeq(rbuf') /\ IsSeq(wire')
<1>1. PICK n \in 1..Len(wire) : rbuf' = SubSeq(wire, 1, n) /\ wire' = SubSeq(wire, n + 1, Len(wire))
  BY DEF Fill
<1>2. IsSeq(wire) /\ rbuf = <<>>
  BY DEF FlowInv, Fill
<1>3. IsSeq(rbuf') /\ IsSeq(wire') /\ rbuf' \o wire' = wire
  BY <1>1, <1>2, SplitLemma
<1>4. LineOf = wire
  BY <1>2, LineSeq
<1> QED BY <1>3, <1>4 DEF LineOf

LEMMA PumpLine ==
  ASSUME FlowInv, PumpLoop
  PROVE  LineOf' = LineOf /\ IsSeq(rbuf') /\ IsSeq(wire')
<1>0. IsSeq(wire) /\ IsSeq(rbuf)
  BY DEF FlowInv
<1>1. CASE UNCHANGED <<wire, rbuf>>
  BY <1>0, <1>1 DEF LineOf
<1>2. CASE ~UNCHANGED <<wire, rbuf>>
  <2>1. PICK n \in 1..Len(wire) :
          rbuf' = rbuf \o SubSeq(wire, 1, n) /\ wire' = SubSeq(wire, n + 1, Len(wire))
    BY <1>2 DEF PumpLoop
  <2> DEFINE t == SubSeq(wire, 1, n)
  <2>2. IsSeq(t) /\ IsSeq(wire') /\ t \o wire' = wire
    BY <1>0, <2>1, SplitLemma
  <2>3. rbuf' = rbuf \o t
    BY <2>1
  <2> HIDE DEF t
  <2>4. IsSeq(rbuf')
    BY <1>0, <2>2, <2>3, AfterLemma
  <2>5. wire = t \o wire'
    BY <2>2
  <2>6. \A a, b : a = rbuf \o t /\ IsSeq(b) /\ wire = t \o b => a \o b = rbuf \o wire
    BY ONLY <1>0, <2>2, CatCat
  <2>7. rbuf' \o wire' = rbuf \o wire
    BY <2>2, <2>3, <2>5, <2>6
  <2> QED BY <2>2, <2>4, <2>7 DEF LineOf
<1> QED BY <1>1, <1>2

LEMMA ByteTaken ==
  ASSUME FlowInv, rbuf # <<>>
  PROVE  /\ Head(rbuf) = LineOf[1] /\ LineOf # <<>> /\ IsSeq(Tail(rbuf))
         /\ Tail(rbuf) \o wire = Tail(LineOf)
BY TailCat, TailLemma DEF FlowInv, LineOf

LEMMA TailLine ==
  ASSUME FlowInv, rbuf # <<>>, rbuf' = Tail(rbuf), wire' = wire
  PROVE  Shorter /\ Head(rbuf) = LineOf[1] /\ IsSeq(rbuf') /\ IsSeq(wire')
BY ByteTaken DEF FlowInv, LineOf, Shorter

\* A key is taken, and an end of line behind it.
TwoShorter == LineOf # <<>> /\ Tail(LineOf) # <<>> /\ LineOf' = Tail(Tail(LineOf)) /\ LineOf[2] = rbuf[2]

LEMMA YieldLine ==
  ASSUME FlowInv, Yield
  PROVE  /\ rbuf # <<>> /\ Head(rbuf) = LineOf[1] /\ IsSeq(rbuf') /\ IsSeq(wire')
         /\ \/ Shorter /\ ~(IsData(LineOf[1]) /\ LineOf[1].c = "CR" /\ Len(rbuf) > 1 /\ rbuf[2].c \in Mates)
            \/ TwoShorter /\ IsData(LineOf[1]) /\ LineOf[1].c = "CR" /\ rbuf[2].c \in Mates
<1>1. rbuf # <<>> /\ rbuf' = Rest /\ wire' = wire /\ IsSeq(rbuf) /\ IsSeq(wire)
  BY DEF Yield, Yields, FlowInv
<1>2. Head(rbuf) = LineOf[1] /\ LineOf # <<>> /\ IsSeq(Tail(rbuf)) /\ Tail(rbuf) \o wire = Tail(LineOf)
  BY <1>1, ByteTaken
<1>3. CASE IsData(Head(rbuf)) /\ Head(rbuf).c = "CR" /\ Len(rbuf) > 1 /\ rbuf[2].c \in Mates
  <2> DEFINE t == Tail(rbuf)
  <2>1. IsSeq(t) /\ Len(t) = Len(rbuf) - 1 /\ Len(rbuf) \in Nat /\ \A j \in 1..Len(t) : t[j] = rbuf[j + 1]
    BY <1>1, TailLemma
  <2>2. rbuf' = Tail(t) /\ t \o wire = Tail(LineOf)
    BY <1>1, <1>2, <1>3 DEF Rest
  <2> HIDE DEF t
  <2>3. t # <<>> /\ t[1] = rbuf[2]
    <3>1. Len(t) # 0 /\ 1 \in 1..Len(t)
      BY <1>3, <2>1
    <3> QED BY <2>1, <3>1
  <2>4. /\ Tail(t) \o wire = Tail(t \o wire) /\ t \o wire # <<>> /\ Head(t) = (t \o wire)[1] /\ Head(t) = t[1]
    BY <1>1, <2>1, <2>3, TailCat
  <2>5. IsSeq(Tail(t))
    BY <2>1, <2>3, TailLemma
  <2>6. Tail(LineOf)[1] = LineOf[2]
    <3>1. IsSeq(LineOf) /\ LineOf # <<>>
      BY <1>2, LineSeq
    <3>2. /\ IsSeq(Tail(LineOf)) /\ \A j \in 1..Len(Tail(LineOf)) : Tail(LineOf)[j] = LineOf[j + 1]
      BY <3>1, TailLemma
    <3>3. Tail(LineOf) # <<>>
      BY <2>2, <2>4
    <3>4. 1 \in 1..Len(Tail(LineOf))
      BY <3>2, <3>3 DEF IsSeq
    <3> QED BY <3>2, <3>4
  <2>7. TwoShorter
    BY <1>1, <1>2, <2>2, <2>3, <2>4, <2>6 DEF TwoShorter, LineOf
  <2> QED BY <1>1, <1>2, <1>3, <2>2, <2>5, <2>7
<1>4. CASE ~(IsData(Head(rbuf)) /\ Head(rbuf).c = "CR" /\ Len(rbuf) > 1 /\ rbuf[2].c \in Mates)
  <2>1. rbuf' = Tail(rbuf)
    BY <1>1, <1>4 DEF Rest
  <2>2. Shorter /\ IsSeq(rbuf') /\ IsSeq(wire')
    BY <1>1, <2>1, TailLine
  <2> QED BY <1>1, <1>2, <1>4, <2>2
<1> QED BY <1>3, <1>4

LEMMA TypeLine ==
  ASSUME FlowInv, Type
  PROVE  \E code \in Strokes[kind] :
           /\ code \in Strings /\ typed' = Append(typed, code)
           /\ LineOf' = LineOf \o Bytes(code, Len(typed) + 1) /\ IsSeq(wire')
<1>1. PICK code \in Strokes[kind] :
        typed' = Append(typed, code) /\ wire' = wire \o Bytes(code, Len(typed) + 1)
  BY DEF Type
<1>2. code \in Strings
  BY <1>1, StreamsAssumption DEF FlowInv, Strings
<1> DEFINE b == Bytes(code, Len(typed) + 1)
<1>3. IsSeq(b)
  BY <1>2, BytesLemma
<1>4. wire' = wire \o b /\ rbuf' = rbuf /\ IsSeq(wire) /\ IsSeq(rbuf)
  BY <1>1 DEF Type, FlowInv
<1> HIDE DEF b
<1>5. IsSeq(wire') /\ (rbuf \o wire) \o b = rbuf \o wire'
  <2>1. IsSeq(wire')
    BY <1>3, <1>4, AfterLemma
  <2> DEFINE v == rbuf \o wire
  <2>2. v = rbuf \o wire
    OBVIOUS
  <2> HIDE DEF v
  <2>3. v \o b = rbuf \o wire'
    BY ONLY <1>3, <1>4, <2>2, CatCat
  <2> QED BY <2>1, <2>3 DEF v
<1>6. LineOf' = LineOf \o b
  BY <1>4, <1>5 DEF LineOf
<1> QED BY <1>1, <1>2, <1>5, <1>6 DEF b

\* How a step changes what was typed and what is on its way.
Flows ==
  \/ UNCHANGED <<kind, typed, rbuf, wire>>
  \/ Type \/ Fill \/ Yield \/ Skip \/ PumpLoop \/ PumpTake

\* The line stays, is taken from, or grows by a stroke.
LineMove ==
  \/ typed' = typed /\ LineOf' = LineOf
  \/ typed' = typed /\ (Shorter \/ TwoShorter)
  \/ \E code \in Strokes[kind] :
       /\ code \in Strings /\ typed' = Append(typed, code)
       /\ LineOf' = LineOf \o Bytes(code, Len(typed) + 1)

LEMMA FlowKept ==
  ASSUME FlowInv, Flows
  PROVE  FlowInv' /\ LineMove
<1>0. /\ kind \in Kinds /\ typed \in Seq(Strokes[kind]) /\ IsSeq(rbuf) /\ IsSeq(wire) /\ Formed(LineOf, typed)
      /\ IsSeq(LineOf)
  BY LineSeq DEF FlowInv
<1>1. CASE UNCHANGED <<kind, typed, rbuf, wire>>
  BY <1>1, FlowSame DEF LineMove
<1>2. CASE Type
  <2>1. PICK code \in Strokes[kind] :
           /\ code \in Strings /\ typed' = Append(typed, code)
           /\ LineOf' = LineOf \o Bytes(code, Len(typed) + 1) /\ IsSeq(wire')
    BY <1>2, TypeLine
  <2>2. LineOf = <<>> \/ typed # <<>>
    <3>1. LineOf # <<>> => Len(LineOf) \in Nat \ {0}
      BY <1>0 DEF IsSeq
    <3>2. LineOf # <<>> => 1 \in 1..Len(LineOf)
      BY <3>1
    <3>3. LineOf # <<>> => 1..Len(typed) # {}
      BY <1>0, <3>2 DEF Formed, ByteOk, OfTyped
    <3> QED BY <1>0, <3>3
  <2>3. Formed(LineOf', typed')
    BY <1>0, <2>1, <2>2, FormedMore
  <2>4. kind' = kind /\ rbuf' = rbuf
    BY <1>2 DEF Type
  <2>5. typed' \in Seq(Strokes[kind])
    BY <1>0, <2>1
  <2> QED BY <1>0, <2>1, <2>3, <2>4, <2>5 DEF FlowInv, LineMove
<1>3. CASE Fill \/ PumpLoop
  <2>1. LineOf' = LineOf /\ IsSeq(rbuf') /\ IsSeq(wire')
    BY <1>3, FillLine, PumpLine
  <2>2. kind' = kind /\ typed' = typed
    BY <1>3 DEF Fill, PumpLoop
  <2> QED BY <1>0, <2>1, <2>2 DEF FlowInv, LineMove
<1>4. CASE Yield \/ Skip \/ PumpTake
  <2>1. (Shorter \/ TwoShorter) /\ IsSeq(rbuf') /\ IsSeq(wire')
    <3>1. CASE Yield
      BY <3>1, YieldLine
    <3>2. CASE Skip \/ PumpTake
      <4>1. rbuf # <<>> /\ rbuf' = Tail(rbuf) /\ wire' = wire
        BY <3>2 DEF Skip, PumpTake
      <4> QED BY <4>1, TailLine
    <3> QED BY <1>4, <3>1, <3>2
  <2>2. kind' = kind /\ typed' = typed
    BY <1>4 DEF Yield, Skip, PumpTake
  <2>3. Formed(LineOf', typed)
    <3>1. LineOf # <<>>
      BY <2>1 DEF Shorter, TwoShorter
    <3>2. Formed(Tail(LineOf), typed) /\ IsSeq(Tail(LineOf))
      BY <1>0, <3>1, FormedTail
    <3>3. TwoShorter => Formed(Tail(Tail(LineOf)), typed)
      BY <3>2, FormedTail DEF TwoShorter
    <3> QED BY <2>1, <3>2, <3>3 DEF Shorter, TwoShorter
  <2> QED BY <1>0, <2>1, <2>2, <2>3 DEF FlowInv, LineMove
<1> QED BY <1>1, <1>2, <1>3, <1>4 DEF Flows

\* The keys of the row are node keys, or bytes that were typed before those on
\* the line.
RowKey(k, w) == k.s = 0 \/ ByteOk(k, w)
RowOk(g, r, A, l, w) ==
  /\ g \in Seq(Nat \X Nat) /\ IsSeq(r)
  /\ \A i \in 1..Len(g) : OfTyped(g[i][1], g[i][2], w)
  /\ \A j \in 1..Len(r) : RowKey(r[j], w)
  /\ Ordered(g, r, A)
  /\ \A m \in 1..Len(l) : AllBefore(g, r, Place(l[m]))

LEMMA RowMoreNode ==
  ASSUME NEW g, NEW r, NEW A, NEW B, A \subseteq B, NEW l, NEW w, RowOk(g, r, A, l, w),
         NEW n, NodeKeys(n)
  PROVE  RowOk(g, n \o r, B, l, w)
<1>0. IsSeq(r) /\ IsSeq(n) /\ Ordered(g, r, A)
  BY DEF RowOk, NodeKeys
<1> DEFINE t == n \o r
<1>1. /\ IsSeq(t) /\ Len(t) = Len(n) + Len(r)
      /\ \A j \in 1..Len(t) : \/ j \in 1..Len(n) /\ t[j] = n[j]
                              \/ j - Len(n) \in 1..Len(r) /\ t[j] = r[j - Len(n)]
  BY <1>0, AfterLemma
<1>2. Ordered(g, t, B)
  <2>1. Ordered(g, t, A)
    BY <1>0, OrderedPrefix
  <2> HIDE DEF t
  <2> QED BY <2>1, OrderedMore
<1>3. \A p : AllBefore(g, r, p) => AllBefore(g, t, p)
  BY <1>0, OrderedPrefix
<1> HIDE DEF t
<1>4. \A j \in 1..Len(t) : RowKey(t[j], w)
  BY <1>1 DEF RowOk, RowKey, NodeKeys
<1>5. RowOk(g, t, B, l, w)
  BY <1>1, <1>2, <1>3, <1>4 DEF RowOk
<1> QED BY <1>5 DEF t

LEMMA RowTail ==
  ASSUME NEW g, NEW r, NEW A, NEW l, NEW w, RowOk(g, r, A, l, w), r # <<>>, IsSeq(w)
  PROVE  /\ RowOk(g, Tail(r), A, l, w)
         /\ r[1].s # 0 => RowOk(Append(g, Place(r[1])), Tail(r), A, l, w)
<1>0. IsSeq(r) /\ Ordered(g, r, A) /\ g \in Seq(Nat \X Nat)
  BY DEF RowOk
<1> DEFINE t == Tail(r)
<1>1. /\ IsSeq(t) /\ Len(r) \in Nat \ {0} /\ Len(t) = Len(r) - 1
      /\ \A j \in 1..Len(t) : t[j] = r[j + 1] /\ j + 1 \in 2..Len(r)
  BY <1>0, TailLemma
<1>2. Ordered(g, t, A) /\ \A p : AllBefore(g, r, p) => AllBefore(g, t, p)
  BY <1>0, OrderedTail
<1> HIDE DEF t
<1>3. \A j \in 1..Len(t) : t[j] = r[j + 1] /\ j + 1 \in 1..Len(r)
  BY <1>1
<1>4. \A j \in 1..Len(t) : RowKey(t[j], w)
  BY <1>3 DEF RowOk
<1>5. RowOk(g, t, A, l, w)
  BY <1>1, <1>2, <1>4 DEF RowOk
<1>6. ASSUME r[1].s # 0 PROVE RowOk(Append(g, Place(r[1])), t, A, l, w)
  <2> DEFINE h == Append(g, Place(r[1]))
  <2>1. OfTyped(r[1].s, r[1].i, w)
    <3>1. 1 \in 1..Len(r)
      BY <1>1
    <3> QED BY <1>6, <3>1 DEF RowOk, RowKey, ByteOk
  <2>2. r[1].s \in Nat /\ r[1].i \in Nat
    BY <2>1 DEF OfTyped
  <2>3. Place(r[1]) \in Nat \X Nat /\ Place(r[1])[1] = r[1].s /\ Place(r[1])[2] = r[1].i
    BY <2>2 DEF Place
  <2>4. h \in Seq(Nat \X Nat)
    BY <1>0, <2>3
  <2>5. /\ Len(h) = Len(g) + 1 /\ Len(g) \in Nat
        /\ \A j \in 1..Len(h) : (j \in 1..Len(g) /\ h[j] = g[j]) \/ (j = Len(g) + 1 /\ h[j] = Place(r[1]))
    BY <1>0, AppendLemma
  <2>6. Ordered(h, t, A) /\ \A p : AllBefore(g, r, p) => AllBefore(h, t, p)
    BY <1>0, <1>6, OrderedTake DEF t
  <2> HIDE DEF h
  <2>7. ASSUME NEW i \in 1..Len(h) PROVE OfTyped(h[i][1], h[i][2], w)
    <3>1. CASE i \in 1..Len(g) /\ h[i] = g[i]
      BY <3>1 DEF RowOk
    <3>2. CASE h[i] = Place(r[1])
      BY <2>1, <2>3, <3>2
    <3> QED BY <2>5, <3>1, <3>2
  <2>8. RowOk(h, t, A, l, w)
    BY <1>1, <1>4, <2>4, <2>6, <2>7 DEF RowOk
  <2> QED BY <2>8 DEF h
<1> QED BY <1>5, <1>6 DEF t

\* What is new on the line comes after all that was typed.
LEMMA RowLine ==
  ASSUME FlowInv, LineMove, NEW g, NEW r, NEW A, RowOk(g, r, A, LineOf, typed)
  PROVE  RowOk(g, r, A, LineOf', typed')
<1>0. IsSeq(LineOf) /\ typed \in Seq(Strokes[kind]) /\ Formed(LineOf, typed)
  BY LineSeq DEF FlowInv
<1>1. CASE typed' = typed /\ LineOf' = LineOf
  BY <1>1
<1>2. CASE typed' = typed /\ (Shorter \/ TwoShorter)
  <2>0. LineOf # <<>>
    BY <1>2 DEF Shorter, TwoShorter
  <2> DEFINE t == Tail(LineOf)
  <2>1. IsSeq(t) /\ \A j \in 1..Len(t) : t[j] = LineOf[j + 1] /\ j + 1 \in 2..Len(LineOf)
    BY <1>0, <2>0, TailLemma
  <2>2. (Shorter => LineOf' = t) /\ (TwoShorter => t # <<>> /\ LineOf' = Tail(t))
    BY DEF Shorter, TwoShorter
  <2>3. Len(LineOf) \in Nat
    BY <1>0 DEF IsSeq
  <2> HIDE DEF t
  <2>4. \A m \in 1..Len(t) : AllBefore(g, r, Place(t[m]))
    <3>1. \A j \in 1..Len(t) : t[j] = LineOf[j + 1] /\ j + 1 \in 1..Len(LineOf)
      BY <2>1, <2>3
    <3> QED BY <3>1 DEF RowOk
  <2>5. ASSUME TwoShorter, NEW m \in 1..Len(LineOf') PROVE AllBefore(g, r, Place(LineOf'[m]))
    <3>0. LineOf' = Tail(t) /\ t # <<>>
      BY <2>2, <2>5
    <3>1. \A j \in 1..Len(Tail(t)) : Tail(t)[j] = t[j + 1] /\ j + 1 \in 2..Len(t)
      BY <2>1, <3>0, TailLemma
    <3>2. LineOf'[m] = t[m + 1] /\ m + 1 \in 2..Len(t)
      BY <2>5, <3>0, <3>1
    <3>3. m + 1 \in 1..Len(t)
      BY <3>2, <2>1 DEF IsSeq
    <3> QED BY <2>4, <3>2, <3>3
  <2>6. \A m \in 1..Len(LineOf') : AllBefore(g, r, Place(LineOf'[m]))
    BY <1>2, <2>2, <2>4, <2>5
  <2> QED BY <1>2, <2>6 DEF RowOk
<1>3. CASE \E code \in Strokes[kind] :
             /\ code \in Strings /\ typed' = Append(typed, code)
             /\ LineOf' = LineOf \o Bytes(code, Len(typed) + 1)
  <2>0. PICK code \in Strokes[kind] :
             /\ code \in Strings /\ typed' = Append(typed, code)
             /\ LineOf' = LineOf \o Bytes(code, Len(typed) + 1)
    BY <1>3
  <2> DEFINE b == Bytes(code, Len(typed) + 1)
  <2>1. /\ IsSeq(b) /\ Len(b) \in Nat /\ \A i \in 1..Len(b) : b[i].s = Len(typed) + 1
    BY <2>0, BytesLemma
  <2>2. Len(typed') = Len(typed) + 1 /\ Len(typed) \in Nat /\ \A s \in 1..Len(typed) : typed'[s] = typed[s] /\ s \in 1..Len(typed')
    BY <1>0, <2>0, TypedMore
  <2>3. LineOf' = LineOf \o b
    BY <2>0
  <2> HIDE DEF b
  <2>4. \A j \in 1..Len(LineOf') : \/ j \in 1..Len(LineOf) /\ LineOf'[j] = LineOf[j]
                                   \/ j - Len(LineOf) \in 1..Len(b) /\ LineOf'[j] = b[j - Len(LineOf)]
    BY <1>0, <2>1, <2>3, AfterLemma
  <2>5. ASSUME NEW k, k.s = Len(typed) + 1 PROVE AllBefore(g, r, Place(k))
    <3>1. ASSUME NEW i \in 1..Len(g) PROVE Before(g[i], Place(k))
      <4>1. g[i][1] \in 1..Len(typed)
        BY <3>1 DEF RowOk, OfTyped
      <4>2. g[i][1] < k.s
        BY <2>2, <2>5, <4>1
      <4> QED BY <4>2 DEF Before, Place
    <3>2. ASSUME NEW j \in 1..Len(r), r[j].s # 0 PROVE Before(Place(r[j]), Place(k))
      <4>1. r[j].s \in 1..Len(typed)
        BY <3>2 DEF RowOk, RowKey, ByteOk, OfTyped
      <4>2. r[j].s < k.s
        BY <2>2, <2>5, <4>1
      <4> QED BY <4>2 DEF Before, Place
    <3> QED BY <3>1, <3>2 DEF AllBefore
  <2>6. \A m \in 1..Len(LineOf') : AllBefore(g, r, Place(LineOf'[m]))
    BY <2>1, <2>4, <2>5 DEF RowOk
  <2>7. \A s, i : OfTyped(s, i, typed) => OfTyped(s, i, typed') /\ typed'[s] = typed[s]
    BY <2>2 DEF OfTyped
  <2>8. \A i \in 1..Len(g) : OfTyped(g[i][1], g[i][2], typed')
    BY <2>7 DEF RowOk
  <2>9. \A j \in 1..Len(r) : RowKey(r[j], typed')
    BY <2>7 DEF RowOk, RowKey, ByteOk
  <2> QED BY <2>6, <2>8, <2>9 DEF RowOk
<1> QED BY <1>1, <1>2, <1>3 DEF LineMove

\* The first byte of the line is read.
LEMMA RowRead ==
  ASSUME FlowInv, LineOf # <<>>, typed' = typed, Shorter \/ TwoShorter,
         NEW g, NEW r, NEW A, RowOk(g, r, A, LineOf, typed),
         \A j \in 1..Len(r) : r[j].s # 0 => Place(r[j]) \in A,
         NEW k, k.s = LineOf[1].s, k.i = LineOf[1].i, k.c = LineOf[1].c
  PROVE  /\ RowOk(g, <<k>> \o r, A, LineOf', typed')
         /\ RowOk(Append(g, Place(k)), r, A, LineOf', typed')
<1>0. /\ IsSeq(LineOf) /\ Formed(LineOf, typed) /\ IsSeq(r) /\ g \in Seq(Nat \X Nat) /\ Ordered(g, r, A)
      /\ Len(LineOf) \in Nat \ {0}
  <2>1. IsSeq(LineOf) /\ Formed(LineOf, typed) /\ IsSeq(r) /\ g \in Seq(Nat \X Nat) /\ Ordered(g, r, A)
    BY LineSeq DEF FlowInv, RowOk
  <2> QED BY <2>1, TailLemma
<1>1. Place(k) = Place(LineOf[1]) /\ 1 \in 1..Len(LineOf)
  BY <1>0 DEF Place
<1>2. ByteOk(k, typed) /\ ByteOk(LineOf[1], typed)
  BY <1>0, <1>1 DEF Formed, ByteOk
<1>3. k.s \in Nat \ {0} /\ k.i \in Nat /\ Place(k) \in Nat \X Nat /\ Place(k)[1] = k.s /\ Place(k)[2] = k.i
  BY <1>2 DEF ByteOk, OfTyped, Place
<1>4. AllBefore(g, r, Place(k))
  BY <1>1 DEF RowOk
<1>5. \A p : Before(p, Place(k)) => p # Place(k)
  BY <1>3 DEF Before
<1>6. Ordered(g, <<k>> \o r, A) /\ Ordered(Append(g, Place(k)), r, A)
  <2>1. \A i \in 1..Len(g) : g[i] # Place(k) /\ Before(g[i], Place(k))
    BY <1>4, <1>5 DEF AllBefore
  <2>2. \A j \in 1..Len(r) : r[j].s # 0 => Place(r[j]) # Place(k) /\ Place(r[j]) \in A
    BY <1>4, <1>5 DEF AllBefore
  <2> QED BY <1>0, <1>3, <2>1, <2>2, OrderedRead
<1> DEFINE t == <<k>> \o r
<1> DEFINE h == Append(g, Place(k))
<1>7. /\ IsSeq(t) /\ Len(t) = Len(r) + 1 /\ Len(r) \in Nat /\ t[1] = k
      /\ \A j \in 2..Len(t) : t[j] = r[j - 1]
  BY <1>0, PushLemma
<1>8. /\ Len(h) = Len(g) + 1 /\ Len(g) \in Nat
      /\ \A j \in 1..Len(h) : (j \in 1..Len(g) /\ h[j] = g[j]) \/ (j = Len(g) + 1 /\ h[j] = Place(k))
  BY <1>0, AppendLemma
<1>9. h \in Seq(Nat \X Nat)
  BY <1>0, <1>3
<1>10. ASSUME NEW p, AllBefore(g, r, p), Before(Place(k), p)
       PROVE  AllBefore(g, t, p) /\ AllBefore(h, r, p)
  BY <1>0, <1>3, <1>10, BeforeMore
<1> HIDE DEF t, h
<1>11. \A j \in 1..Len(t) : t[j] = k \/ (j - 1 \in 1..Len(r) /\ t[j] = r[j - 1])
  BY <1>7
<1>12. \A j \in 1..Len(t) : RowKey(t[j], typed)
  BY <1>2, <1>11 DEF RowOk, RowKey
<1>13. ASSUME NEW i \in 1..Len(h) PROVE OfTyped(h[i][1], h[i][2], typed)
  <2>1. CASE i \in 1..Len(g) /\ h[i] = g[i]
    BY <2>1 DEF RowOk
  <2>2. CASE h[i] = Place(k)
    BY <1>2, <1>3, <2>2 DEF ByteOk
  <2> QED BY <1>8, <2>1, <2>2
<1>14. ASSUME NEW m \in 1..Len(LineOf')
       PROVE  \E n \in 2..Len(LineOf) : LineOf'[m] = LineOf[n]
  <2> DEFINE u == Tail(LineOf)
  <2>1. IsSeq(u) /\ Len(u) = Len(LineOf) - 1 /\ \A j \in 1..Len(u) : u[j] = LineOf[j + 1] /\ j + 1 \in 2..Len(LineOf)
    BY <1>0, TailLemma
  <2>2. (Shorter => LineOf' = u) /\ (TwoShorter => u # <<>> /\ LineOf' = Tail(u))
    BY DEF Shorter, TwoShorter
  <2> HIDE DEF u
  <2>3. CASE Shorter
    BY <1>14, <2>1, <2>2, <2>3
  <2>4. CASE TwoShorter
    <3>1. \A j \in 1..Len(Tail(u)) : Tail(u)[j] = u[j + 1] /\ j + 1 \in 2..Len(u)
      BY <2>1, <2>2, <2>4, TailLemma
    <3>2. LineOf'[m] = u[m + 1] /\ m + 1 \in 2..Len(u)
      BY <1>14, <2>2, <2>4, <3>1
    <3>3. m + 1 \in 1..Len(u)
      BY <1>0, <2>1, <3>2
    <3> QED BY <2>1, <3>2, <3>3
  <2> QED BY <2>3, <2>4
<1>15. ASSUME NEW m \in 1..Len(LineOf')
       PROVE  AllBefore(g, t, Place(LineOf'[m])) /\ AllBefore(h, r, Place(LineOf'[m]))
  <2>1. PICK n \in 2..Len(LineOf) : LineOf'[m] = LineOf[n]
    BY <1>14
  <2>2. n \in 1..Len(LineOf) /\ 1 < n
    BY <1>0
  <2>3. Before(Place(k), Place(LineOf[n])) /\ AllBefore(g, r, Place(LineOf[n]))
    BY <1>0, <1>1, <2>2 DEF Formed, RowOk
  <2> QED BY <1>10, <2>1, <2>3
<1>16. RowOk(g, t, A, LineOf', typed) /\ RowOk(h, r, A, LineOf', typed)
  BY <1>0, <1>6, <1>7, <1>9, <1>12, <1>13, <1>15 DEF RowOk, t, h
<1> QED BY <1>16 DEF t, h

---------------------------------------------------------------------------
(* What the calls do to the keys that were read. *)


\* The row of the caller's keys grows by keys of the node, or one is taken from
\* it, to be handed out or not.
RowShift ==
  \/ \E n : NodeKeys(n) /\ Row' = n \o Row /\ got' = got /\ aside \subseteq aside'
  \/ /\ Row # <<>> /\ Row' = Tail(Row) /\ aside' = aside
     /\ got' = got \/ (Row[1].s # 0 /\ got' = Append(got, Place(Row[1])))

\* A byte is read, and unless it is the rest of an Enter it is put in the row or
\* handed out.
Eaten(k) == crPend /\ k.c \in Mates
\* A byte is read: it is passed over, put in the row, or handed out.
RowTake ==
  /\ KeyRead /\ Row = push /\ push' = push /\ aside' = aside
  /\ \E k : /\ k = KeyOf(Head(rbuf), FALSE)
            /\ \/ Row' = Row /\ got' = got
               \/ ~Eaten(k) /\ Row' = <<k>> \o Row /\ got' = got
               \/ ~Eaten(k) /\ Row' = Row /\ k.s # 0 /\ got' = Append(got, Place(k))

RowMove == RowShift \/ RowTake

\* Node keys, in a buffer and in front of it.
LEMMA NoNodeKeys ==
  NodeKeys(<<>>)
<1>1. <<>> \in Seq({}) /\ Len(<<>>) = 0
  OBVIOUS
<1>2. IsSeq(<<>>)
  BY <1>1, ElementsLemma
<1> QED BY <1>1, <1>2 DEF NodeKeys

LEMMA NodeKeysLemma ==
  ASSUME NEW m \in Nat, NEW c, NEW b
  PROVE  NodeKeys([i \in 1..m |-> NodeKey(c[i], b)])
<1> DEFINE f == [i \in 1..m |-> NodeKey(c[i], b)]
<1> DEFINE S == {f[i] : i \in 1..m}
<1>1. f \in [1..m -> S] /\ \A i \in 1..m : f[i].s = 0
  BY DEF NodeKey
<1> HIDE DEF f, S
<1>2. f \in Seq(S) /\ Len(f) = m
  BY <1>1
<1>3. IsSeq(f)
  BY <1>2, ElementsLemma
<1>4. NodeKeys(f)
  BY <1>1, <1>2, <1>3 DEF NodeKeys
<1> QED BY <1>4 DEF f

LEMMA OneNodeKey ==
  ASSUME NEW n, NodeKeys(n), NEW k, k.s = 0
  PROVE  NodeKeys(<<k>> \o n) /\ NodeKeys(<<k>>)
<1>0. IsSeq(n)
  BY DEF NodeKeys
<1> DEFINE t == <<k>> \o n
<1>1. IsSeq(t) /\ Len(t) = Len(n) + 1 /\ Len(n) \in Nat /\ t[1] = k /\ \A j \in 2..Len(t) : t[j] = n[j - 1]
  BY <1>0, PushLemma
<1> HIDE DEF t
<1>2. ASSUME NEW j \in 1..Len(t) PROVE t[j].s = 0
  <2>1. j = 1 \/ (j \in 2..Len(t) /\ j - 1 \in 1..Len(n))
    BY <1>1, <1>2
  <2> QED BY <1>1, <2>1 DEF NodeKeys
<1>3. NodeKeys(t)
  BY <1>1, <1>2 DEF NodeKeys
<1> DEFINE u == <<k>>
<1>4. u \in Seq({k}) /\ Len(u) = 1 /\ u[1] = k
  OBVIOUS
<1> HIDE DEF u
<1>5. NodeKeys(u)
  BY <1>4, ElementsLemma DEF NodeKeys
<1> QED BY <1>3, <1>5 DEF t, u

LEMMA HeadTail ==
  ASSUME NEW s, IsSeq(s), s # <<>>
  PROVE  <<s[1]>> \o Tail(s) = s
<1> DEFINE t == <<s[1]>> \o Tail(s)
<1>1. IsSeq(t) /\ Len(t) = Len(s) /\ t[1] = s[1] /\ \A j \in 2..Len(t) : t[j] = s[j]
  BY WithinLemma
<1> HIDE DEF t
<1>2. \A j \in 1..Len(t) : j = 1 \/ j \in 2..Len(t)
  BY <1>1 DEF IsSeq
<1>3. t = s
  BY <1>1, <1>2, SameSeq
<1> QED BY <1>3 DEF t

\* Neither GetKey nor PeekKey: nothing is held before, and nothing after.
LEMMA NotHeld ==
  ASSUME StackInv, AdjInv, StackMove, Top.op \notin {"getkey", "peek"}
  PROVE  Row = push /\ Row' = push'
<1>0. IsSeq(stack) /\ stack # <<>> /\ Len(stack) \in Nat \ {0} /\ Top = stack[1]
  BY StackBasics DEF StackInv
<1>1. ~Held
  BY DEF Held, At
<1>2. ~(Top'.op = "peek" /\ Top'.at = "got")
  <2>1. CASE stack' = stack
    BY <2>1 DEF Top
  <2>2. CASE \E g : Within(g)
    <3>1. PICK g : Within(g)
      BY <2>2
    <3>2. Head(stack') = g
      BY <1>0, <3>1, WithinLemma DEF Within
    <3>3. Top' = g
      BY <3>2 DEF Top
    <3> QED BY <3>1, <3>3 DEF Within, Keeps
  <2>3. CASE \E f, g : Calling(f, g)
    <3>1. PICK f, g : Calling(f, g)
      BY <2>3
    <3>2. Head(stack') = f
      BY <1>0, <3>1, CallLemma DEF Calling
    <3>3. Top' = f
      BY <3>2 DEF Top
    <3> QED BY <3>1, <3>3 DEF Calling
  <2>4. CASE Returns
    <3>1. stack' = Tail(stack) /\ Len(stack) > 1
      BY <1>0, <2>4, StackBasics DEF Returns
    <3>2. Head(Tail(stack)) = stack[2]
      BY <1>0, <3>1, ReturnLemma
    <3>3. Top' = stack[2]
      BY <3>1, <3>2 DEF Top
    <3>4. 1 \in 1..Len(stack) - 1
      BY <1>0, <3>1
    <3>5. May(stack[1].op, stack[1 + 1].op, stack[1 + 1].at)
      BY <3>4 DEF AdjInv
    <3>6. May(Top.op, stack[2].op, stack[2].at)
      BY <1>0, <3>5
    <3> QED BY <3>3, <3>6 DEF May
  <2> QED BY <2>1, <2>2, <2>3, <2>4 DEF StackMove
<1> QED BY <1>1, <1>2 DEF Row, Held, At

\* GetKey goes on, or hands something to its caller.
LEMMA GetKeyTop ==
  ASSUME StackInv, Top.op = "getkey"
  PROVE  /\ Row = push
         /\ stack' = stack \/ (\E a : Goto(a)) \/ (\E f, a : Call(f, a) /\ f.op # "peek") => Row' = push'
         /\ \A v : Return(v) =>
              Row' = IF stack[2].op = "peek" /\ stack[2].at = "got" /\ IsKey(v) THEN <<v>> \o push' ELSE push'
<1>0. IsSeq(stack) /\ stack # <<>> /\ Len(stack) \in Nat \ {0} /\ Top = stack[1] /\ DOMAIN Top = Fields
  BY StackBasics DEF StackInv
<1>1. Row = push
  BY DEF Row, Held, At
<1>2. ASSUME stack' = stack PROVE Row' = push'
  <2>1. Top' = Top
    BY <1>2 DEF Top
  <2> QED BY <2>1 DEF Row, Held, At
<1>3. ASSUME NEW a, Goto(a) PROVE Row' = push'
  <2> DEFINE g == [Top EXCEPT !.at = a]
  <2>1. g.op = "getkey" /\ stack' = <<g>> \o Tail(stack)
    BY <1>0, <1>3, AtLemma DEF Goto
  <2> HIDE DEF g
  <2>2. Head(stack') = g
    BY <1>0, <2>1, WithinLemma
  <2>3. Top' = g
    BY <2>2 DEF Top
  <2> QED BY <2>1, <2>3 DEF Row, Held, At
<1>4. ASSUME NEW f, NEW a, Call(f, a), f.op # "peek" PROVE Row' = push'
  <2> DEFINE g == [Top EXCEPT !.at = a]
  <2>1. stack' = <<f, g>> \o Tail(stack)
    BY <1>4 DEF Call
  <2> HIDE DEF g
  <2>2. Head(stack') = f
    BY <1>0, <2>1, CallLemma
  <2>3. Top' = f
    BY <2>2 DEF Top
  <2> QED BY <1>4, <2>3 DEF Row, Held, At
<1>5. ASSUME NEW v, Return(v)
      PROVE  Row' = IF stack[2].op = "peek" /\ stack[2].at = "got" /\ IsKey(v) THEN <<v>> \o push' ELSE push'
  <2>1. stack' = Tail(stack) /\ ret' = v
    BY <1>5 DEF Return
  <2>2. Len(stack) # 1
    BY StackBasics
  <2>3. Len(stack) > 1
    BY <1>0, <2>2
  <2>4. Head(Tail(stack)) = stack[2]
    BY <1>0, <2>3, ReturnLemma
  <2>5. Top' = stack[2]
    BY <2>1, <2>4 DEF Top
  <2>6. Held' = (stack[2].op = "peek" /\ stack[2].at = "got" /\ IsKey(v))
    BY <2>1, <2>5 DEF Held, At, IsKey
  <2>7. Row' = IF Held' THEN <<v>> \o push' ELSE push'
    BY <2>1 DEF Row
  <2> QED BY <2>6, <2>7
<1> QED BY <1>1, <1>2, <1>3, <1>4, <1>5

\* What Hand does to the row.
LEMMA HandRow ==
  ASSUME StackInv, Top.op = "getkey", NEW k, Hand(k)
  PROVE  /\ Row = push /\ aside' = aside
         /\ \/ Row' = push' /\ got' = got
            \/ ~Eaten(k) /\ Row' = <<k>> \o push' /\ got' = got
            \/ ~Eaten(k) /\ k.s # 0 /\ Row' = push' /\ got' = Append(got, Place(k))
<1>1. Row = push /\ aside' = aside
  BY GetKeyTop DEF Hand
<1>2. CASE Eaten(k)
  <2>1. Goto("start") /\ got' = got
    BY <1>2 DEF Hand, Eaten
  <2> QED BY <1>1, <2>1, GetKeyTop
<1>3. CASE ~Eaten(k)
  <2>1. /\ Return(k)
        /\ got' = IF k.s # 0 /\ stack[2].op \notin {"peek", "mate", "drain"}
                  THEN Append(got, <<k.s, k.i>>) ELSE got
    BY <1>3 DEF Hand, Eaten
  <2>2. Row' = IF stack[2].op = "peek" /\ stack[2].at = "got" /\ IsKey(k) THEN <<k>> \o push' ELSE push'
    BY <2>1, GetKeyTop
  <2> QED BY <1>1, <1>3, <2>1, <2>2 DEF Place
<1> QED BY <1>2, <1>3

LEMMA NodeKeyFields ==
  ASSUME NEW c, NEW b
  PROVE  NodeKey(c, b).s = 0 /\ NodeKey(c, b).c = c
BY DEF NodeKey

LEMMA CursorKeys ==
  NodeKeys([i \in 1..Len(Cursor) - 1 |-> NodeKey(Cursor[i + 1], TRUE)])
<1>1. Len(Cursor) - 1 \in Nat
  BY TerminalAssumption
<1> DEFINE m == Len(Cursor) - 1
<1> DEFINE c == [i \in 1..m |-> Cursor[i + 1]]
<1>2. [i \in 1..m |-> NodeKey(Cursor[i + 1], TRUE)] = [i \in 1..m |-> NodeKey(c[i], TRUE)]
  OBVIOUS
<1>3. NodeKeys([i \in 1..m |-> NodeKey(c[i], TRUE)])
  <2>1. m \in Nat
    BY <1>1
  <2> HIDE DEF m, c
  <2> QED BY <2>1, NodeKeysLemma
<1> QED BY <1>2, <1>3

\* What the steps of GetKey do to it.
LEMMA KeyRow ==
  ASSUME StackInv, IsSeq(push),
         KeyRefused \/ KeyPushed \/ KeyLocal \/ KeyNotLocal \/ KeyRead \/ KeyWaits
         \/ KeyDeadline \/ KeyExpires \/ KeyLost
  PROVE  RowMove
<1>0. Top.op = "getkey" /\ Row = push
  BY KeyMove, GetKeyTop
<1>1. ASSUME NEW n, NodeKeys(n), Row' = n \o Row, UNCHANGED <<got, aside>> PROVE RowShift
  BY <1>1 DEF RowShift
<1>2. ASSUME Row' = Row, UNCHANGED <<got, aside>> PROVE RowShift
  <2>1. Row' = <<>> \o Row
    BY <1>0, <1>2, EmptyCat
  <2> QED BY <1>1, <1>2, <2>1, NoNodeKeys
<1>3. ASSUME NEW v, Return(v), ~IsKey(v), UNCHANGED <<push, got, aside>> PROVE RowShift
  <2>1. Row' = push'
    BY <1>0, <1>3, GetKeyTop
  <2> QED BY <1>0, <1>2, <1>3, <2>1
<1>4. ASSUME stack' = stack \/ \E a : Goto(a), UNCHANGED <<push, got, aside>> PROVE RowShift
  <2>1. Row' = push'
    BY <1>0, <1>4, GetKeyTop
  <2> QED BY <1>0, <1>2, <1>4, <2>1
<1>5. ~IsKey(None) /\ ~IsKey(Failed)
  BY DEF IsKey, None, Failed
<1>6. CASE KeyRefused \/ KeyExpires \/ KeyLost
  <2>1. (Return(Failed) \/ Return(None)) /\ UNCHANGED <<push, got, aside>>
    BY <1>6 DEF KeyRefused, KeyExpires, KeyLost, keys, fate
  <2> QED BY <1>3, <1>5, <2>1 DEF RowMove
<1>7. CASE KeyNotLocal
  <2>1. (Return(Failed) \/ Goto("read")) /\ UNCHANGED <<push, got, aside>>
    BY <1>7 DEF KeyNotLocal, keys, fate
  <2> QED BY <1>3, <1>4, <1>5, <2>1 DEF RowMove
<1>8. CASE KeyWaits \/ KeyDeadline
  <2>1. (stack' = stack \/ Goto("start")) /\ UNCHANGED <<push, got, aside>>
    BY <1>8 DEF KeyWaits, KeyDeadline, keys, fate
  <2> QED BY <1>4, <2>1 DEF RowMove
<1>9. CASE KeyPushed
  <2>1. push # <<>> /\ push' = Tail(push) /\ Hand(push[1])
    <3>1. push # <<>> /\ push' = Tail(push) /\ Hand(Head(push))
      BY <1>9 DEF KeyPushed
    <3>2. Head(push) = push[1]
      BY <3>1, TailLemma
    <3> QED BY <3>1, <3>2
  <2>2. /\ aside' = aside
        /\ \/ Row' = push' /\ got' = got
           \/ Row' = <<push[1]>> \o push' /\ got' = got
           \/ push[1].s # 0 /\ Row' = push' /\ got' = Append(got, Place(push[1]))
    BY <1>0, <2>1, HandRow
  <2>3. CASE Row' = <<push[1]>> \o push' /\ got' = got
    <3>1. <<push[1]>> \o Tail(push) = push
      BY <2>1, HeadTail
    <3>2. Row' = Row
      BY <1>0, <2>1, <2>3, <3>1
    <3> QED BY <1>2, <2>2, <2>3, <3>2 DEF RowMove
  <2>4. CASE Row' = push' /\ (got' = got \/ (push[1].s # 0 /\ got' = Append(got, Place(push[1]))))
    BY <1>0, <2>1, <2>2, <2>4 DEF RowMove, RowShift
  <2> QED BY <2>2, <2>3, <2>4 DEF RowMove
<1>10. CASE KeyLocal
  <2> DEFINE up == [i \in 1..Len(Cursor) - 1 |-> NodeKey(Cursor[i + 1], TRUE)]
  <2>1. \/ \E k : k.s = 0 /\ Hand(k) /\ push' = push
        \/ \E k : k.s = 0 /\ Hand(k) /\ push' = up \o push
        \/ Call(Frame("command", Head(local)), "local") /\ UNCHANGED <<push, got, aside>>
    <3>1. \A c : NodeKey(c, TRUE).s = 0
      BY NodeKeyFields
    <3> QED BY <1>10, <3>1, Zenon DEF KeyLocal, fate
  <2>2. NodeKeys(up)
    BY CursorKeys
  <2> HIDE DEF up
  <2>3. ASSUME NEW k, k.s = 0, Hand(k), NEW n, NodeKeys(n), push' = n \o push PROVE RowShift
    <3>1. /\ aside' = aside /\ got' = got
          /\ Row' = push' \/ Row' = <<k>> \o push'
      BY <1>0, <2>3, HandRow
    <3>2. CASE Row' = push'
      BY <1>0, <1>1, <2>3, <3>1, <3>2
    <3>3. CASE Row' = <<k>> \o push'
      <4> DEFINE one == <<k>>
      <4> DEFINE m == one \o n
      <4>1. NodeKeys(m) /\ NodeKeys(one)
        BY <2>3, OneNodeKey
      <4>2. m = one \o n /\ Row' = one \o push'
        BY <3>3
      <4> HIDE DEF one, m
      <4>3. \A b : b = n \o push => m \o push = one \o b
        BY <2>3, <4>1, <4>2, CatCat DEF NodeKeys
      <4>4. Row' = m \o Row
        BY <1>0, <2>3, <4>2, <4>3
      <4> QED BY <1>1, <3>1, <4>1, <4>4
    <3> QED BY <3>1, <3>2, <3>3
  <2>4. ASSUME NEW k, k.s = 0, Hand(k), push' = push PROVE RowShift
    <3>1. push' = <<>> \o push
      BY <2>4, EmptyCat
    <3> QED BY <2>3, <2>4, <3>1, NoNodeKeys
  <2>5. CASE Call(Frame("command", Head(local)), "local") /\ UNCHANGED <<push, got, aside>>
    <3>1. \A c : Frame("command", c).op # "peek"
      BY FrameLemma
    <3>2. Row' = push'
      BY <1>0, <2>5, <3>1, GetKeyTop, Zenon
    <3> QED BY <1>0, <1>2, <2>5, <3>2 DEF RowMove
  <2> QED BY <2>1, <2>2, <2>3, <2>4, <2>5 DEF RowMove
<1>11. CASE KeyRead
  <2> DEFINE k == KeyOf(Head(rbuf), FALSE)
  <2>1. At("getkey", "read") /\ (Yield \/ PumpTake) /\ Hand(k) /\ push' = push
    BY <1>11 DEF KeyRead
  <2>2. k = KeyOf(Head(rbuf), FALSE)
    OBVIOUS
  <2> HIDE DEF k
  <2>3. /\ aside' = aside
        /\ \/ Row' = push' /\ got' = got
           \/ ~Eaten(k) /\ Row' = <<k>> \o push' /\ got' = got
           \/ ~Eaten(k) /\ k.s # 0 /\ Row' = push' /\ got' = Append(got, Place(k))
    BY <1>0, <2>1, HandRow
  <2>4. \/ Row' = Row /\ got' = got
        \/ ~Eaten(k) /\ Row' = <<k>> \o Row /\ got' = got
        \/ ~Eaten(k) /\ Row' = Row /\ k.s # 0 /\ got' = Append(got, Place(k))
    BY <1>0, <2>1, <2>3
  <2> QED BY <1>0, <1>11, <2>1, <2>2, <2>3, <2>4 DEF RowMove, RowTake
<1> QED BY <1>6, <1>7, <1>8, <1>9, <1>10, <1>11 DEF RowMove

\* A key that was looked at goes back, and is in the row as it was.
LEMMA PeekRow ==
  ASSUME StackInv, AdjInv, IsSeq(push), Peek, UNCHANGED got
  PROVE  RowShift /\ Row' = Row
<1>0. IsSeq(stack) /\ stack # <<>> /\ Len(stack) \in Nat \ {0} /\ Top = stack[1] /\ Top.op = "peek"
  BY StackBasics DEF StackInv, Peek, At
<1>1. ASSUME Row' = Row, aside \subseteq aside' PROVE RowShift /\ Row' = Row
  <2>1. IsSeq(Row)
    BY PushLemma DEF Row
  <2>2. Row' = <<>> \o Row
    BY <1>1, <2>1, EmptyCat
  <2> QED BY <1>1, <2>2, NoNodeKeys DEF RowShift
<1>2. ASSUME stack' = Tail(stack) PROVE ~Held'
  <2>1. Len(stack) # 1
    BY <1>0, StackBasics
  <2>2. Len(stack) > 1 /\ 1 \in 1..Len(stack) - 1
    BY ONLY <1>0, <2>1
  <2>3. Head(Tail(stack)) = stack[2]
    BY <1>0, <2>2, ReturnLemma
  <2>4. May(stack[1].op, stack[1 + 1].op, stack[1 + 1].at)
    BY <2>2 DEF AdjInv
  <2>5. May("peek", stack[2].op, stack[2].at)
    BY <1>0, <2>4
  <2>6. Top' = stack[2]
    BY <1>2, <2>3 DEF Top
  <2> QED BY <2>5, <2>6 DEF May, Held, At
<1>3. CASE At("peek", "start") /\ push # <<>>
  <2>1. stack' = Tail(stack) /\ UNCHANGED <<push, aside>>
    BY <1>3 DEF Peek, Return, At
  <2>2. Row = push /\ Row' = push'
    BY <1>2, <1>3, <2>1 DEF Row, Held, At
  <2> QED BY <1>1, <2>1, <2>2
<1>4. CASE At("peek", "start") /\ push = <<>>
  <2>1. Call(TimedKey, "got") /\ UNCHANGED <<push, aside>>
    BY <1>4 DEF Peek, At
  <2> DEFINE f == TimedKey
  <2> DEFINE g == [Top EXCEPT !.at = "got"]
  <2>2. stack' = <<f, g>> \o Tail(stack) /\ f.op = "getkey"
    BY <2>1, TimedLemma DEF Call
  <2> HIDE DEF f, g
  <2>3. Head(stack') = f
    BY <1>0, <2>2, CallLemma
  <2>4. Top' = f
    BY <2>3 DEF Top
  <2>5. Row = push /\ Row' = push'
    BY <1>4, <2>2, <2>4 DEF Row, Held, At
  <2> QED BY <1>1, <2>1, <2>5
<1>5. CASE At("peek", "got")
  <2>1. /\ stack' = Tail(stack) /\ aside \subseteq aside'
        /\ push' = IF IsKey(ret) THEN <<ret>> \o push ELSE push
    BY <1>5 DEF Peek, At
  <2>2. Row' = push'
    BY <1>2, <2>1 DEF Row
  <2>3. Row = push'
    BY <1>5, <2>1 DEF Row, Held
  <2> QED BY <1>1, <2>1, <2>2, <2>3
<1> QED BY <1>3, <1>4, <1>5 DEF Peek

\* The other steps put node keys into the buffer; one takes a key from it.
Puts == UNCHANGED <<got, aside>> /\ \E n : NodeKeys(n) /\ push' = n \o push
Pushes == Puts \/ (UNCHANGED <<got, aside>> /\ push # <<>> /\ push' = Tail(push))

LEMMA PushSame ==
  ASSUME IsSeq(push), UNCHANGED <<push, got, aside>>
  PROVE  Puts
<1>1. push' = <<>> \o push
  BY EmptyCat
<1> QED BY <1>1, NoNodeKeys DEF Puts

LEMMA InputKeys ==
  ASSUME NEW c \in Seq(STRING), NEW b
  PROVE  NodeKeys([i \in DOMAIN c |-> NodeKey(c[i], b)])
<1>1. DOMAIN c = 1..Len(c) /\ Len(c) \in Nat
  OBVIOUS
<1>2. NodeKeys([i \in 1..Len(c) |-> NodeKey(c[i], b)])
  BY <1>1, NodeKeysLemma
<1> QED BY <1>1, <1>2

LEMMA ItemInput ==
  ASSUME NEW m \in DOMAIN Menus, NEW i \in DOMAIN Items(m)
  PROVE  Items(m)[i].input \in Seq(STRING)
<1> DEFINE T == [key : STRING, typ : STRING, data : Seq(STRING), input : Seq(STRING),
                 levels : SUBSET Nat, bar : Seq(Nat)]
<1>1. Menus[m] \in Seq(T) /\ Global \in Seq(T)
  BY MenuAssumption
<1> HIDE DEF T
<1>2. Items(m) \in Seq(T)
  BY <1>1 DEF Items
<1>3. Items(m)[i] \in T
  BY <1>2
<1> QED BY <1>3 DEF T

LEMMA EnginePushes ==
  ASSUME AccessInv, LbarInv, IsSeq(push), Engine, UNCHANGED <<got, aside>>
  PROVE  Puts
<1>1. StackInv /\ Top.op = "engine"
  BY EngineMove DEF AccessInv
<1>2. ASSUME Top.at \in Drawn
      PROVE  /\ Top.c \in DOMAIN Menus /\ Top.i \in Nat \ {0} /\ HotOpen(Top.c)
             /\ Len(Items(Top.c)) \in Nat /\ DOMAIN Items(Top.c) = 1..Len(Items(Top.c))
  <2>1. Placed(Top) /\ HotOpen(Top.c)
    BY <1>1, <1>2, StackBasics DEF AccessInv, EnginesOpen
  <2> QED BY <2>1, ItemsLemma DEF Placed
<1>3. ASSUME NEW i, NEW a, Exec(Items(Top.c), i, a), Top.at \in Drawn, i \in DOMAIN Items(Top.c)
      PROVE  Puts
  <2>1. Items(Top.c)[i].input \in Seq(STRING)
    BY <1>2, <1>3, ItemInput
  <2> DEFINE c == Items(Top.c)[i].input
  <2> DEFINE n == [j \in DOMAIN c |-> NodeKey(c[j], FALSE)]
  <2>2. push' = n \o push
    BY <1>3 DEF Exec
  <2>3. NodeKeys(n)
    <3>1. c \in Seq(STRING)
      BY <2>1
    <3> HIDE DEF c
    <3> QED BY <3>1, InputKeys
  <2> HIDE DEF n
  <2> QED BY <2>2, <2>3 DEF Puts
<1>4. CASE EngineItems
  <2>1. Top.at = "items"
    BY <1>4 DEF EngineItems, At
  <2>2. \/ push' = push
        \/ \E i \in Top.i..Len(Items(Top.c)) : Exec(Items(Top.c), i, "ran")
    BY <1>4 DEF EngineItems
  <2>3. ASSUME NEW i \in Top.i..Len(Items(Top.c)) PROVE i \in DOMAIN Items(Top.c)
    BY <1>2, <2>1 DEF Drawn
  <2>4. Top.at \in Drawn
    BY <2>1 DEF Drawn
  <2> QED BY <1>3, <2>2, <2>3, <2>4, PushSame
<1>5. CASE EnginePicked
  <2>1. Top.at = "picked" /\ Top.at \in Drawn
    BY <1>5 DEF EnginePicked, At, Drawn
  <2> DEFINE found == {menu.hot[k] : k \in DOMAIN menu.hot \cap {menu.choice}}
  <2> DEFINE runs == IF menu.lbar # 0 THEN {i \in {menu.lbar} : Access(Items(Top.c)[i])} ELSE found
  <2>2. push' = push \/ \E i \in runs : Exec(Items(Top.c), i, "done")
    BY <1>5 DEF EnginePicked
  <2>3. ASSUME NEW i \in runs PROVE i \in DOMAIN Items(Top.c)
    <3>1. CASE menu.lbar # 0
      BY <2>3, <3>1 DEF LbarInv
    <3>2. CASE menu.lbar = 0
      BY <1>2, <2>1, <2>3, <3>2 DEF HotOpen
    <3> QED BY <3>1, <3>2
  <2> HIDE DEF runs
  <2> QED BY <1>3, <2>1, <2>2, <2>3, PushSame
<1>6. CASE \/ EngineStart \/ EngineLoad \/ EngineRan \/ EngineChoose \/ EngineAsk
           \/ EngineKey \/ EngineArrow \/ EngineDone \/ Fallback
  <2>1. push' = push
    BY <1>6 DEF EngineStart, EngineLoad, EngineRan, EngineChoose, EngineAsk,
                EngineKey, EngineArrow, EngineDone, Fallback
  <2> QED BY <2>1, PushSame
<1> QED BY <1>4, <1>5, <1>6 DEF Engine

LEMMA ScriptPushes ==
  ASSUME StackInv, QaInv, IsSeq(push), Script, UNCHANGED <<got, aside>>
  PROVE  Puts
<1>1. CASE push' = push
  BY <1>1, PushSame
<1>2. CASE push' # push
  <2>1. /\ Running /\ Cmd[1] = "EMULATEINPUT"
        /\ push' = [i \in DOMAIN Cmd[2] |-> NodeKey(Cmd[2][i], FALSE)] \o push
    <3>1. ScriptSets
      BY <1>2 DEF Script, ScriptStart, ScriptIncluded, ScriptEnds, ScriptFlow, ScriptIncludes,
                  ScriptCalls, ScriptCalled, ScriptGot
    <3> QED BY <1>2, <3>1 DEF ScriptSets
  <2>2. VmOk(Q)
    BY <2>1, ScriptHasVm DEF Running, At
  <2>3. Q.file \in DOMAIN Scripts /\ Q.pc \in Line0
    BY <2>2 DEF VmOk
  <2>4. Q.pc \in DOMAIN Scripts[Q.file]
    <3>1. ~(Q.pc > Len(Scripts[Q.file]))
      BY <2>1 DEF Running, Finished, Lines
    <3>2. Len(Scripts[Q.file]) \in Nat /\ DOMAIN Scripts[Q.file] = 1..Len(Scripts[Q.file])
      BY <2>3, QuestionnaireAssumption
    <3> QED BY ONLY <2>3, <3>1, <3>2 DEF Line0
  <2>5. Cmd[2] \in Seq(STRING)
    BY <2>1, <2>3, <2>4, QuestionnaireAssumption DEF Cmd, Lines
  <2> DEFINE c == Cmd[2]
  <2> DEFINE n == [j \in DOMAIN c |-> NodeKey(c[j], FALSE)]
  <2>6. push' = n \o push
    BY <2>1
  <2>7. NodeKeys(n)
    <3>1. c \in Seq(STRING)
      BY <2>5
    <3> HIDE DEF c
    <3> QED BY <3>1, InputKeys
  <2> HIDE DEF n
  <2> QED BY <2>6, <2>7 DEF Puts
<1> QED BY <1>1, <1>2

LEMMA SysopPushes ==
  ASSUME IsSeq(push), SysopCommand \/ Chat, UNCHANGED <<got, aside>>
  PROVE  Puts
<1>1. CASE ChatEnd
  <2> DEFINE n == <<Redraw>>
  <2>1. push' = n \o push
    BY <1>1 DEF ChatEnd
  <2>2. NodeKeys(n)
    <3>1. Redraw.s = 0
      BY NodeKeyFields DEF Redraw
    <3> QED BY <3>1, OneNodeKey, NoNodeKeys
  <2> HIDE DEF n
  <2> QED BY <2>1, <2>2 DEF Puts
<1>2. CASE ~ChatEnd
  <2>1. push' = push
    BY <1>2 DEF SysopCommand, CommandStart, CommandAsked, CommandGranted, CommandShown, CommandEnd,
                Chat, ChatStart, ChatCapture, ChatKey, ChatChar, ChatNamed, ChatLeave
  <2> QED BY <2>1, PushSame
<1> QED BY <1>1, <1>2

\* The steps that are neither GetKey's nor PeekKey's leave the stream alone.
InnerKey == KeyRefused \/ KeyPushed \/ KeyLocal \/ KeyNotLocal \/ KeyRead \/ KeyWaits
            \/ KeyDeadline \/ KeyExpires \/ KeyLost

\* Nothing is taken: the steps of which this is true, and how the stream moves on its own.
Other ==
  Puts /\ dropped' = dropped /\ (((Mate \/ Drain) /\ push' = push) \/ Top.op \notin {"mate", "drain"})
Arrives == Type \/ PumpLoop \/ UNCHANGED <<kind, typed, rbuf, wire, cut>>

LEMMA StepKinds ==
  ASSUME AccessInv, LbarInv, QaInv, IsSeq(push), [Next]_vars
  PROVE  \/ InnerKey
         \/ Peek /\ UNCHANGED <<stream, got, dropped>>
         \/ Pushes /\ UNCHANGED stream /\ Top.op \notin {"getkey", "peek"} /\ (Enter \/ Other)
         \/ UNCHANGED <<stack, ret, push, got, dropped, aside>> /\ Arrives
<1>0. StackInv
  BY DEF AccessInv
<1> DEFINE Goal == Pushes /\ UNCHANGED stream /\ Top.op \notin {"getkey", "peek"} /\ (Enter \/ Other)
<1>a. ASSUME UNCHANGED <<push, got, dropped, aside, stream>>, Top.op \notin {"getkey", "peek", "mate", "drain"}
      PROVE  Goal
  BY <1>a, PushSame DEF Pushes, Other
<1>b. ASSUME Puts, UNCHANGED <<dropped, stream>>, Top.op \notin {"getkey", "peek", "mate", "drain"}
      PROVE  Goal
  BY <1>b DEF Pushes, Other
<1>1. CASE UNCHANGED vars
  BY <1>1 DEF vars, keys, fate, stream, Arrives
<1>2. CASE TerminalStep
  <2>1. CASE Mate \/ Drain \/ Arrow \/ YesNo \/ Line \/ Press \/ Ask \/ Enter
    <3>1. Top.op \notin {"getkey", "peek"}
      BY <2>1 DEF Mate, Drain, Arrow, YesNo, Line, Press, Ask, Enter, At
    <3>2. CASE Enter
      <4>1. UNCHANGED <<stream, got, aside>>
        BY <1>2, <3>2, <3>1 DEF TerminalStep, Enter, Peek, At, KeyRefused, KeyPushed, KeyLocal, Polling,
             KeyNotLocal, KeyRead, KeyWaits, KeyExpires, KeyLost, keys, fate
      <4>2. push' = push \/ (push # <<>> /\ push' = Tail(push))
        BY <3>2 DEF Enter
      <4>3. Pushes
        BY <4>1, <4>2, PushSame DEF Pushes
      <4> QED BY <3>1, <3>2, <4>1, <4>3
    <3>3. CASE ~Enter
      <4>1. UNCHANGED <<stream, push, got, aside, dropped>>
        BY <1>2, <3>3, <3>1 DEF TerminalStep, Peek, At, KeyRefused, KeyPushed, KeyLocal, Polling,
             KeyNotLocal, KeyRead, KeyWaits, KeyExpires, KeyLost, keys, fate
      <4>2. Puts
        BY <4>1, PushSame
      <4>3. ((Mate \/ Drain) /\ push' = push) \/ Top.op \notin {"mate", "drain"}
        BY <2>1, <3>3, <4>1 DEF Arrow, YesNo, Line, Press, Ask, At
      <4> QED BY <3>1, <4>1, <4>2, <4>3 DEF Pushes, Other
    <3> QED BY <3>2, <3>3
  <2>2. CASE (Show \/ Request \/ Door \/ DoorEnds \/ Answered \/ Unwind) /\ UNCHANGED <<stream, keys, fate>>
    <3>1. Top.op \notin {"getkey", "peek", "mate", "drain"}
      BY <1>0, <2>2, ShowMove, SessionMove
    <3>2. UNCHANGED <<stream, push, got, dropped, aside>>
      BY <2>2 DEF keys, fate
    <3> QED BY <1>a, <3>1, <3>2
  <2>3. KeyRefused \/ KeyPushed \/ KeyLocal \/ KeyNotLocal \/ KeyRead \/ KeyWaits \/ KeyExpires \/ KeyLost
        => InnerKey
    BY DEF InnerKey
  <2>4. CASE Peek /\ UNCHANGED <<stream, got, dropped>>
    BY <2>4
  <2> QED BY <1>2, <2>1, <2>2, <2>3, <2>4 DEF TerminalStep
<1>3. CASE MenuStep
  <2>1. CASE Script /\ UNCHANGED <<stream, fate>>
    <3>1. Top.op \notin {"getkey", "peek", "mate", "drain"} /\ UNCHANGED <<stream, got, aside, dropped>>
      BY <1>0, <2>1, ScriptMove DEF fate
    <3>2. Puts
      BY <1>0, <2>1, <3>1, ScriptPushes
    <3> QED BY <1>b, <3>1, <3>2
  <2>2. CASE Engine /\ UNCHANGED <<stream, fate>>
    <3>1. Top.op \notin {"getkey", "peek", "mate", "drain"} /\ UNCHANGED <<stream, got, aside, dropped>>
      BY <1>0, <2>2, EngineMove DEF fate
    <3>2. Puts
      BY <2>2, <3>1, EnginePushes
    <3> QED BY <1>b, <3>1, <3>2
  <2>3. CASE Function /\ UNCHANGED <<stream, fate>>
    <3>1. Top.op \notin {"getkey", "peek", "mate", "drain"} /\ UNCHANGED <<stream, push, got, dropped, aside>>
      BY <2>3 DEF Function, fate
    <3> QED BY <1>a, <3>1
  <2>4. CASE Board /\ UNCHANGED <<stream, keys, fate>>
    <3>1. Top.op \notin {"getkey", "peek", "mate", "drain"} /\ UNCHANGED <<stream, push, got, dropped, aside>>
      BY <1>0, <2>4, SessionMove DEF fate, keys
    <3> QED BY <1>a, <3>1
  <2> QED BY <1>2, <1>3, <2>1, <2>2, <2>3, <2>4 DEF MenuStep
<1>4. CASE (SysopCommand \/ Chat) /\ UNCHANGED <<stream, fate>>
  <2>1. Top.op \notin {"getkey", "peek", "mate", "drain"} /\ UNCHANGED <<stream, got, aside, dropped>>
    BY <1>0, <1>4, CommandMove, ChatMove DEF fate
  <2>2. Puts
    BY <1>4, <2>1, SysopPushes
  <2> QED BY <1>b, <2>1, <2>2
<1>5. CASE (WindowOpens \/ WindowCloses) /\ UNCHANGED <<stream, keys, fate>>
  <2>1. Top.op \notin {"getkey", "peek", "mate", "drain"} /\ UNCHANGED <<stream, push, got, dropped, aside>>
    BY <1>0, <1>5, WindowMove DEF fate, keys
  <2> QED BY <1>a, <2>1
<1>6. CASE Work \/ Answer
  BY <1>3, <1>4, <1>5, <1>6 DEF Work, Answer
<1>7. CASE Waits
  BY <1>7 DEF Waits, InnerKey
<1>8. CASE Pump \/ Caller \/ SysopPresses \/ Time \/ Stays
  <2>1. UNCHANGED <<stack, ret, push, got, dropped, aside>>
    BY <1>8 DEF Pump, Caller, SysopPresses, Time, Stays, Outside, Tick, vars, keys, fate
  <2>2. Arrives
    BY <1>8 DEF Pump, Caller, SysopPresses, Time, Stays, Tick, vars, stream, Arrives, DropCarrier
  <2> QED BY <2>1, <2>2
<1> QED BY <1>1, <1>6, <1>7, <1>8 DEF Next

LEMMA KeyFlows ==
  ASSUME InnerKey PROVE Flows
BY DEF InnerKey, KeyRefused, KeyPushed, KeyLocal, KeyNotLocal, KeyRead, KeyWaits, KeyDeadline,
       KeyExpires, KeyLost, stream, Flows, PumpSleep, Forget

LEMMA StepFlows ==
  ASSUME AccessInv, LbarInv, QaInv, IsSeq(push), [Next]_vars
  PROVE  Flows
BY StepKinds, KeyFlows DEF stream, Flows, Arrives

LEMMA StepRow ==
  ASSUME AccessInv, LbarInv, QaInv, AdjInv, IsSeq(push), [Next]_vars
  PROVE  RowMove
<1>0. StackInv
  BY DEF AccessInv
<1>1. CASE InnerKey
  BY <1>0, <1>1, KeyRow DEF InnerKey
<1>2. CASE Peek /\ UNCHANGED <<stream, got>>
  BY <1>0, <1>2, PeekRow DEF RowMove
<1>3. CASE Pushes /\ Top.op \notin {"getkey", "peek"}
  <2>1. Row = push /\ Row' = push'
    BY <1>0, <1>3, StepMove, NotHeld
  <2> QED BY <1>3, <2>1 DEF Pushes, Puts, RowMove, RowShift
<1>4. CASE UNCHANGED <<stack, ret, push, got, aside>>
  <2>1. Row' = Row
    BY <1>4 DEF Row, Held, At, Top, IsKey
  <2>2. Row' = <<>> \o Row
    <3>1. IsSeq(Row)
      BY PushLemma DEF Row
    <3> QED BY <2>1, <3>1, EmptyCat
  <2> QED BY <1>4, <2>2, NoNodeKeys DEF RowMove, RowShift
<1> QED BY <1>1, <1>2, <1>3, <1>4, StepKinds

---------------------------------------------------------------------------
(* The caller's keys come once each and in order. *)

\* A GetKey that has gone past the buffer of pushed keys.
Inside == \E j \in 1..Len(stack) : stack[j].op = "getkey" /\ stack[j].at \in {"local", "read"}
\* While GetKey is in the node window or reads, the buffer holds no key of the
\* caller but those put aside.
AllAside == \A j \in 1..Len(push) : push[j].s # 0 => Place(push[j]) \in aside
AsideInv == Inside => AllAside
\* The keys that were read and the keys handed out, in order.
RowInv == IsSeq(push) /\ RowOk(got, Row, aside, LineOf, typed)
\* How the buffer changes within GetKey.
Pushed ==
  \/ \E n : NodeKeys(n) /\ push' = n \o push
  \/ push # <<>> /\ push' = Tail(push)

LEMMA PushedKept ==
  ASSUME IsSeq(push), Pushed
  PROVE  IsSeq(push') /\ (aside' = aside /\ AllAside => AllAside')
<1>1. CASE \E n : NodeKeys(n) /\ push' = n \o push
  <2>1. PICK n : NodeKeys(n) /\ push' = n \o push
    BY <1>1
  <2>2. IsSeq(n)
    BY <2>1 DEF NodeKeys
  <2>3. /\ IsSeq(push')
        /\ \A j \in 1..Len(push') : \/ j \in 1..Len(n) /\ push'[j] = n[j]
                                    \/ j - Len(n) \in 1..Len(push) /\ push'[j] = push[j - Len(n)]
    BY <2>1, <2>2, AfterLemma
  <2> QED BY <2>1, <2>3 DEF AllAside, NodeKeys
<1>2. CASE push # <<>> /\ push' = Tail(push)
  <2>1. /\ IsSeq(push') /\ Len(push) \in Nat
        /\ \A j \in 1..Len(push') : push'[j] = push[j + 1] /\ j + 1 \in 2..Len(push)
    BY <1>2, TailLemma
  <2>2. \A j \in 1..Len(push') : push'[j] = push[j + 1] /\ j + 1 \in 1..Len(push)
    BY <2>1
  <2> QED BY <2>1, <2>2 DEF AllAside
<1> QED BY <1>1, <1>2 DEF Pushed

LEMMA InnerPushed ==
  ASSUME IsSeq(push), InnerKey
  PROVE  Pushed /\ aside' = aside
<1>1. ASSUME push' = push PROVE Pushed
  <2>1. push' = <<>> \o push
    BY <1>1, EmptyCat
  <2> QED BY <2>1, NoNodeKeys DEF Pushed
<1>2. aside' = aside
  BY DEF InnerKey, KeyRefused, KeyPushed, KeyLocal, KeyNotLocal, KeyRead, KeyWaits, KeyDeadline,
         KeyExpires, KeyLost, fate, Hand
<1>3. CASE KeyLocal
  <2> DEFINE up == [i \in 1..Len(Cursor) - 1 |-> NodeKey(Cursor[i + 1], TRUE)]
  <2>1. push' = push \/ push' = up \o push
    BY <1>3 DEF KeyLocal
  <2>2. NodeKeys(up)
    BY CursorKeys
  <2> HIDE DEF up
  <2> QED BY <1>1, <1>2, <2>1, <2>2 DEF Pushed
<1>4. CASE KeyPushed
  BY <1>2, <1>4 DEF KeyPushed, Pushed
<1>5. CASE ~KeyLocal /\ ~KeyPushed
  <2>1. push' = push
    BY <1>5 DEF InnerKey, KeyRefused, KeyNotLocal, KeyRead, KeyWaits, KeyDeadline,
                KeyExpires, KeyLost, keys
  <2> QED BY <1>1, <1>2, <2>1
<1> QED BY <1>3, <1>4, <1>5

\* Where a call of GetKey that is past the buffer comes from.
LEMMA InsideBefore ==
  ASSUME StackInv, StackMove, Inside',
         Top.op # "getkey" \/ (\E v : Return(v)) \/ Goto("start")
  PROVE  Inside
<1>0. IsSeq(stack) /\ stack # <<>> /\ Len(stack) \in Nat \ {0} /\ DOMAIN stack = 1..Len(stack)
  BY StackBasics DEF StackInv
<1>1. PICK j \in 1..Len(stack') : stack'[j].op = "getkey" /\ stack'[j].at \in {"local", "read"}
  BY DEF Inside
<1>2. CASE Top.op # "getkey"
  <2>1. StackInv'
    BY StackKept
  <2>2. DOMAIN stack' = 1..Len(stack')
    BY <2>1 DEF StackInv, IsSeq
  <2>3. j \in DOMAIN stack'
    BY <2>2
  <2>4. \/ \E k \in DOMAIN stack : stack'[j] = stack[k]
        \/ Keeps(stack'[j])
        \/ stack'[j].at = "start"
    BY <2>3, FrameFrom
  <2> QED BY <1>0, <1>1, <1>2, <2>4 DEF Keeps, Inside
<1>3. CASE \E v : Return(v)
  <2>1. stack' = Tail(stack)
    BY <1>3 DEF Return
  <2>2. Len(stack') = Len(stack) - 1 /\ \A i \in 1..Len(stack) - 1 : stack'[i] = stack[i + 1]
    BY ONLY <1>0, <2>1, ReturnLemma
  <2>3. stack'[j] = stack[j + 1] /\ j + 1 \in 1..Len(stack)
    BY <1>0, <2>2
  <2> QED BY <1>1, <2>3 DEF Inside
<1>4. CASE Goto("start")
  <2> DEFINE g == [Top EXCEPT !.at = "start"]
  <2>1. stack' = <<g>> \o Tail(stack) /\ g.at = "start"
    BY <1>4, TopLemma, AtLemma DEF Goto
  <2> HIDE DEF g
  <2>2. Len(stack') = Len(stack) /\ stack'[1] = g /\ \A i \in 2..Len(stack) : stack'[i] = stack[i]
    BY ONLY <1>0, <2>1, WithinLemma
  <2>3. j # 1 /\ j \in 1..Len(stack) /\ j \in 2..Len(stack)
    BY <1>0, <1>1, <2>1, <2>2
  <2>4. stack'[j] = stack[j]
    BY <2>2, <2>3
  <2> QED BY <1>1, <2>3, <2>4 DEF Inside
<1> QED BY <1>2, <1>3, <1>4

\* Only a chat can look at keys while another GetKey is past the buffer.
LEMMA ChatPeeks ==
  ASSUME StackInv, AdjInv, Inside, Top.op = "peek"
  PROVE  \E j \in DOMAIN stack : stack[j].op = "chat"
<1>0. Len(stack) \in Nat \ {0} /\ DOMAIN stack = 1..Len(stack) /\ Top = stack[1]
  BY StackBasics
<1>1. PICK j \in 1..Len(stack) : stack[j].op = "getkey" /\ stack[j].at \in {"local", "read"}
  BY DEF Inside
<1>2. ASSUME NEW k \in 2..Len(stack)
      PROVE  May(stack[k - 1].op, stack[k].op, stack[k].at) /\ k - 1 \in 1..Len(stack)
  <2>1. k - 1 \in 1..Len(stack) - 1 /\ (k - 1) + 1 = k /\ k - 1 \in 1..Len(stack)
    BY <1>0
  <2>2. May(stack[k - 1].op, stack[(k - 1) + 1].op, stack[(k - 1) + 1].at)
    BY <2>1 DEF AdjInv
  <2> QED BY <2>1, <2>2
<1>3. j # 1
  BY <1>0, <1>1
<1>4. j \in 2..Len(stack)
  BY <1>0, <1>3
<1>5. stack[j - 1].op = "command" /\ j - 1 \in 1..Len(stack)
  BY <1>1, <1>2, <1>4 DEF May
<1>6. j - 1 # 1
  BY <1>0, <1>5
<1>7. j - 1 \in 2..Len(stack)
  BY <1>0, <1>5, <1>6
<1> DEFINE k == j - 1
<1>8. stack[k - 1].op \in {"chat", "window"} /\ k - 1 \in 1..Len(stack)
  BY <1>2, <1>5, <1>7 DEF May
<1>9. CASE stack[k - 1].op = "window"
  <2>1. k - 1 # 1
    BY <1>0, <1>9
  <2>2. k - 1 \in 2..Len(stack)
    BY <1>0, <1>8, <2>1
  <2>3. May(stack[(k - 1) - 1].op, "window", stack[k - 1].at)
    BY <1>2, <1>9, <2>2
  <2> QED BY <2>3 DEF May
<1> QED BY <1>0, <1>8, <1>9

\* Only a chat reads keys while an outer GetKey reads.
LEMMA AsideKept ==
  ASSUME AccessInv, LbarInv, QaInv, AdjInv, IsSeq(push), AsideInv, [Next]_vars
  PROVE  AsideInv' /\ IsSeq(push')
<1>0. StackInv /\ StackMove
  BY StepMove DEF AccessInv
<1>1. CASE InnerKey
  <2>0. Top.op = "getkey"
    BY <1>0, <1>1, KeyMove DEF InnerKey
  <2>1. Pushed /\ aside' = aside
    BY <1>1, InnerPushed
  <2>2. IsSeq(push') /\ (AllAside => AllAside')
    BY <2>1, PushedKept
  <2>3. CASE Inside
    BY <2>2, <2>3 DEF AsideInv
  <2>4. CASE ~Inside
    <3>1. ~At("getkey", "read") /\ ~At("getkey", "local")
      <4>1. Len(stack) \in Nat \ {0} /\ Top = stack[1]
        BY <1>0, StackBasics
      <4>2. 1 \in 1..Len(stack)
        BY <4>1
      <4> QED BY <2>4, <4>1, <4>2 DEF Inside, At
    <3>2. CASE KeyRefused \/ KeyPushed
      <4>1. (\E v : Return(v)) \/ Goto("start")
        BY <3>2 DEF KeyRefused, KeyPushed, Hand
      <4>2. ~Inside'
        BY <1>0, <2>4, <4>1, InsideBefore
      <4> QED BY <2>2, <4>2 DEF AsideInv
    <3>3. CASE KeyLocal \/ KeyNotLocal
      <4>1. push = <<>>
        BY <3>1, <3>3 DEF KeyLocal, KeyNotLocal, Polling
      <4>2. AllAside
        BY <4>1 DEF AllAside
      <4> QED BY <2>2, <4>2 DEF AsideInv
    <3> QED BY <1>1, <3>1, <3>2, <3>3 DEF InnerKey, KeyRead, KeyWaits, KeyDeadline, KeyExpires, KeyLost
  <2> QED BY <2>3, <2>4
<1>2. CASE Peek
  <2>0. Top.op = "peek"
    BY <1>2 DEF Peek, At
  <2>1. Inside' => Inside
    BY <1>0, <2>0, InsideBefore
  <2>2. CASE UNCHANGED <<push, aside>>
    BY <2>1, <2>2 DEF AsideInv, AllAside
  <2>3. CASE At("peek", "got")
    <3>1. /\ push' = IF IsKey(ret) THEN <<ret>> \o push ELSE push
          /\ aside' = IF ret.s # 0 /\ \E j \in DOMAIN stack : stack[j].op = "chat"
                      THEN aside \cup {<<ret.s, ret.i>>} ELSE aside
      BY <1>2, <2>3 DEF Peek, At
    <3>2. /\ IsSeq(push')
          /\ push' = push \/ \A j \in 1..Len(push') : push'[j] = ret \/ (j - 1 \in 1..Len(push) /\ push'[j] = push[j - 1])
      <4>1. CASE ~IsKey(ret)
        BY <3>1, <4>1
      <4>2. CASE IsKey(ret)
        <5>1. /\ IsSeq(push') /\ Len(push') = Len(push) + 1 /\ Len(push) \in Nat /\ push'[1] = ret
              /\ \A j \in 2..Len(push') : push'[j] = push[j - 1]
          BY <3>1, <4>2, PushLemma
        <5> QED BY <5>1
      <4> QED BY <4>1, <4>2
    <3>3. ASSUME Inside' PROVE AllAside'
      <4>1. AllAside /\ \E j \in DOMAIN stack : stack[j].op = "chat"
        BY <1>0, <2>0, <2>1, <3>3, ChatPeeks DEF AsideInv
      <4>2. aside \subseteq aside' /\ (ret.s # 0 => Place(ret) \in aside')
        BY <3>1, <4>1 DEF Place
      <4> QED BY <3>2, <4>1, <4>2 DEF AllAside
    <3> QED BY <3>2, <3>3 DEF AsideInv
  <2> QED BY <1>2, <2>2, <2>3 DEF Peek
<1>3. CASE Pushes /\ Top.op \notin {"getkey", "peek"}
  <2>1. Inside' => Inside
    BY <1>0, <1>3, InsideBefore
  <2>2. Pushed /\ aside' = aside
    BY <1>3 DEF Pushes, Puts, Pushed
  <2> QED BY <2>1, <2>2, PushedKept DEF AsideInv
<1>4. CASE UNCHANGED <<stack, push, aside>>
  BY <1>4 DEF AsideInv, Inside, AllAside
<1> QED BY <1>1, <1>2, <1>3, <1>4, StepKinds

\* The byte that is read is the first one on the line.
LEMMA ByteRead ==
  ASSUME FlowInv, Yield \/ PumpTake, NEW k, k = KeyOf(Head(rbuf), FALSE)
  PROVE  /\ LineOf # <<>> /\ typed' = typed /\ (Shorter \/ TwoShorter)
         /\ k.s = LineOf[1].s /\ k.i = LineOf[1].i /\ k.c = LineOf[1].c
<1>1. typed' = typed /\ rbuf # <<>>
  BY DEF Yield, Yields, PumpTake
<1>2. Head(rbuf) = LineOf[1] /\ LineOf # <<>>
  BY <1>1, ByteTaken
<1>3. Shorter \/ TwoShorter
  <2>1. CASE Yield
    BY <2>1, YieldLine
  <2>2. CASE PumpTake
    <3>1. rbuf' = Tail(rbuf) /\ wire' = wire
      BY <2>2 DEF PumpTake
    <3> QED BY <1>1, <3>1, TailLine
  <2> QED BY <2>1, <2>2
<1> QED BY <1>1, <1>2, <1>3 DEF KeyOf

LEMMA RowKept ==
  ASSUME AccessInv, LbarInv, QaInv, AdjInv, FlowInv, RowInv, AsideInv, [Next]_vars
  PROVE  RowInv' /\ AsideInv' /\ FlowInv'
<1>0. IsSeq(push) /\ IsSeq(Row) /\ RowOk(got, Row, aside, LineOf, typed) /\ IsSeq(typed)
  <2>1. typed \in Seq(Strokes[kind])
    BY DEF FlowInv
  <2> QED BY <2>1, ElementsLemma DEF RowInv, RowOk
<1>1. AsideInv' /\ IsSeq(push')
  BY <1>0, AsideKept
<1>2. FlowInv' /\ LineMove
  BY <1>0, StepFlows, FlowKept
<1> SUFFICES RowInv'
  BY <1>1, <1>2
<1>3. ASSUME RowOk(got', Row', aside', LineOf, typed) PROVE RowInv'
  <2>1. RowOk(got', Row', aside', LineOf', typed')
    BY <1>2, <1>3, RowLine
  <2> QED BY <1>1, <2>1 DEF RowInv
<1>4. CASE \E n : NodeKeys(n) /\ Row' = n \o Row /\ got' = got /\ aside \subseteq aside'
  <2>1. PICK n : NodeKeys(n) /\ Row' = n \o Row /\ got' = got /\ aside \subseteq aside'
    BY <1>4
  <2>2. RowOk(got, n \o Row, aside', LineOf, typed)
    BY <1>0, <2>1, RowMoreNode
  <2> QED BY <1>3, <2>1, <2>2
<1>5. CASE /\ Row # <<>> /\ Row' = Tail(Row) /\ aside' = aside
           /\ got' = got \/ (Row[1].s # 0 /\ got' = Append(got, Place(Row[1])))
  <2>1. /\ RowOk(got, Tail(Row), aside, LineOf, typed)
        /\ Row[1].s # 0 => RowOk(Append(got, Place(Row[1])), Tail(Row), aside, LineOf, typed)
    BY <1>0, <1>5, RowTail
  <2> QED BY <1>3, <1>5, <2>1
<1>6. CASE RowTake
  <2>0. At("getkey", "read") /\ (Yield \/ PumpTake) /\ Row = push /\ push' = push /\ aside' = aside
    BY <1>6 DEF RowTake, KeyRead
  <2>1. PICK k : /\ k = KeyOf(Head(rbuf), FALSE)
                 /\ \/ Row' = Row /\ got' = got
                    \/ Row' = <<k>> \o Row /\ got' = got
                    \/ Row' = Row /\ k.s # 0 /\ got' = Append(got, Place(k))
    BY <1>6 DEF RowTake
  <2>2. Inside
    <3>1. Len(stack) \in Nat \ {0} /\ Top = stack[1]
      BY StackBasics DEF AccessInv
    <3>2. 1 \in 1..Len(stack)
      BY <3>1
    <3> QED BY <2>0, <3>1, <3>2 DEF Inside, At
  <2>3. \A j \in 1..Len(Row) : Row[j].s # 0 => Place(Row[j]) \in aside
    BY <2>0, <2>2 DEF AsideInv, AllAside
  <2>4. /\ LineOf # <<>> /\ typed' = typed /\ (Shorter \/ TwoShorter)
        /\ k.s = LineOf[1].s /\ k.i = LineOf[1].i /\ k.c = LineOf[1].c
    BY <2>0, <2>1, ByteRead
  <2>5. /\ RowOk(got, <<k>> \o Row, aside, LineOf', typed')
        /\ RowOk(Append(got, Place(k)), Row, aside, LineOf', typed')
    BY <1>0, <2>3, <2>4, RowRead
  <2>6. RowOk(got, Row, aside, LineOf', typed')
    BY <1>0, <1>2, RowLine
  <2>7. RowOk(got', Row', aside', LineOf', typed')
    BY <2>0, <2>1, <2>5, <2>6
  <2> QED BY <1>1, <2>7 DEF RowInv
<1>7. RowMove
  BY <1>0, StepRow
<1> QED BY <1>1, <1>2, <1>4, <1>5, <1>6, <1>7 DEF RowMove, RowShift

\* The inductive invariant of the order.
KeysInv == AccessInv /\ LbarInv /\ QaInv /\ AdjInv /\ FlowInv /\ RowInv /\ AsideInv

LEMMA KeysKept ==
  ASSUME KeysInv, [Next]_vars
  PROVE  KeysInv'
<1>1. StackInv
  BY DEF KeysInv, AccessInv
<1>2. AdjInv'
  BY <1>1, StepNests, NestKept DEF KeysInv
<1>3. AccessInv' /\ LbarInv' /\ QaInv'
  BY <1>1, AccessStep, LbarKept, ScriptsKept DEF KeysInv
<1>4. RowInv' /\ AsideInv' /\ FlowInv'
  BY RowKept DEF KeysInv
<1> QED BY <1>2, <1>3, <1>4 DEF KeysInv

LEMMA KeysStart == Init => KeysInv
<1> SUFFICES ASSUME Init PROVE KeysInv
  OBVIOUS
<1>1. AccessInv /\ LbarInv /\ QaInv
  BY HotKeyStarts DEF HotKeyInv
<1> DEFINE f == [Frame("session", "-") EXCEPT !.at = "idle"]
<1>2. /\ stack = <<f>> /\ push = <<>> /\ got = <<>> /\ aside = {}
      /\ kind \in Kinds /\ typed = <<>> /\ wire = <<>> /\ rbuf = <<>>
  BY DEF Init, TerminalInit, StreamInit
<1>3. f.op = "session" /\ f.at = "idle"
  BY DEF Frame
<1> HIDE DEF f
<1>4. Len(stack) = 1 /\ stack[1] = f /\ Top = f
  BY <1>2 DEF Top
<1>5. AdjInv
  BY <1>4 DEF AdjInv
<1>6. IsSeq(<<>>) /\ Len(<<>>) = 0
  BY NoNodeKeys DEF NodeKeys
<1>7. <<>> \o <<>> = <<>>
  BY <1>6, EmptyCat
<1>8. LineOf = <<>> /\ Row = <<>>
  BY <1>2, <1>3, <1>4, <1>7 DEF LineOf, Row, Held, At
<1>9. FlowInv
  BY <1>2, <1>6, <1>8 DEF FlowInv, Formed
<1>10. RowInv
  BY <1>2, <1>6, <1>8 DEF RowInv, RowOk, Ordered
<1>11. AsideInv
  BY <1>2, <1>6 DEF AsideInv, AllAside
<1> QED BY <1>1, <1>5, <1>9, <1>10, <1>11 DEF KeysInv

\* The first part of KeysOnceInOrder.
Once == \A i, j \in 1..Len(got) :
          i < j => got[i] # got[j] /\ (Before(got[i], got[j]) \/ got[j] \in aside)

\* Which call of the session may be under way within which other, and where in
\* it: GetKey and PeekKey serve the prompts, lines, texts and menus; a command of
\* the sysop runs only where GetKey looks at the node window, a chat only at the
\* end of a command, and a window only in one of these two.
THEOREM CallsNest == Spec => []AdjInv
<1>1. KeysInv => AdjInv
  BY DEF KeysInv
<1> QED BY KeysStart, KeysKept, <1>1, PTL DEF Spec

\* Whatever the caller's strokes are, GetKey hands out his keys once each and in
\* the order in which they were typed, but for keys that PeekKey put back while
\* the sysop chats.
THEOREM KeysOnce == Spec => []Once
<1>1. KeysInv => Once
  BY DEF KeysInv, RowInv, RowOk, Ordered, Apart, Once
<1> QED BY KeysStart, KeysKept, <1>1, PTL DEF Spec

---------------------------------------------------------------------------
(* Strokes, and what is left of them on the line. *)

\* The stroke a byte belongs to.
Stroke(b) == typed[b.s]

\* The bytes of a stroke: where the ends of lines are, and what begins and ends
\* a command.
LEMMA StrokeLemma ==
  ASSUME StrokesFormed, FlowInv, NEW b, ByteOk(b, typed), NEW code, code = Stroke(b)
  PROVE  /\ b.s \in Nat \ {0} /\ Len(code) \in Nat \ {0} /\ b.i \in 1..Len(code) /\ b.c = code[b.i]
         /\ b.c \in Mates /\ code[1] = "CR" => b.i = 2
         /\ code[1] = "CR" => Len(code) \in 1..2 /\ (Len(code) = 2 => code[2] \in Mates)
         /\ b.c = "CR" => (code[1] = "CR" /\ b.i = 1) \/ code[1] = "IAC"
         /\ b.c = "IAC" => code[1] = "IAC"
         /\ code[1] = "IAC" => kind = "telnet" /\ CommandStroke(code)
<1>1. b.s \in 1..Len(typed) /\ b.i \in 1..Len(code) /\ b.c = code[b.i]
  BY DEF ByteOk, OfTyped, Stroke
<1>2. typed \in Seq(Strokes[kind]) /\ kind \in Kinds
  BY DEF FlowInv
<1>3. code \in Strokes[kind]
  BY <1>1, <1>2 DEF Stroke
<1>4. b.s \in Nat \ {0}
  BY <1>1, <1>2
<1>5. code \in Seq(STRING) /\ code # <<>>
  BY <1>2, <1>3, StreamsAssumption
<1>6. Len(code) \in Nat \ {0}
  BY <1>5
<1>7. EnterStroke(code) \/ PlainStroke(code) \/ (kind = "telnet" /\ CommandStroke(code))
  BY <1>2, <1>3 DEF StrokesFormed
<1>8. b.i = 1 \/ b.i \in 2..Len(code)
  BY <1>1, <1>6
<1>9. CASE EnterStroke(code)
  <2>1. code[1] = "CR" /\ (Len(code) = 1 \/ (Len(code) = 2 /\ code[2] \in Mates))
    BY <1>9 DEF EnterStroke
  <2>2. b.i = 1 \/ (b.i = 2 /\ Len(code) = 2)
    <3>1. Len(code) = 1 \/ Len(code) = 2
      BY <2>1
    <3>2. CASE Len(code) = 1
      <4>1. 2..1 = {}
        OBVIOUS
      <4> QED BY ONLY <1>8, <3>2, <4>1
    <3>3. CASE Len(code) = 2
      <4>1. 2..2 = {2}
        OBVIOUS
      <4> QED BY ONLY <1>8, <3>3, <4>1
    <3> QED BY <3>1, <3>2, <3>3
  <2>3. \A c \in Mates : c # "CR" /\ c # "IAC"
    BY DEF Mates
  <2> QED BY <1>1, <1>4, <1>6, <2>1, <2>2, <2>3 DEF Mates
<1>10. CASE PlainStroke(code)
  <2>1. \A i \in 1..Len(code) : code[i] \notin {"IAC", "CR"}
    BY <1>10 DEF PlainStroke
  <2>2. 1 \in 1..Len(code)
    BY <1>6
  <2> QED BY <1>1, <1>4, <1>6, <2>1, <2>2
<1>11. CASE kind = "telnet" /\ CommandStroke(code)
  <2>1. code[1] = "IAC"
    BY <1>11 DEF CommandStroke
  <2> QED BY <1>1, <1>4, <1>6, <1>11, <2>1
<1> QED BY <1>7, <1>9, <1>10, <1>11

\* What a command looks like.
LEMMA CommandLemma ==
  ASSUME NEW code, CommandStroke(code), Len(code) \in Nat
  PROVE  /\ Len(code) > 2
         /\ code[2] # "IAC"
         /\ Len(code) = 3 => code[2] # "SB" /\ code[3] # "IAC"
         /\ Len(code) > 3 => /\ code[2] = "SB" /\ code[Len(code)] = "SE" /\ code[Len(code) - 1] = "IAC"
                             /\ \A i \in 3..Len(code) - 2 : code[i] # "IAC"
<1>1. CASE Len(code) = 3 /\ code[2] \notin {"IAC", "SB"} /\ code[3] # "IAC"
  BY <1>1
<1>2. CASE /\ Len(code) > 3 /\ code[2] = "SB" /\ code[Len(code) - 1] = "IAC" /\ code[Len(code)] = "SE"
           /\ \A i \in 3..Len(code) - 2 : code[i] # "IAC"
  BY <1>2
<1> QED BY <1>1, <1>2 DEF CommandStroke

\* The byte after the first one.
LEMMA NextOf ==
  ASSUME NEW l, IsSeq(l), l # <<>>, NEW w, Formed(l, w)
  PROVE  /\ ByteOk(l[1], w)
         /\ Tail(l) = <<>> => l[1].s = Len(w) /\ l[1].i = Len(w[l[1].s])
         /\ Tail(l) # <<>> => Tail(l)[1] = l[2] /\ ByteOk(l[2], w) /\ Follows(l[2], l[1], w)
<1> DEFINE t == Tail(l)
<1>2. /\ IsSeq(t) /\ Len(l) \in Nat \ {0} /\ Len(t) = Len(l) - 1
      /\ \A j \in 1..Len(t) : t[j] = l[j + 1] /\ j + 1 \in 2..Len(l)
  BY TailLemma
<1> HIDE DEF t
<1>3. 1 \in 1..Len(l)
  BY <1>2
<1>4. ByteOk(l[1], w)
  BY <1>3 DEF Formed
<1>5. CASE t = <<>>
  <2>1. Len(l) = 1
    BY <1>2, <1>5
  <2>2. l[1].s = Len(w) /\ l[1].i = Len(w[Len(w)])
    BY <2>1 DEF Formed
  <2> QED BY <1>4, <1>5, <2>2 DEF t
<1>6. CASE t # <<>>
  <2>1. Len(t) # 0
    BY <1>2, <1>6 DEF IsSeq
  <2>2. 1 \in 1..Len(t) /\ 2 \in 1..Len(l) /\ 1 \in 1..Len(l) - 1
    BY <1>2, <2>1
  <2>3. t[1] = l[2]
    BY <1>2, <2>2
  <2>4. Follows(l[1 + 1], l[1], w)
    BY <2>2 DEF Formed
  <2> QED BY <1>4, <1>6, <2>2, <2>3, <2>4 DEF Formed, t
<1> QED BY <1>5, <1>6

---------------------------------------------------------------------------
(* How far the telnet filter is into a command. *)

\* The state m of the filter before the byte i of a command.
Midst(code, i, m) ==
  \/ i = 2 /\ m = "command"
  \/ i = 3 /\ Len(code) = 3 /\ m \in Sides \cup {"other"}
  \/ i \in 3..Len(code) - 1 /\ m = "sub"
  \/ i = Len(code) /\ Len(code) > 3 /\ m = "subIAC"

\* A command was cut, and what is left of it taken for data.
Loose(s) == Cut(s) \/ AfterCut(s)

\* Before the byte b, the filter is in no command, or has come as far as b is
\* in one; what is left of a command that was cut may be taken for data, and
\* its end for a command that takes the next byte.
AtByte(b) ==
  \/ mid = "data" /\ (b.i = 1 \/ ~IsCommand(b.s) \/ Loose(b.s))
  \/ mid = "other" /\ b.i = 1 /\ Loose(b.s)
  \/ IsCommand(b.s) /\ Midst(Stroke(b), b.i, mid)
  \/ IsCommand(b.s) /\ Loose(b.s) /\ mid = "command" /\ b.i = Len(Stroke(b)) /\ b.c = "SE"
\* The state of the filter fits the first byte on the line, and it waits for the
\* rest of an Enter when that is the first byte.
FilterInv ==
  /\ \A c \in cut : c \in 1..Len(typed) /\ IsCommand(c)
  /\ LineOf = <<>> => mid = "data" \/ (mid = "other" /\ AfterCut(Len(typed) + 1))
  /\ LineOf # <<>> => AtByte(LineOf[1])
  /\ kind = "telnet" /\ LineOf # <<>> /\ LineOf[1].i = 2 /\ Stroke(LineOf[1])[1] = "CR" =>
       mate \/ AfterCut(LineOf[1].s)
  /\ kind # "telnet" => mid = "data" /\ cut = {}

\* What that means once the byte b was taken.
Past(b) ==
  \/ mid' = "data" /\ (b.i = Len(Stroke(b)) \/ ~IsCommand(b.s) \/ Loose(b.s))
  \/ mid' = "other" /\ IsCommand(b.s) /\ Loose(b.s) /\ b.i = Len(Stroke(b))
  \/ IsCommand(b.s) /\ b.i < Len(Stroke(b)) /\ Midst(Stroke(b), b.i + 1, mid')
  \/ /\ IsCommand(b.s) /\ Loose(b.s) /\ mid' = "command"
     /\ b.i + 1 = Len(Stroke(b)) /\ Stroke(b)[Len(Stroke(b))] = "SE"

\* A byte the filter keeps takes it one byte further.
LEMMA SkipPast ==
  ASSUME StrokesFormed, FlowInv, NEW b, ByteOk(b, typed), AtByte(b), rbuf # <<>>, Head(rbuf) = b, Skip
  PROVE  Past(b) /\ (b.c = "CR" /\ ~IsCommand(b.s) => Loose(b.s))
<1> DEFINE code == Stroke(b)
<1>0. \A n \in Nat : n > 2 /\ n # 3 => n > 3
  OBVIOUS
<1>1. IsCommand(b.s) <=> code[1] = "IAC"
  BY DEF IsCommand, Stroke
<1>2. /\ b.s \in Nat \ {0} /\ Len(code) \in Nat \ {0} /\ b.i \in 1..Len(code) /\ b.c = code[b.i]
      /\ b.c = "IAC" => code[1] = "IAC"
      /\ code[1] = "IAC" => CommandStroke(code)
  BY StrokeLemma
<1>3. code = Stroke(b)
  OBVIOUS
<1> HIDE DEF code
<1>4. CommandStroke(code) =>
         /\ Len(code) > 2 /\ code[2] # "IAC"
         /\ Len(code) = 3 => code[2] # "SB" /\ code[3] # "IAC"
         /\ Len(code) > 3 => /\ code[2] = "SB" /\ code[Len(code)] = "SE" /\ code[Len(code) - 1] = "IAC"
                             /\ \A i \in 3..Len(code) - 2 : code[i] # "IAC"
  BY <1>2, CommandLemma
<1>5. \/ mid = "data" /\ (b.i = 1 \/ ~IsCommand(b.s) \/ Loose(b.s))
      \/ mid = "other" /\ b.i = 1 /\ Loose(b.s)
      \/ IsCommand(b.s) /\ Midst(code, b.i, mid)
      \/ IsCommand(b.s) /\ Loose(b.s) /\ mid = "command" /\ b.i = Len(code) /\ b.c = "SE"
  BY <1>3 DEF AtByte
<1>6. DropMate \/ Command \/ Option
  BY DEF Skip
<1>7. ~(mid = "data" /\ b.c # "IAC" /\ ~(mate /\ b.c \in Mates)) /\ ~(mid = "command" /\ b.c = "IAC")
  BY DEF Skip, Yields, IsData, IsEscaped
<1>8. b.c = "CR" /\ ~IsCommand(b.s) => Loose(b.s)
  BY <1>5, <1>7 DEF Mates
<1>9. CASE DropMate
  <2>1. mid = "data" /\ mid' = "data" /\ b.c \in Mates
    BY <1>9 DEF DropMate
  <2>2. b.i = 1 => ~IsCommand(b.s)
    BY <1>1, <1>2, <2>1 DEF Mates
  <2>3. ~IsCommand(b.s) \/ Loose(b.s)
    BY <1>5, <2>1, <2>2 DEF Midst, Sides
  <2> QED BY <1>8, <2>1, <2>3 DEF Past
<1>10. CASE Option
  <2>1. mid' = "data" /\ mid \in Sides
    BY <1>10 DEF Option
  <2>2. IsCommand(b.s) /\ Midst(code, b.i, mid)
    BY <1>5, <2>1 DEF Sides
  <2>3. b.i = Len(code)
    BY <2>1, <2>2 DEF Midst, Sides
  <2> QED BY <1>3, <1>8, <2>1, <2>3 DEF Past
<1>11. CASE Command /\ mid = "data"
  <2>1. b.c = "IAC" /\ mid' = "command"
    BY <1>11 DEF Command
  <2>2. IsCommand(b.s) /\ CommandStroke(code)
    BY <1>1, <1>2, <2>1
  <2>3. CASE b.i = 1
    <3>1. Midst(code, b.i + 1, mid') /\ b.i < Len(code)
      BY <1>2, <1>4, <2>1, <2>2, <2>3 DEF Midst
    <3> QED BY <1>3, <1>8, <2>2, <3>1 DEF Past
  <2>4. CASE b.i # 1
    <3>1. Loose(b.s)
      BY <1>5, <1>11, <2>2, <2>4 DEF Midst, Sides
    <3>2. b.i + 1 = Len(code) /\ code[Len(code)] = "SE"
      <4>1. Len(code) > 2 /\ code[2] # "IAC" /\ b.i # 2
        BY <1>2, <1>4, <2>1, <2>2
      <4>2. Len(code) # 3
        <5>1. Len(code) = 3 => b.i = 3
          BY <1>2, <2>4, <4>1
        <5> QED BY <1>2, <1>4, <2>1, <2>2, <5>1
      <4>3. Len(code) > 3
        BY ONLY <1>0, <1>2, <4>1, <4>2
      <4>4. b.i # Len(code) /\ ~(b.i \in 3..Len(code) - 2) /\ code[Len(code)] = "SE"
        BY <1>2, <1>4, <2>1, <2>2, <4>3
      <4> QED BY <1>2, <2>4, <4>1, <4>3, <4>4
    <3> QED BY <1>3, <1>8, <2>1, <2>2, <3>1, <3>2 DEF Past
  <2> QED BY <2>3, <2>4
<1>12. CASE Command /\ mid = "command"
  <2>1. mid' = IF b.c \in DOMAIN Commands THEN Commands[b.c] ELSE "other"
    BY <1>12 DEF Command
  <2>2. IsCommand(b.s) /\ CommandStroke(code)
    BY <1>1, <1>2, <1>5, <1>12
  <2>3. \/ b.i = 2
        \/ Loose(b.s) /\ b.i = Len(code) /\ b.c = "SE"
    BY <1>5, <1>12 DEF Midst, Sides
  <2>4. CASE b.i = 2
    <3>1. CASE Len(code) = 3
      <4>1. b.c # "SB"
        BY <1>2, <1>4, <2>2, <2>4, <3>1
      <4>2. mid' \in Sides \cup {"other"}
        BY <2>1, <4>1 DEF Commands, Sides
      <4>3. Midst(code, b.i + 1, mid') /\ b.i < Len(code)
        BY <2>4, <3>1, <4>2 DEF Midst
      <4> QED BY <1>3, <1>8, <2>2, <4>3 DEF Past
    <3>2. CASE Len(code) # 3
      <4>1. Len(code) > 3
        <5>1. Len(code) \in Nat /\ Len(code) > 2
          BY <1>2, <1>4, <2>2
        <5> QED BY ONLY <1>0, <3>2, <5>1
      <4>a. b.c = "SB"
        BY <1>2, <1>4, <2>2, <2>4, <4>1
      <4>2. mid' = "sub"
        BY <2>1, <4>a DEF Commands
      <4>3. Midst(code, b.i + 1, mid') /\ b.i < Len(code)
        BY <1>2, <2>4, <4>1, <4>2 DEF Midst
      <4> QED BY <1>3, <1>8, <2>2, <4>3 DEF Past
    <3> QED BY <3>1, <3>2
  <2>5. CASE Loose(b.s) /\ b.i = Len(code) /\ b.c = "SE"
    <3>1. mid' = "other"
      BY <2>1, <2>5 DEF Commands
    <3> QED BY <1>3, <1>8, <2>2, <2>5, <3>1 DEF Past
  <2> QED BY <2>3, <2>4, <2>5
<1>13. CASE Command /\ mid = "other"
  <2>1. mid' = "data"
    BY <1>13 DEF Command
  <2>2. Loose(b.s) \/ (IsCommand(b.s) /\ Midst(code, b.i, mid))
    BY <1>5, <1>13
  <2>3. Loose(b.s) \/ b.i = Len(code)
    BY <1>13, <2>2 DEF Midst
  <2> QED BY <1>3, <1>8, <2>1, <2>3 DEF Past
<1>14. CASE Command /\ mid = "sub"
  <2>1. mid' = IF b.c = "IAC" THEN "subIAC" ELSE "sub"
    BY <1>14 DEF Command
  <2>2. IsCommand(b.s) /\ CommandStroke(code) /\ b.i \in 3..Len(code) - 1
    BY <1>1, <1>2, <1>5, <1>14 DEF Midst, Sides
  <2>3. Len(code) > 3
    BY <1>2, <2>2
  <2>4. CASE b.i = Len(code) - 1
    <3>1. mid' = "subIAC" /\ b.i + 1 = Len(code) /\ b.i < Len(code)
      BY <1>2, <1>4, <2>1, <2>2, <2>3, <2>4
    <3> QED BY <1>3, <1>8, <2>2, <2>3, <3>1 DEF Past, Midst
  <2>5. CASE b.i # Len(code) - 1
    <3>1. b.i \in 3..Len(code) - 2
      BY <1>2, <2>2, <2>5
    <3>2. mid' = "sub"
      BY <1>2, <1>4, <2>1, <2>2, <2>3, <3>1
    <3>3. b.i + 1 \in 3..Len(code) - 1 /\ b.i < Len(code)
      BY <1>2, <3>1
    <3> QED BY <1>3, <1>8, <2>2, <3>2, <3>3 DEF Past, Midst
  <2> QED BY <2>4, <2>5
<1>15. CASE Command /\ mid = "subIAC"
  <2>1. mid' = IF b.c = "SE" THEN "data" ELSE "sub"
    BY <1>15 DEF Command
  <2>2. IsCommand(b.s) /\ CommandStroke(code) /\ b.i = Len(code) /\ Len(code) > 3
    BY <1>1, <1>2, <1>5, <1>15 DEF Midst, Sides
  <2>3. mid' = "data"
    BY <1>2, <1>4, <2>1, <2>2
  <2> QED BY <1>3, <1>8, <2>2, <2>3 DEF Past
<1> QED BY <1>6, <1>9, <1>10, <1>11, <1>12, <1>13, <1>14, <1>15 DEF Command

\* What was cut leaves its mark on the strokes behind it, for good.
LEMMA LooseNext ==
  ASSUME FilterInv, NEW s \in Nat, IsCommand(s), Loose(s)
  PROVE  AfterCut(s + 1)
<1>0. cut \subseteq Nat
  BY DEF FilterInv
<1>1. CASE Cut(s)
  <2>1. s \in cut /\ s < s + 1 /\ s + 1..(s + 1) - 1 = {}
    BY <1>1 DEF Cut
  <2> QED BY <2>1 DEF AfterCut
<1>2. CASE AfterCut(s)
  <2>1. PICK c \in cut : c < s /\ \A r \in c + 1..s - 1 : IsCommand(r)
    BY <1>2 DEF AfterCut
  <2>2. \A r \in c + 1..(s + 1) - 1 : r \in c + 1..s - 1 \/ r = s
    BY <1>0
  <2>3. c < s + 1
    BY <1>0, <2>1
  <2> QED BY <2>1, <2>2, <2>3 DEF AfterCut
<1> QED BY <1>1, <1>2 DEF Loose

\* Strokes are added, and commands cut, but nothing is taken back.
TypedOn ==
  /\ \A s \in 1..Len(typed) : typed'[s] = typed[s] /\ s \in 1..Len(typed')
  /\ cut \subseteq cut'

LEMMA LooseMore ==
  ASSUME FlowInv, FilterInv, TypedOn
  PROVE  /\ \A s \in 1..Len(typed) : /\ IsCommand(s)' <=> IsCommand(s)
                                     /\ Loose(s) => Loose(s)'
         /\ \A s \in 1..Len(typed) + 1 : AfterCut(s) => AfterCut(s)'
<1>0. Len(typed) \in Nat /\ \A c \in cut : c \in 1..Len(typed)
  BY DEF FlowInv, FilterInv
<1>1. \A s \in 1..Len(typed) : IsCommand(s)' <=> IsCommand(s)
  BY DEF IsCommand, TypedOn
<1>2. ASSUME NEW s \in 1..Len(typed) + 1, AfterCut(s) PROVE AfterCut(s)'
  <2>1. PICK c \in cut : c < s /\ \A r \in c + 1..s - 1 : IsCommand(r)
    BY <1>2 DEF AfterCut
  <2>2. \A r \in c + 1..s - 1 : r \in 1..Len(typed)
    BY <1>0
  <2>3. c \in cut' /\ \A r \in c + 1..s - 1 : IsCommand(r)'
    BY <1>1, <2>1, <2>2 DEF TypedOn
  <2> QED BY <2>1, <2>3 DEF AfterCut
<1>3. ASSUME NEW s \in 1..Len(typed), Loose(s) PROVE Loose(s)'
  <2>1. s \in 1..Len(typed) + 1
    BY <1>0
  <2>2. CASE Cut(s)
    BY <2>2 DEF Loose, Cut, TypedOn
  <2> QED BY <1>2, <1>3, <2>1, <2>2 DEF Loose
<1> QED BY <1>1, <1>2, <1>3

\* The filter comes to the next byte.
LEMMA PastNext ==
  ASSUME FlowInv, FilterInv, LineOf # <<>>, Past(LineOf[1]), Shorter, UNCHANGED <<typed, cut>>
  PROVE  /\ (LineOf = <<>> => mid = "data" \/ (mid = "other" /\ AfterCut(Len(typed) + 1)))'
         /\ (LineOf # <<>> => AtByte(LineOf[1]))'
<1>a. PICK b : b = LineOf[1]
  OBVIOUS
<1>b. PICK n : n = LineOf[2]
  OBVIOUS
<1>0. IsSeq(LineOf) /\ Formed(LineOf, typed) /\ LineOf' = Tail(LineOf)
  BY LineSeq DEF FlowInv, Shorter
<1>1. /\ ByteOk(b, typed)
      /\ LineOf' = <<>> => b.s = Len(typed) /\ b.i = Len(typed[b.s])
      /\ LineOf' # <<>> => LineOf'[1] = n /\ ByteOk(n, typed) /\ Follows(n, b, typed)
  BY <1>0, <1>a, <1>b, NextOf
<1>2. Past(b)
  BY <1>a
<1>3. b.s \in 1..Len(typed) /\ b.i \in 1..Len(typed[b.s]) /\ Len(typed) \in Nat /\ b.s \in Nat
  BY <1>1 DEF ByteOk, OfTyped, FlowInv
<1>4. typed[b.s] \in Seq(STRING)
  BY <1>3, StreamsAssumption DEF FlowInv
<1>5. Len(typed[b.s]) \in Nat
  BY <1>4
<1>6. IsCommand(b.s) /\ Loose(b.s) => AfterCut(b.s + 1)
  BY <1>3, LooseNext
<1>7. CASE LineOf' = <<>>
  <2>1. mid' = "data" \/ (mid' = "other" /\ AfterCut(b.s + 1))
    BY <1>1, <1>2, <1>3, <1>5, <1>6, <1>7 DEF Past, Stroke
  <2>2. mid' = "data" \/ (mid' = "other" /\ AfterCut(Len(typed) + 1)')
    BY <1>1, <1>7, <2>1 DEF AfterCut, IsCommand
  <2> QED BY <1>7, <2>2
<1>8. CASE LineOf' # <<>>
  <2>1. LineOf'[1] = n /\ n.i \in 1..Len(typed[n.s]) /\ n.c = typed[n.s][n.i]
    BY <1>1, <1>8 DEF ByteOk, OfTyped
  <2>2. \/ n.s = b.s /\ n.i = b.i + 1
        \/ n.s = b.s + 1 /\ n.i = 1 /\ b.i = Len(typed[b.s])
    BY <1>1, <1>8 DEF Follows
  <2>3. \/ mid' = "data" /\ (n.i = 1 \/ ~IsCommand(n.s) \/ Loose(n.s))
        \/ mid' = "other" /\ n.i = 1 /\ Loose(n.s)
        \/ IsCommand(n.s) /\ Midst(Stroke(n), n.i, mid')
        \/ IsCommand(n.s) /\ Loose(n.s) /\ mid' = "command" /\ n.i = Len(Stroke(n)) /\ n.c = "SE"
    <3>1. CASE n.s = b.s /\ n.i = b.i + 1
      <4>1. b.i + 1 \in 1..Len(typed[b.s]) /\ b.i # Len(typed[b.s]) /\ Stroke(n) = Stroke(b)
        BY <1>3, <1>5, <2>1, <3>1 DEF Stroke
      <4> QED BY <1>2, <2>1, <3>1, <4>1 DEF Past, Stroke
    <3>2. CASE n.s = b.s + 1 /\ n.i = 1 /\ b.i = Len(typed[b.s])
      <4>1. mid' = "data" \/ (mid' = "other" /\ AfterCut(n.s))
        BY <1>2, <1>3, <1>5, <1>6, <3>2 DEF Past, Stroke
      <4> QED BY <3>2, <4>1 DEF Loose
    <3> QED BY <2>2, <3>1, <3>2
  <2>4. /\ IsCommand(n.s)' <=> IsCommand(n.s)
        /\ Loose(n.s)' <=> Loose(n.s)
        /\ Stroke(n)' = Stroke(n)
    BY DEF IsCommand, Loose, Cut, AfterCut, Stroke
  <2> QED BY <1>8, <2>1, <2>3, <2>4 DEF AtByte
<1> QED BY <1>7, <1>8

\* A byte the telnet filter lets through is no part of a command, but for one
\* that was cut, or that comes after one that was.
LEMMA YieldPast ==
  ASSUME StrokesFormed, FlowInv, NEW b, ByteOk(b, typed), AtByte(b), rbuf # <<>>, Head(rbuf) = b, Yield
  PROVE  Past(b) /\ IsData(b) /\ (IsCommand(b.s) => Loose(b.s))
<1> DEFINE code == Stroke(b)
<1>1. IsCommand(b.s) <=> code[1] = "IAC"
  BY DEF IsCommand, Stroke
<1>2. /\ b.s \in Nat \ {0} /\ Len(code) \in Nat \ {0} /\ b.i \in 1..Len(code) /\ b.c = code[b.i]
      /\ b.c = "IAC" => code[1] = "IAC"
      /\ code[1] = "IAC" => CommandStroke(code)
  BY StrokeLemma
<1>3. code = Stroke(b)
  OBVIOUS
<1> HIDE DEF code
<1>4. CommandStroke(code) =>
         /\ Len(code) > 2 /\ code[2] # "IAC"
         /\ Len(code) > 3 => code[Len(code)] = "SE"
  BY <1>2, CommandLemma
<1>5. \/ mid = "data" /\ (b.i = 1 \/ ~IsCommand(b.s) \/ Loose(b.s))
      \/ mid = "other" /\ b.i = 1 /\ Loose(b.s)
      \/ IsCommand(b.s) /\ Midst(code, b.i, mid)
      \/ IsCommand(b.s) /\ Loose(b.s) /\ mid = "command" /\ b.i = Len(code) /\ b.c = "SE"
  BY <1>3 DEF AtByte
<1>6. IsData(b) \/ IsEscaped(b)
  BY DEF Yield, Yields
<1>7. ~IsEscaped(b)
  <2> SUFFICES ASSUME mid = "command", b.c = "IAC" PROVE FALSE
    BY DEF IsEscaped
  <2>1. Midst(code, b.i, mid)
    BY <1>5
  <2>2. b.i = 2
    BY <2>1 DEF Midst, Sides
  <2> QED BY <1>2, <1>4, <2>2
<1>8. IsCommand(b.s) => Loose(b.s)
  <2>1. mid = "data" /\ b.c # "IAC"
    BY <1>6, <1>7 DEF IsData
  <2>2. IsCommand(b.s) => b.i # 1
    BY <1>1, <1>2, <2>1
  <2> QED BY <1>5, <2>1, <2>2 DEF Midst, Sides
<1>9. mid' = "data"
  BY DEF Yield
<1> QED BY <1>6, <1>7, <1>8, <1>9 DEF Past

\* The byte Yield looks ahead to.
LEMMA SecondByte ==
  ASSUME FlowInv, Len(rbuf) > 1
  PROVE  rbuf[2] = LineOf[2]
<1>1. IsSeq(rbuf) /\ IsSeq(wire) /\ LineOf = rbuf \o wire
  BY DEF FlowInv, LineOf
<1>2. /\ Len(LineOf) = Len(rbuf) + Len(wire) /\ Len(rbuf) \in Nat /\ Len(wire) \in Nat
      /\ \A j \in 1..Len(LineOf) : \/ j \in 1..Len(rbuf) /\ LineOf[j] = rbuf[j]
                                   \/ j - Len(rbuf) \in 1..Len(wire) /\ LineOf[j] = wire[j - Len(rbuf)]
  BY <1>1, AfterLemma
<1>3. 2 \in 1..Len(LineOf) /\ ~(2 - Len(rbuf) \in 1..Len(wire))
  BY <1>2
<1> QED BY <1>2, <1>3

\* The rest of an Enter is on the line only while the filter waits for it.
MateKnown == kind = "telnet" /\ LineOf # <<>> /\ LineOf[1].i = 2 /\ Stroke(LineOf[1])[1] = "CR" =>
               mate \/ AfterCut(LineOf[1].s)

\* A byte is taken from the line.
LEMMA FirstTaken ==
  ASSUME StrokesFormed, FlowInv, FilterInv, LineOf # <<>>, Shorter, UNCHANGED <<kind, typed, cut>>,
         Past(LineOf[1]), kind # "telnet" => mid' = "data",
         kind = "telnet" /\ LineOf[1].c = "CR" /\ ~IsCommand(LineOf[1].s)
           /\ Tail(LineOf) # <<>> /\ LineOf[2].c \in Mates => mate' \/ AfterCut(LineOf[1].s)
  PROVE  FilterInv'
<1>a. PICK b : b = LineOf[1]
  OBVIOUS
<1>b. PICK n : n = LineOf[2]
  OBVIOUS
<1>0. IsSeq(LineOf) /\ Formed(LineOf, typed) /\ LineOf' = Tail(LineOf)
  BY LineSeq DEF FlowInv, Shorter
<1>1. /\ ByteOk(b, typed)
      /\ LineOf' # <<>> => LineOf'[1] = n /\ ByteOk(n, typed) /\ Follows(n, b, typed)
  BY <1>0, <1>a, <1>b, NextOf
<1>2. /\ (LineOf = <<>> => mid = "data" \/ (mid = "other" /\ AfterCut(Len(typed) + 1)))'
      /\ (LineOf # <<>> => AtByte(LineOf[1]))'
  BY PastNext
<1>3. MateKnown'
  <2> SUFFICES ASSUME kind = "telnet", LineOf' # <<>>, n.i = 2, Stroke(n)[1] = "CR"
               PROVE  mate' \/ AfterCut(n.s)
    <3>1. kind' = kind /\ (Stroke(n)' = Stroke(n)) /\ (AfterCut(n.s)' <=> AfterCut(n.s))
      BY DEF Stroke, AfterCut, IsCommand
    <3>2. LineOf' # <<>> => Stroke(LineOf[1])' = Stroke(n)' /\ (AfterCut(LineOf[1].s)' <=> AfterCut(n.s)')
      BY <1>1
    <3> QED BY <1>1, <3>1, <3>2 DEF MateKnown
  <2>1. /\ Len(Stroke(n)) \in 1..2 /\ (Len(Stroke(n)) = 2 => Stroke(n)[2] \in Mates)
        /\ n.i \in 1..Len(Stroke(n)) /\ n.c = Stroke(n)[n.i]
    BY <1>1, StrokeLemma
  <2>2. Len(Stroke(n)) = 2 /\ n.c \in Mates
    BY <2>1
  <2>3. n.s = b.s /\ n.i = b.i + 1
    BY <1>1 DEF Follows
  <2>4. b.i \in Nat
    BY <1>1, StrokeLemma
  <2>5. b.i = 1
    BY <2>3, <2>4
  <2>6. b.c = "CR"
    BY <1>1, <2>3, <2>5 DEF ByteOk, Stroke
  <2>7. Tail(LineOf) # <<>> /\ ~IsCommand(b.s)
    BY <1>0, <2>3 DEF Stroke, IsCommand
  <2> QED BY <1>a, <1>b, <2>2, <2>3, <2>6, <2>7
<1>4. \A c \in cut' : c \in 1..Len(typed') /\ IsCommand(c)'
  BY DEF FilterInv, IsCommand
<1>5. kind' # "telnet" => mid' = "data" /\ cut' = {}
  BY DEF FilterInv
<1> QED BY <1>2, <1>3, <1>4, <1>5 DEF FilterInv, MateKnown

\* A key and an end of line behind it are taken at once.
LEMMA TwoTaken ==
  ASSUME StrokesFormed, FlowInv, FilterInv, TwoShorter, UNCHANGED <<kind, typed, cut>>, mid' = "data",
         IsCommand(LineOf[1].s) => Loose(LineOf[1].s), LineOf[2].c \in Mates
  PROVE  FilterInv'
<1>a. PICK b : b = LineOf[1]
  OBVIOUS
<1>b. PICK n : n = LineOf[2]
  OBVIOUS
<1> DEFINE t == Tail(LineOf)
<1>0. LineOf # <<>> /\ IsSeq(LineOf) /\ Formed(LineOf, typed) /\ LineOf' = Tail(t) /\ t # <<>>
  BY LineSeq DEF FlowInv, TwoShorter
<1>1. t[1] = n /\ ByteOk(n, typed) /\ Follows(n, b, typed)
  BY <1>0, <1>a, <1>b, NextOf
<1>2. IsSeq(t) /\ Formed(t, typed)
  BY <1>0, FormedTail
<1> HIDE DEF t
<1>c. PICK m : m = t[2]
  OBVIOUS
<1>3. LineOf' # <<>> => LineOf'[1] = m /\ ByteOk(m, typed) /\ Follows(m, n, typed)
  BY <1>0, <1>1, <1>2, <1>c, NextOf
<1>4. /\ n.c = Stroke(n)[n.i] /\ n.c \in Mates /\ n.i \in Nat \ {0}
      /\ Stroke(n)[1] = "CR" => n.i = 2 /\ Len(Stroke(n)) \in 1..2
  <2>1. Len(Stroke(n)) \in Nat /\ n.i \in 1..Len(Stroke(n))
    BY <1>1, StrokeLemma
  <2> QED BY <1>1, <1>b, <2>1, StrokeLemma
<1>5. IsCommand(n.s) => Loose(n.s)
  <2>1. IsCommand(n.s) => n.i # 1
    BY <1>4 DEF IsCommand, Stroke, Mates
  <2>2. n.i = 1 \/ n.s = b.s
    BY <1>1 DEF Follows
  <2> QED BY <1>a, <2>1, <2>2
<1>6. LineOf' # <<>> => /\ m.i = 1 \/ ~IsCommand(m.s) \/ Loose(m.s)
                        /\ ~(m.i = 2 /\ Stroke(m)[1] = "CR")
  <2> SUFFICES ASSUME LineOf' # <<>>
               PROVE  (m.i = 1 \/ ~IsCommand(m.s) \/ Loose(m.s)) /\ ~(m.i = 2 /\ Stroke(m)[1] = "CR")
    OBVIOUS
  <2>1. m.i \in 1..Len(Stroke(m))
    BY <1>3, StrokeLemma
  <2>a. \A k \in 1..2 : \A i \in 1..k : i # 3
    OBVIOUS
  <2>2. CASE m.s = n.s /\ m.i = n.i + 1
    <3>1. ~IsCommand(m.s) \/ Loose(m.s)
      BY <1>5, <2>2
    <3>2. ASSUME Stroke(m)[1] = "CR" PROVE FALSE
      <4>1. n.i = 2 /\ Len(Stroke(n)) \in 1..2
        BY <1>4, <2>2, <3>2 DEF Stroke
      <4>2. m.i = 3 /\ m.i \in 1..Len(Stroke(n))
        BY <2>1, <2>2, <4>1 DEF Stroke
      <4> QED BY <2>a, <4>1, <4>2
    <3> QED BY <3>1, <3>2
  <2>3. CASE m.s = n.s + 1 /\ m.i = 1
    BY <2>3
  <2> QED BY <1>3, <2>2, <2>3 DEF Follows
<1>7. (LineOf # <<>> => AtByte(LineOf[1]))' /\ MateKnown'
  <2>1. /\ IsCommand(m.s)' <=> IsCommand(m.s)
        /\ Loose(m.s)' <=> Loose(m.s)
        /\ Stroke(m)' = Stroke(m)
    BY DEF IsCommand, Loose, Cut, AfterCut, Stroke
  <2>2. LineOf' # <<>> => AtByte(m)'
    BY <1>6, <2>1 DEF AtByte
  <2>3. LineOf' # <<>> => LineOf'[1] = m /\ (AtByte(LineOf[1])' <=> AtByte(m)') /\ Stroke(LineOf[1])' = Stroke(m)'
    BY <1>3 DEF AtByte
  <2> QED BY <1>6, <2>1, <2>2, <2>3 DEF MateKnown
<1>8. \A c \in cut' : c \in 1..Len(typed') /\ IsCommand(c)'
  BY DEF FilterInv, IsCommand
<1>9. kind' # "telnet" => mid' = "data" /\ cut' = {}
  BY DEF FilterInv
<1>10. (LineOf = <<>>)' => mid' = "data"
  OBVIOUS
<1> QED BY <1>7, <1>8, <1>9, <1>10 DEF FilterInv, MateKnown

\* The first byte of the line stays, or the line was empty.
LEMMA FirstStays ==
  ASSUME FlowInv, FilterInv, TypedOn, UNCHANGED <<kind, mate, mid, cut>>,
         \/ LineOf' = LineOf /\ typed' = typed
         \/ LineOf # <<>> /\ LineOf' # <<>> /\ LineOf'[1] = LineOf[1]
         \/ LineOf = <<>> /\ LineOf' # <<>> /\ LineOf'[1].i = 1 /\ LineOf'[1].s = Len(typed) + 1
  PROVE  FilterInv'
<1>0. \A c \in cut : c \in 1..Len(typed) /\ IsCommand(c)
  BY DEF FilterInv
<1>1. /\ \A s \in 1..Len(typed) : /\ IsCommand(s)' <=> IsCommand(s)
                                  /\ Loose(s) => Loose(s)'
      /\ \A s \in 1..Len(typed) + 1 : AfterCut(s) => AfterCut(s)'
  BY LooseMore
<1>2. \A c \in cut' : c \in 1..Len(typed') /\ IsCommand(c)'
  BY <1>0, <1>1 DEF TypedOn
<1>3. kind' # "telnet" => mid' = "data" /\ cut' = {}
  BY DEF FilterInv
<1>4. Len(typed) \in Nat /\ Len(typed) + 1 \in 1..Len(typed) + 1
  BY DEF FlowInv
<1>5. CASE LineOf = <<>> /\ LineOf' = <<>> /\ typed' = typed
  <2>1. mid' = "data" \/ (mid' = "other" /\ AfterCut(Len(typed) + 1)')
    BY <1>1, <1>4, <1>5 DEF FilterInv
  <2>2. AfterCut(Len(typed) + 1)' <=> (\E c \in cut' : c < Len(typed') + 1 /\ \A r \in c + 1..(Len(typed') + 1) - 1 : IsCommand(r)')
    BY DEF AfterCut
  <2> QED BY <1>2, <1>3, <1>5, <2>1 DEF FilterInv
<1>6. CASE LineOf = <<>> /\ LineOf' # <<>> /\ LineOf'[1].i = 1 /\ LineOf'[1].s = Len(typed) + 1
  <2>1. mid = "data" \/ (mid = "other" /\ AfterCut(Len(typed) + 1))
    BY <1>6 DEF FilterInv
  <2>a. PICK s : s = Len(typed) + 1
    OBVIOUS
  <2>2. mid' = "data" \/ (mid' = "other" /\ AfterCut(s)')
    BY <1>1, <1>4, <2>1, <2>a
  <2>3. LineOf'[1].s = s
    BY <1>6, <2>a
  <2>4. AtByte(LineOf[1])'
    BY <1>6, <2>2, <2>3 DEF AtByte, Loose
  <2> QED BY <1>2, <1>3, <1>6, <2>4 DEF FilterInv
<1>7. CASE LineOf # <<>> /\ LineOf' # <<>> /\ LineOf'[1] = LineOf[1]
  <2>a. PICK b : b = LineOf[1]
    OBVIOUS
  <2>0. LineOf'[1] = b
    BY <1>7, <2>a
  <2>1. b.s \in 1..Len(typed)
    <3>1. IsSeq(LineOf) /\ Formed(LineOf, typed)
      BY LineSeq DEF FlowInv
    <3> QED BY <1>7, <2>a, <3>1, NextOf DEF ByteOk, OfTyped
  <2>2. /\ IsCommand(b.s)' <=> IsCommand(b.s)
        /\ Loose(b.s) => Loose(b.s)'
        /\ AfterCut(b.s) => AfterCut(b.s)'
        /\ Stroke(b)' = Stroke(b)
    BY <1>1, <1>4, <2>1 DEF Stroke, TypedOn
  <2>3. AtByte(b) /\ (kind = "telnet" /\ b.i = 2 /\ Stroke(b)[1] = "CR" => mate \/ AfterCut(b.s))
    BY <1>7, <2>a DEF FilterInv
  <2>4. AtByte(b)' /\ (kind' = "telnet" /\ b.i = 2 /\ Stroke(b)'[1] = "CR" => mate' \/ AfterCut(b.s)')
    BY <2>2, <2>3 DEF AtByte
  <2>5. AtByte(LineOf[1])' <=> AtByte(b)'
    BY <2>0 DEF AtByte
  <2>6. Stroke(LineOf[1])' = Stroke(b)' /\ (AfterCut(LineOf[1].s)' <=> AfterCut(b.s)')
    BY <2>0
  <2> QED BY <1>2, <1>3, <1>7, <2>0, <2>4, <2>5, <2>6 DEF FilterInv
<1> QED BY <1>5, <1>6, <1>7

\* A deadline passes while the filter waits for more.
LEMMA FilterForgets ==
  ASSUME FlowInv, FilterInv, Forget, rbuf = <<>>
  PROVE  FilterInv'
<1>0. /\ UNCHANGED <<kind, typed, wire, rbuf, mate>> /\ mid' = "data" /\ LineOf' = LineOf /\ LineOf = wire
      /\ cut' = IF mid = "data" \/ wire = <<>> \/ Head(wire).i = 1 THEN cut ELSE cut \cup {Head(wire).s}
      /\ IsSeq(LineOf) /\ Formed(LineOf, typed)
  <2>1. UNCHANGED <<kind, typed, wire, rbuf, mate>> /\ mid' = "data"
    BY DEF Forget
  <2>2. cut' = IF mid = "data" \/ wire = <<>> \/ Head(wire).i = 1 THEN cut ELSE cut \cup {Head(wire).s}
    BY DEF Forget
  <2> QED BY <2>1, <2>2, LineSeq DEF LineOf, FlowInv
<1>1. TypedOn
  BY <1>0 DEF TypedOn, FlowInv
<1>2. CASE mid = "data"
  BY <1>0, <1>1, <1>2, FirstStays
<1>3. CASE mid # "data"
  <2>1. kind = "telnet" /\ \A c \in cut : c \in 1..Len(typed) /\ IsCommand(c)
    BY <1>3 DEF FilterInv
  <2>2. CASE LineOf = <<>>
    BY <1>0, <2>1, <2>2 DEF FilterInv, IsCommand
  <2>3. CASE LineOf # <<>>
    <3>a. PICK b : b = LineOf[1]
      OBVIOUS
    <3>1. Head(wire) = b /\ wire # <<>> /\ ByteOk(b, typed)
      BY <1>0, <2>3, <3>a, TailLemma, NextOf
    <3>2. LineOf' # <<>> /\ LineOf'[1] = b /\ b.s \in 1..Len(typed)
      BY <1>0, <2>3, <3>a, <3>1 DEF ByteOk, OfTyped
    <3>3. CASE b.i = 1
      <4>1. AtByte(LineOf[1])' /\ MateKnown'
        BY <1>0, <3>2, <3>3 DEF AtByte, MateKnown
      <4>2. cut' = cut
        BY <1>0, <3>1, <3>3
      <4> QED BY <1>0, <2>1, <3>2, <4>1, <4>2 DEF FilterInv, MateKnown, IsCommand
    <3>4. CASE b.i # 1
      <4>1. cut' = cut \cup {b.s}
        BY <1>0, <1>3, <3>1, <3>4
      <4>2. IsCommand(b.s)
        BY <1>3, <2>3, <3>4, <3>a DEF FilterInv, AtByte
      <4>3. AtByte(b)' /\ Stroke(b)[1] # "CR"
        BY <1>0, <4>1, <4>2 DEF AtByte, Loose, Cut, IsCommand, Stroke
      <4>4. AtByte(LineOf[1])' <=> AtByte(b)'
        BY <3>2 DEF AtByte
      <4>5. Stroke(LineOf[1])' = Stroke(b)
        BY <1>0, <3>2 DEF Stroke
      <4>6. \A c \in cut' : c \in 1..Len(typed') /\ IsCommand(c)'
        BY <1>0, <2>1, <3>2, <4>1, <4>2 DEF IsCommand
      <4> QED BY <1>0, <2>1, <3>2, <4>3, <4>4, <4>5, <4>6 DEF FilterInv
    <3> QED BY <3>3, <3>4
  <2> QED BY <2>2, <2>3
<1> QED BY <1>2, <1>3

\* How the stream moves.
StreamMoves ==
  \/ UNCHANGED <<kind, typed, rbuf, wire, mid, mate, cut>>
  \/ Type \/ Fill \/ Skip \/ PumpLoop \/ KeyRead
  \/ Forget /\ rbuf = <<>>

\* Every step moves the stream in one of these ways.
LEMMA StreamStep ==
  ASSUME AccessInv, LbarInv, QaInv, IsSeq(push), [Next]_vars
  PROVE  StreamMoves
<1>1. CASE InnerKey
  BY <1>1 DEF InnerKey, KeyRefused, KeyPushed, KeyLocal, KeyNotLocal, KeyRead, KeyWaits, KeyDeadline,
       KeyExpires, KeyLost, stream, StreamMoves, PumpSleep
<1>2. CASE UNCHANGED stream
  BY <1>2 DEF stream, StreamMoves
<1>3. CASE Pump \/ Caller
  BY <1>3 DEF Pump, Caller, DropCarrier, StreamMoves
<1>4. CASE Work \/ Answer \/ Waits
  <2>1. InnerKey \/ UNCHANGED stream
    BY <1>4 DEF Work, Answer, Waits, MenuStep, TerminalStep, InnerKey
  <2> QED BY <1>1, <1>2, <2>1
<1>5. CASE SysopPresses \/ Time \/ Stays \/ UNCHANGED vars
  BY <1>2, <1>5 DEF SysopPresses, Time, Tick, Stays, vars
<1> QED BY <1>3, <1>4, <1>5 DEF Next

\* What the caller types comes behind what is on the line.
FirstKept ==
  /\ TypedOn
  /\ \/ LineOf' = LineOf /\ typed' = typed
     \/ LineOf # <<>> /\ LineOf' # <<>> /\ LineOf'[1] = LineOf[1]
     \/ LineOf = <<>> /\ LineOf' # <<>> /\ LineOf'[1].i = 1 /\ LineOf'[1].s = Len(typed) + 1

LEMMA TypeFirst ==
  ASSUME FlowInv, Type
  PROVE  FirstKept
<1>1. IsSeq(LineOf)
  BY LineSeq
<1>2. UNCHANGED <<kind, mid, mate, cut>>
  BY DEF Type
<1>3. PICK code \in Strokes[kind] : /\ code \in Strings /\ typed' = Append(typed, code)
                                    /\ LineOf' = LineOf \o Bytes(code, Len(typed) + 1)
  BY TypeLine
<1>4. TypedOn
  BY <1>2, <1>3, TypedMore DEF TypedOn, FlowInv
<1>b. PICK t : t = Bytes(code, Len(typed) + 1)
  OBVIOUS
<1>5. IsSeq(t) /\ Len(t) \in Nat \ {0} /\ \A i \in 1..Len(t) : t[i].s = Len(typed) + 1 /\ t[i].i = i
  BY <1>3, <1>b, BytesLemma
<1>6. /\ IsSeq(LineOf \o t) /\ Len(LineOf \o t) = Len(LineOf) + Len(t) /\ Len(LineOf) \in Nat
      /\ \A j \in 1..Len(LineOf \o t) :
           \/ j \in 1..Len(LineOf) /\ (LineOf \o t)[j] = LineOf[j]
           \/ j - Len(LineOf) \in 1..Len(t) /\ (LineOf \o t)[j] = t[j - Len(LineOf)]
  BY <1>1, <1>5, AfterLemma
<1>c. PICK u : u = LineOf \o t
  OBVIOUS
<1>7. LineOf' = u /\ Len(u) = Len(LineOf) + Len(t) /\ 1 \in 1..Len(u) /\ u # <<>>
  <2>1. LineOf' = u /\ Len(u) = Len(LineOf) + Len(t)
    BY <1>3, <1>b, <1>c, <1>6
  <2>2. Len(u) \in Nat \ {0}
    BY <1>5, <1>6, <2>1
  <2> QED BY <2>1, <2>2
<1>8. \/ 1 \in 1..Len(LineOf) /\ u[1] = LineOf[1]
      \/ 1 - Len(LineOf) \in 1..Len(t) /\ u[1] = t[1 - Len(LineOf)]
  BY <1>6, <1>7, <1>c
<1>9. CASE LineOf # <<>>
  <2>1. Len(LineOf) # 0
    BY <1>1, <1>9 DEF IsSeq
  <2>2. ~(1 - Len(LineOf) \in 1..Len(t))
    BY <1>5, <1>6, <2>1
  <2> QED BY <1>4, <1>7, <1>8, <1>9, <2>2 DEF FirstKept
<1>10. CASE LineOf = <<>>
  <2>1. Len(LineOf) = 0
    BY <1>10
  <2>2. u[1] = t[1] /\ 1 \in 1..Len(t)
    BY <1>5, <1>8, <2>1
  <2> QED BY <1>4, <1>5, <1>7, <1>10, <2>2 DEF FirstKept
<1> QED BY <1>9, <1>10

LEMMA StillFirst ==
  ASSUME FlowInv, UNCHANGED <<kind, typed, rbuf, wire, mid, mate, cut>> \/ Fill \/ PumpLoop
  PROVE  FirstKept /\ UNCHANGED <<kind, typed, mid, mate, cut>>
<1>1. UNCHANGED <<kind, typed, mid, mate, cut>>
  BY DEF Fill, PumpLoop
<1>2. LineOf' = LineOf
  BY FillLine, PumpLine, FlowSame
<1> QED BY <1>1, <1>2 DEF FirstKept, TypedOn

\* The filter never loses its place but in a command that was cut.
LEMMA FilterKept ==
  ASSUME StrokesFormed, FlowInv, FilterInv, StreamMoves
  PROVE  FilterInv'
<1>a. PICK b : b = LineOf[1]
  OBVIOUS
<1>0. /\ IsSeq(LineOf) /\ Formed(LineOf, typed)
      /\ LineOf # <<>> => ByteOk(b, typed) /\ AtByte(b)
  BY <1>a, LineSeq, NextOf DEF FlowInv, FilterInv
<1>1. CASE UNCHANGED <<kind, typed, rbuf, wire, mid, mate, cut>> \/ Fill \/ PumpLoop
  BY <1>1, StillFirst, FirstStays DEF FirstKept
<1>2. CASE Type
  <2>1. UNCHANGED <<kind, mid, mate, cut>>
    BY <1>2 DEF Type
  <2>2. FirstKept
    BY <1>2, TypeFirst
  <2> QED BY <2>1, <2>2, FirstStays DEF FirstKept
<1>3. CASE Forget /\ rbuf = <<>>
  BY <1>3, FilterForgets
<1>4. CASE Skip
  <2>1. rbuf # <<>> /\ rbuf' = Tail(rbuf) /\ wire' = wire /\ UNCHANGED <<kind, typed, cut>> /\ kind = "telnet"
    BY <1>4 DEF Skip
  <2>2. Shorter /\ Head(rbuf) = b /\ LineOf # <<>>
    BY <1>a, <2>1, TailLine DEF Shorter
  <2>3. Past(b) /\ (b.c = "CR" /\ ~IsCommand(b.s) => Loose(b.s))
    BY <1>0, <1>4, <2>1, <2>2, SkipPast
  <2>4. b.c = "CR" /\ ~IsCommand(b.s) => AfterCut(b.s)
    BY <2>3 DEF FilterInv, Cut, Loose
  <2>5. Past(LineOf[1]) /\ (LineOf[1].c = "CR" /\ ~IsCommand(LineOf[1].s) => AfterCut(LineOf[1].s))
    BY <1>a, <2>3, <2>4
  <2> QED BY <2>1, <2>2, <2>5, FirstTaken
<1>5. CASE Yield
  <2>1. UNCHANGED <<kind, typed, cut>> /\ kind = "telnet" /\ mid' = "data"
    BY <1>5 DEF Yield, Yields
  <2>2. /\ rbuf # <<>> /\ Head(rbuf) = b
        /\ \/ Shorter /\ ~(IsData(b) /\ b.c = "CR" /\ Len(rbuf) > 1 /\ rbuf[2].c \in Mates)
           \/ TwoShorter /\ rbuf[2].c \in Mates
    BY <1>a, <1>5, YieldLine
  <2>3. LineOf # <<>>
    BY <2>2 DEF Shorter, TwoShorter
  <2>4. Past(b) /\ IsData(b) /\ (IsCommand(b.s) => Loose(b.s))
    BY <1>0, <1>5, <2>2, <2>3, YieldPast
  <2>5. CASE TwoShorter /\ rbuf[2].c \in Mates
    BY <1>a, <2>1, <2>4, <2>5, TwoTaken DEF TwoShorter
  <2>6. CASE Shorter /\ ~(b.c = "CR" /\ Len(rbuf) > 1 /\ rbuf[2].c \in Mates)
    <3>1. mate' = (b.c = "CR" /\ Len(rbuf) = 1)
      <4>1. ~IsEscaped(b)
        BY <2>4 DEF IsData, IsEscaped
      <4> QED BY <1>5, <2>2, <4>1 DEF Yield
    <3>2. ASSUME b.c = "CR", LineOf[2].c \in Mates PROVE mate'
      <4>1. Len(rbuf) \in Nat \ {0}
        BY <2>2 DEF FlowInv, IsSeq
      <4>2. Len(rbuf) > 1 => FALSE
        BY <2>6, <3>2, SecondByte
      <4>3. \A n \in Nat \ {0} : n > 1 \/ n = 1
        OBVIOUS
      <4> QED BY <3>1, <3>2, <4>1, <4>2, <4>3
    <3>3. Past(LineOf[1])
      BY <1>a, <2>4
    <3> QED BY <1>a, <2>1, <2>3, <2>6, <3>2, <3>3, FirstTaken
  <2> QED BY <2>2, <2>4, <2>5, <2>6
<1>6. CASE PumpTake
  <2>1. rbuf # <<>> /\ rbuf' = Tail(rbuf) /\ wire' = wire /\ UNCHANGED <<kind, typed, cut, mid>> /\ kind # "telnet"
    BY <1>6 DEF PumpTake
  <2>2. Shorter /\ LineOf # <<>>
    BY <2>1, TailLine DEF Shorter
  <2>3. mid' = "data"
    BY <2>1 DEF FilterInv
  <2>4. ~IsCommand(b.s)
    BY <1>0, <2>1, <2>2, StrokeLemma DEF Stroke, IsCommand
  <2>5. Past(LineOf[1])
    BY <1>a, <2>3, <2>4 DEF Past
  <2> QED BY <2>1, <2>2, <2>3, <2>5, FirstTaken
<1> QED BY <1>1, <1>2, <1>3, <1>4, <1>5, <1>6 DEF StreamMoves, KeyRead

---------------------------------------------------------------------------
(* A caller without a node window. *)

\* The calls of the node window.
Console == {"command", "chat", "window"}
NoConsole == \A j \in 1..Len(stack) : stack[j].op \notin Console

LEMMA NoConsoleKept ==
  ASSUME StackInv, NoConsole, NestMove,
         Top.op = "getkey" => stack' = stack \/ stack' = Tail(stack) \/ \E a : Goto(a)
  PROVE  NoConsole'
<1>0. IsSeq(stack) /\ stack # <<>>
  BY DEF StackInv
<1>a. Len(stack) \in Nat \ {0} /\ Top = stack[1]
  BY StackBasics
<1>b. 1 \in 1..Len(stack)
  BY <1>a
<1>c. Top.op \notin Console
  BY <1>a, <1>b DEF NoConsole
<1>1. CASE stack' = stack
  BY <1>1 DEF NoConsole
<1>2. CASE stack' = Tail(stack)
  <2>1. Len(stack') = Len(stack) - 1 /\ \A j \in 1..Len(stack) - 1 : stack'[j] = stack[j + 1]
    BY ONLY <1>0, <1>2, ReturnLemma
  <2>2. ASSUME NEW j \in 1..Len(stack') PROVE stack'[j].op \notin Console
    <3>1. stack'[j] = stack[j + 1] /\ j + 1 \in 1..Len(stack)
      BY <1>a, <2>1
    <3> QED BY <3>1 DEF NoConsole
  <2> QED BY <2>2 DEF NoConsole
<1>3. CASE \E g : stack' = <<g>> \o Tail(stack) /\ g.op = Top.op
  <2>1. PICK g : stack' = <<g>> \o Tail(stack) /\ g.op = Top.op
    BY <1>3
  <2>2. Len(stack') = Len(stack) /\ stack'[1] = g /\ \A j \in 2..Len(stack) : stack'[j] = stack[j]
    BY ONLY <1>0, <2>1, WithinLemma
  <2>3. ASSUME NEW j \in 1..Len(stack') PROVE stack'[j].op \notin Console
    <3>1. j \in 1..Len(stack) /\ (j = 1 \/ j \in 2..Len(stack))
      BY <1>a, <2>2
    <3> QED BY <1>c, <2>1, <2>2, <3>1 DEF NoConsole
  <2> QED BY <2>3 DEF NoConsole
<1>4. CASE \E f, g : stack' = <<f, g>> \o Tail(stack) /\ g.op = Top.op /\ May(f.op, g.op, g.at)
  <2>1. PICK f, g : stack' = <<f, g>> \o Tail(stack) /\ g.op = Top.op /\ May(f.op, g.op, g.at)
    BY <1>4
  <2>2. /\ Len(stack') = Len(stack) + 1 /\ stack'[1] = f /\ stack'[2] = g
        /\ \A j \in 3..Len(stack) + 1 : stack'[j] = stack[j - 1]
    BY ONLY <1>0, <2>1, CallLemma
  <2>3. CASE Top.op = "getkey"
    <3>1. CASE stack' = stack \/ stack' = Tail(stack)
      BY <1>1, <1>2, <3>1
    <3>2. CASE \E a : Goto(a)
      <4>1. PICK a : Goto(a)
        BY <3>2
      <4>b. PICK h : h = [Top EXCEPT !.at = a]
        OBVIOUS
      <4>2. stack' = <<h>> \o Tail(stack)
        BY <4>1, <4>b DEF Goto
      <4>3. Len(stack') = Len(stack)
        BY ONLY <1>0, <4>2, WithinLemma
      <4> QED BY <1>a, <2>2, <4>3
    <3> QED BY <2>3, <3>1, <3>2
  <2>4. CASE Top.op # "getkey"
    <3>1. f.op \notin Console
      BY <1>c, <2>1, <2>4 DEF May, Console
    <3>2. ASSUME NEW j \in 1..Len(stack') PROVE stack'[j].op \notin Console
      <4>1. j = 1 \/ j = 2 \/ (j \in 3..Len(stack) + 1 /\ j - 1 \in 1..Len(stack))
        BY <1>a, <2>2
      <4> QED BY <1>c, <2>1, <2>2, <3>1, <4>1 DEF NoConsole
    <3> QED BY <3>2 DEF NoConsole
  <2> QED BY <2>3, <2>4
<1> QED BY <1>1, <1>2, <1>3, <1>4 DEF NestMove

\* Nobody presses keys at a node window that is not there.
LEMMA NoWindowStep ==
  ASSUME AccessInv, LbarInv, QaInv, AdjInv, IsSeq(push), kind # "telnet",
         local = <<>>, NoConsole, aside = {}, [Next]_vars
  PROVE  local' = <<>> /\ NoConsole' /\ aside' = {} /\ ~KeyLocal
<1>0. StackInv /\ NestMove
  BY StepNests DEF AccessInv
<1>1. ~KeyLocal
  BY DEF KeyLocal
<1>2. local' = local
  <2>1. CASE InnerKey
    BY <1>1, <2>1 DEF InnerKey, KeyRefused, KeyPushed, KeyNotLocal, KeyRead, KeyWaits, KeyDeadline, KeyExpires,
       KeyLost, keys
  <2>2. CASE Pump \/ Caller \/ SysopPresses \/ Time \/ Stays \/ UNCHANGED vars
    BY <2>2 DEF Pump, Caller, SysopPresses, Time, Stays, Outside, Tick, vars, keys, window
  <2>3. CASE Work \/ Answer \/ Waits
    <3>1. InnerKey \/ UNCHANGED local
      BY <2>3 DEF Work, Answer, Waits, MenuStep, TerminalStep, InnerKey, keys, Script, Engine
    <3> QED BY <2>1, <3>1
  <2> QED BY <2>1, <2>2, <2>3 DEF Next
<1>3. NoConsole'
  <2> SUFFICES ASSUME Top.op = "getkey" PROVE stack' = stack \/ stack' = Tail(stack) \/ \E a : Goto(a)
    BY <1>0, NoConsoleKept
  <2>1. InnerKey \/ stack' = stack
    BY StepKinds DEF Peek, At
  <2>2. CASE InnerKey
    BY <1>1, <2>2 DEF InnerKey, KeyRefused, KeyPushed, KeyNotLocal, KeyRead, KeyWaits, KeyDeadline, KeyExpires,
       KeyLost, Hand, Return
  <2> QED BY <2>1, <2>2
<1>4. aside' = aside
  <2>1. CASE InnerKey
    BY <2>1, InnerPushed
  <2>2. CASE Peek
    <3>1. ~\E j \in DOMAIN stack : stack[j].op = "chat"
      BY <1>0, StackBasics DEF NoConsole, Console
    <3> QED BY <2>2, <3>1 DEF Peek
  <2> QED BY <2>1, <2>2, StepKinds DEF Pushes, Puts
<1> QED BY <1>1, <1>2, <1>3, <1>4

\* An Enter whose rest is still on the line is the last key that was read, or
\* a node key was read since; where it waits in the buffer, it waits alone.
Waiting(s) ==
  /\ crPend /\ crOf = s
  /\ \A j \in 1..Len(Row) : Row[j].s # 0 => Row[j].s = s /\ Row[j].i = 1
EnterOpen ==
  LineOf # <<>> /\ LineOf[1].i = 2 /\ Stroke(LineOf[1])[1] = "CR" =>
    LineOf[1].s \in mixed \/ Waiting(LineOf[1].s)
SshInv ==
  kind # "telnet" => local = <<>> /\ NoConsole /\ aside = {} /\ EnterOpen

\* Only these steps change what GetKey knows of the last Enter.
LEMMA CrKinds ==
  ASSUME AccessInv, LbarInv, QaInv, IsSeq(push), [Next]_vars
  PROVE  UNCHANGED <<crPend, crOf, mixed>> \/ KeyPushed \/ KeyLocal \/ KeyRead
<1>1. CASE InnerKey
  BY <1>1 DEF InnerKey, KeyRefused, KeyNotLocal, KeyWaits, KeyDeadline, KeyExpires, KeyLost, keys, fate
<1>2. CASE Pump \/ Caller \/ SysopPresses \/ Time \/ Stays \/ UNCHANGED vars
  BY <1>2 DEF Pump, Caller, SysopPresses, Time, Stays, Outside, Tick, vars, keys, fate
<1>3. CASE Work \/ Answer \/ Waits
  <2>1. InnerKey \/ UNCHANGED <<crPend, crOf, mixed>>
    BY <1>3 DEF Work, Answer, Waits, MenuStep, TerminalStep, InnerKey, keys, fate
  <2> QED BY <1>1, <2>1
<1> QED BY <1>2, <1>3 DEF Next

LEMMA MixedMore ==
  ASSUME AccessInv, LbarInv, QaInv, IsSeq(push), [Next]_vars
  PROVE  mixed \subseteq mixed'
<1>1. CASE KeyPushed \/ KeyLocal \/ KeyRead
  <2>1. mixed' = mixed \/ mixed' = mixed \cup {crOf}
    BY <1>1 DEF KeyPushed, KeyLocal, KeyRead, Hand, fate
  <2> QED BY <2>1
<1> QED BY <1>1, CrKinds

\* A key of the caller in the row was in it before, unless it was just read.
LEMMA RowFrom ==
  ASSUME IsSeq(Row), RowShift
  PROVE  \A j \in 1..Len(Row') : Row'[j].s # 0 => \E i \in 1..Len(Row) : Row'[j] = Row[i]
<1>1. CASE \E n : NodeKeys(n) /\ Row' = n \o Row
  <2>1. PICK n : NodeKeys(n) /\ Row' = n \o Row
    BY <1>1
  <2>2. \A j \in 1..Len(n \o Row) : \/ j \in 1..Len(n) /\ (n \o Row)[j] = n[j]
                                    \/ j - Len(n) \in 1..Len(Row) /\ (n \o Row)[j] = Row[j - Len(n)]
    BY <2>1, AfterLemma DEF NodeKeys
  <2> QED BY <2>1, <2>2 DEF NodeKeys
<1>2. CASE Row # <<>> /\ Row' = Tail(Row)
  <2>1. Len(Row) \in Nat \ {0} /\ \A j \in 1..Len(Tail(Row)) : Tail(Row)[j] = Row[j + 1] /\ j + 1 \in 2..Len(Row)
    BY <1>2, TailLemma
  <2>2. \A i \in 2..Len(Row) : i \in 1..Len(Row)
    BY <2>1
  <2> QED BY <1>2, <2>1, <2>2
<1> QED BY <1>1, <1>2 DEF RowShift

\* No key was read: the Enter still waits.
LEMMA OpenStays ==
  ASSUME FlowInv, EnterOpen, FirstKept, IsSeq(Row), RowShift, UNCHANGED <<crPend, crOf>>, mixed \subseteq mixed'
  PROVE  EnterOpen'
<1>1. ASSUME NEW s, Waiting(s) PROVE Waiting(s)'
  BY <1>1, RowFrom DEF Waiting
<1>2. CASE LineOf # <<>> /\ LineOf' # <<>> /\ LineOf'[1] = LineOf[1]
  <2>a. PICK b : b = LineOf[1]
    OBVIOUS
  <2>1. b.s \in 1..Len(typed)
    <3>1. IsSeq(LineOf) /\ Formed(LineOf, typed)
      BY LineSeq DEF FlowInv
    <3> QED BY <1>2, <2>a, <3>1, NextOf DEF ByteOk, OfTyped
  <2>2. LineOf'[1] = b /\ typed'[b.s] = typed[b.s]
    BY <1>2, <2>a, <2>1 DEF FirstKept, TypedOn
  <2>3. b.i = 2 /\ typed[b.s][1] = "CR" => b.s \in mixed \/ Waiting(b.s)
    BY <1>2, <2>a DEF EnterOpen, Stroke
  <2>4. b.i = 2 /\ typed'[b.s][1] = "CR" => b.s \in mixed' \/ Waiting(b.s)'
    BY <1>1, <2>2, <2>3
  <2>5. Waiting(LineOf[1].s)' <=> Waiting(b.s)'
    BY <2>2 DEF Waiting
  <2> QED BY <2>2, <2>4, <2>5 DEF EnterOpen, Stroke
<1>3. CASE LineOf' = LineOf /\ typed' = typed
  <2>1. CASE LineOf = <<>>
    BY <1>3, <2>1 DEF EnterOpen
  <2> QED BY <1>2, <1>3, <2>1
<1>4. CASE LineOf' # <<>> /\ LineOf'[1].i = 1
  BY <1>4 DEF EnterOpen
<1> QED BY <1>2, <1>3, <1>4 DEF FirstKept

\* The row holds keys that were typed, or node keys.
LEMMA RowSeq ==
  ASSUME RowInv
  PROVE  IsSeq(Row) /\ \A j \in 1..Len(Row) : RowKey(Row[j], typed)
BY DEF RowInv, RowOk

\* A key that was put back is read.
LEMMA OpenPushed ==
  ASSUME StackInv, FlowInv, RowInv, EnterOpen, KeyPushed
  PROVE  EnterOpen'
<1>a. PICK k : k = push[1]
  OBVIOUS
<1>1. push # <<>> /\ push' = Tail(push) /\ Hand(k) /\ UNCHANGED <<kind, typed, wire, rbuf>> /\ Top.op = "getkey"
  <2>1. push # <<>> /\ push' = Tail(push) /\ Hand(Head(push)) /\ UNCHANGED stream /\ Top.op = "getkey"
    BY DEF KeyPushed, At
  <2>2. Head(push) = push[1]
    BY <2>1, TailLemma DEF RowInv
  <2> QED BY <1>a, <2>1, <2>2 DEF stream
<1>2. LineOf' = LineOf
  BY <1>1 DEF LineOf
<1>3. Row = push /\ 1 \in 1..Len(Row)
  <2>1. Row = push
    BY <1>1, HandRow
  <2>2. Len(push) \in Nat \ {0}
    BY <1>1, TailLemma DEF RowInv
  <2> QED BY <2>1, <2>2
<1>4. RowShift
  <2>1. RowMove
    BY KeyRow DEF RowInv
  <2> QED BY <2>1 DEF RowMove, RowTake, KeyPushed, KeyRead, At
<1>5. mixed' = IF crPend /\ k.s = 0 THEN mixed \cup {crOf} ELSE mixed
  BY <1>1 DEF Hand
<1>6. ASSUME NEW s, s # 0, typed[s][1] = "CR", s \in mixed \/ Waiting(s)
      PROVE  s \in mixed' \/ Waiting(s)'
  <2>1. CASE s \in mixed
    BY <1>5, <2>1
  <2>2. CASE Waiting(s) /\ k.s = 0
    BY <1>5, <2>2 DEF Waiting
  <2>3. CASE Waiting(s) /\ k.s # 0
    <3>1. k.s = s /\ k.i = 1
      BY <1>a, <1>3, <2>3 DEF Waiting
    <3>2. k.c = "CR"
      BY <1>a, <1>3, <1>6, <2>3, <3>1, RowSeq DEF RowKey, ByteOk
    <3>3. crPend' /\ crOf' = s
      BY <1>1, <2>3, <3>1, <3>2 DEF Hand, Mates
    <3>4. \A j \in 1..Len(Row') : Row'[j].s # 0 => Row'[j].s = s /\ Row'[j].i = 1
      BY <1>4, <2>3, RowSeq, RowFrom DEF Waiting
    <3> QED BY <3>3, <3>4 DEF Waiting
  <2> QED BY <1>6, <2>1, <2>2, <2>3
<1>7. CASE LineOf # <<>>
  <2>a. PICK b : b = LineOf[1]
    OBVIOUS
  <2>1. b.s # 0
    <3>1. IsSeq(LineOf) /\ Formed(LineOf, typed) /\ Len(typed) \in Nat
      BY LineSeq DEF FlowInv
    <3> QED BY <1>7, <2>a, <3>1, NextOf DEF ByteOk, OfTyped
  <2>2. b.i = 2 /\ typed[b.s][1] = "CR" => b.s \in mixed' \/ Waiting(b.s)'
    BY <1>6, <1>7, <2>a, <2>1 DEF EnterOpen, Stroke
  <2>3. LineOf'[1] = b /\ typed' = typed
    BY <1>1, <1>2, <2>a
  <2>4. Waiting(LineOf[1].s)' <=> Waiting(b.s)'
    BY <2>3 DEF Waiting
  <2> QED BY <2>2, <2>3, <2>4 DEF EnterOpen, Stroke
<1> QED BY <1>2, <1>7 DEF EnterOpen

\* A byte is read from the channel of a caller without a node window: if it
\* begins an Enter, nothing of the caller waits before it.
LEMMA OpenRead ==
  ASSUME AccessInv, StackInv, FlowInv, RowInv, AsideInv, StrokesFormed, kind # "telnet", aside = {}, KeyRead
  PROVE  EnterOpen'
<1>a. PICK b : b = LineOf[1]
  OBVIOUS
<1>b. PICK m : m = LineOf[2]
  OBVIOUS
<1>1. PumpTake /\ rbuf # <<>> /\ rbuf' = Tail(rbuf) /\ UNCHANGED <<kind, typed, wire>> /\ Hand(KeyOf(Head(rbuf), FALSE))
      /\ push' = push /\ At("getkey", "read")
  BY DEF KeyRead, PumpTake, Yield, Yields
<1>2. Shorter /\ Head(rbuf) = b
  BY <1>a, <1>1, TailLine
<1>3. LineOf # <<>> /\ LineOf' = Tail(LineOf) /\ IsSeq(LineOf) /\ Formed(LineOf, typed)
  BY <1>2, LineSeq DEF Shorter, FlowInv
<1>4. /\ ByteOk(b, typed)
      /\ LineOf' # <<>> => LineOf'[1] = m /\ ByteOk(m, typed) /\ Follows(m, b, typed)
  BY <1>a, <1>b, <1>3, NextOf
<1>c. PICK k : k = KeyOf(Head(rbuf), FALSE)
  OBVIOUS
<1>5. k.c = b.c /\ k.s = b.s /\ k.i = b.i /\ Hand(k)
  BY <1>1, <1>2, <1>c DEF KeyOf
<1>6. AllAside
  <2>1. Len(stack) \in Nat \ {0} /\ Top = stack[1]
    BY StackBasics
  <2>2. Inside
    BY <1>1, <2>1 DEF Inside, At
  <2> QED BY <2>2 DEF AsideInv
<1>7. \A j \in 1..Len(push) : push[j].s = 0
  BY <1>6 DEF AllAside
<1>8. Row' = push' \/ Row' = <<k>> \o push'
  BY <1>1, <1>5, HandRow DEF At
<1>9. \A j \in 1..Len(Row') : Row'[j].s # 0 => Row'[j] = k
  <2>1. CASE Row' = push'
    BY <1>1, <1>7, <2>1
  <2>2. CASE Row' = <<k>> \o push'
    <3>1. IsSeq(push)
      BY DEF RowInv
    <3>2. /\ Len(<<k>> \o push) = Len(push) + 1 /\ Len(push) \in Nat /\ (<<k>> \o push)[1] = k
          /\ \A j \in 2..Len(<<k>> \o push) : (<<k>> \o push)[j] = push[j - 1]
      BY <3>1, PushLemma
    <3>3. \A j \in 1..Len(<<k>> \o push) : j = 1 \/ (j \in 2..Len(<<k>> \o push) /\ j - 1 \in 1..Len(push))
      BY <3>2
    <3> QED BY <1>1, <1>7, <2>2, <3>2, <3>3
  <2> QED BY <1>8, <2>1, <2>2
<1>10. ASSUME LineOf' # <<>>, m.i = 2, typed[m.s][1] = "CR" PROVE Waiting(m.s)'
  <2>1. m.s = b.s /\ m.i = b.i + 1
    BY <1>4, <1>10 DEF Follows
  <2>2. b.i \in Nat /\ b.s # 0
    BY <1>4, StrokeLemma
  <2>3. b.i = 1
    BY <1>10, <2>1, <2>2
  <2>4. b.c = "CR"
    BY <1>4, <1>10, <2>1, <2>3 DEF ByteOk
  <2>5. crPend' /\ crOf' = m.s
    BY <1>5, <2>1, <2>2, <2>4 DEF Hand, Mates
  <2> QED BY <1>5, <1>9, <2>1, <2>3, <2>5 DEF Waiting
<1>11. LineOf' # <<>> => (Waiting(LineOf[1].s)' <=> Waiting(m.s)')
  BY <1>4 DEF Waiting
<1> QED BY <1>1, <1>4, <1>10, <1>11 DEF EnterOpen, Stroke

\* Over SSH, too, the rest of an Enter is never taken for a key.
LEMMA SshKept ==
  ASSUME KeysInv, StrokesFormed, SshInv, [Next]_vars
  PROVE  SshInv'
<1>0. /\ AccessInv /\ LbarInv /\ QaInv /\ AdjInv /\ FlowInv /\ RowInv /\ AsideInv /\ StackInv /\ IsSeq(push)
      /\ IsSeq(Row)
  BY RowSeq DEF KeysInv, AccessInv, RowInv
<1>1. StreamMoves /\ RowMove /\ mixed \subseteq mixed'
  BY <1>0, StreamStep, StepRow, MixedMore
<1>2. kind' = kind
  BY <1>1 DEF StreamMoves, Type, Fill, Skip, PumpLoop, KeyRead, Yield, PumpTake, Forget
<1> SUFFICES ASSUME kind # "telnet" PROVE SshInv'
  BY <1>2 DEF SshInv
<1>3. local = <<>> /\ NoConsole /\ aside = {} /\ EnterOpen
  BY DEF SshInv
<1>4. local' = <<>> /\ NoConsole' /\ aside' = {} /\ ~KeyLocal
  BY <1>0, <1>3, NoWindowStep
<1>5. EnterOpen'
  <2>1. CASE KeyRead
    BY <1>0, <1>3, <2>1, OpenRead
  <2>2. CASE KeyPushed
    BY <1>0, <1>3, <2>2, OpenPushed
  <2>3. CASE ~KeyRead /\ ~KeyPushed
    <3>1. UNCHANGED <<crPend, crOf, mixed>> /\ RowShift
      BY <1>0, <1>1, <1>4, <2>3, CrKinds DEF RowMove, RowTake
    <3>2. FirstKept
      <4>1. CASE Forget /\ rbuf = <<>>
        <5>1. UNCHANGED <<typed, wire, rbuf>> /\ cut \subseteq cut'
          BY <4>1 DEF Forget
        <5> QED BY <5>1 DEF FirstKept, TypedOn, LineOf
      <4>2. ~Skip /\ ~Fill
        BY DEF Skip, Fill
      <4> QED BY <1>0, <1>1, <2>3, <4>1, <4>2, TypeFirst, StillFirst DEF StreamMoves
    <3> QED BY <1>0, <1>1, <1>3, <3>1, <3>2, OpenStays
  <2> QED BY <2>1, <2>2, <2>3
<1> QED BY <1>4, <1>5 DEF SshInv

---------------------------------------------------------------------------
(* What may be a key. *)

\* No byte of a command, but where one was cut in two, and no rest of an Enter,
\* but where another key came between them.
KeyOk(p) ==
  /\ IsCommand(p[1]) => Loose(p[1])
  /\ typed[p[1]][1] = "CR" /\ p[2] > 1 => p[1] \in mixed \/ AfterCut(p[1])
\* So are all keys that were handed out or are in the row.
KeysOk ==
  /\ \A j \in 1..Len(got) : KeyOk(got[j])
  /\ \A j \in 1..Len(Row) : Row[j].s # 0 => KeyOk(Place(Row[j]))

LEMMA KeyOkStays ==
  ASSUME FlowInv, FilterInv, TypedOn, mixed \subseteq mixed', NEW p, p[1] \in 1..Len(typed), KeyOk(p)
  PROVE  KeyOk(p)'
<1>1. /\ IsCommand(p[1])' <=> IsCommand(p[1])
      /\ Loose(p[1]) => Loose(p[1])'
      /\ AfterCut(p[1]) => AfterCut(p[1])'
  <2>1. p[1] \in 1..Len(typed) + 1
    BY DEF FlowInv
  <2> QED BY <2>1, LooseMore
<1>2. typed'[p[1]] = typed[p[1]]
  BY DEF TypedOn
<1> QED BY <1>1, <1>2 DEF KeyOk

LEMMA MoveTypedOn ==
  ASSUME FlowInv, StreamMoves
  PROVE  TypedOn
<1>1. CASE UNCHANGED <<kind, typed, rbuf, wire, mid, mate, cut>> \/ Fill \/ PumpLoop
  BY <1>1, StillFirst DEF FirstKept
<1>2. CASE Type
  BY <1>2, TypeFirst DEF FirstKept
<1>3. CASE (Forget /\ rbuf = <<>>) \/ Skip \/ KeyRead
  <2>1. typed' = typed /\ cut \subseteq cut'
    BY <1>3 DEF Forget, Skip, KeyRead, Yield, PumpTake
  <2> QED BY <2>1 DEF TypedOn
<1> QED BY <1>1, <1>2, <1>3 DEF StreamMoves

\* A key that is read from the stream is one.
LEMMA ReadOk ==
  ASSUME StrokesFormed, FlowInv, FilterInv, SshInv, Yield \/ PumpTake,
         NEW k, k = KeyOf(Head(rbuf), FALSE), ~Eaten(k)
  PROVE  k.s \in 1..Len(typed) /\ KeyOk(Place(k))
<1>a. PICK b : b = LineOf[1]
  OBVIOUS
<1>1. LineOf # <<>> /\ rbuf # <<>> /\ Head(rbuf) = b
  BY <1>a, YieldLine, TailLine DEF Shorter, TwoShorter, PumpTake
<1>2. k.s = b.s /\ k.i = b.i /\ k.c = b.c
  BY <1>1 DEF KeyOf
<1>3. ByteOk(b, typed) /\ AtByte(b)
  BY <1>a, <1>1, LineSeq, NextOf DEF FlowInv, FilterInv
<1>4. b.s \in 1..Len(typed)
  BY <1>3 DEF ByteOk, OfTyped
<1>c. PICK code : code = Stroke(b)
  OBVIOUS
<1>5. /\ Len(code) \in Nat \ {0} /\ b.i \in 1..Len(code) /\ b.c = code[b.i]
      /\ code[1] = "CR" => Len(code) \in 1..2 /\ (Len(code) = 2 => code[2] \in Mates)
      /\ code[1] = "IAC" => kind = "telnet"
  BY <1>3, <1>c, StrokeLemma
<1>6. code[1] = "CR" /\ b.i > 1 => b.i = 2 /\ b.c \in Mates
  <2> SUFFICES ASSUME code[1] = "CR", b.i > 1 PROVE b.i = 2 /\ b.c \in Mates
    OBVIOUS
  <2>1. \A n \in 1..2 : \A i \in 1..n : i > 1 => i = 2 /\ n = 2
    OBVIOUS
  <2>2. b.i = 2 /\ Len(code) = 2
    BY <1>5, <2>1
  <2> QED BY <1>5, <2>2
<1>7. (IsCommand(b.s) => Loose(b.s)) /\ (code[1] = "CR" /\ b.i > 1 => b.s \in mixed \/ AfterCut(b.s))
  <2>1. CASE Yield
    <3>1. IsData(b) /\ (IsCommand(b.s) => Loose(b.s)) /\ kind = "telnet"
      BY <1>1, <1>3, <2>1, YieldPast DEF Yield, Yields
    <3>2. ASSUME code[1] = "CR", b.i > 1 PROVE AfterCut(b.s)
      <4>1. b.i = 2 /\ b.c \in Mates
        BY <1>6, <3>2
      <4>2. mate \/ AfterCut(b.s)
        BY <1>a, <1>c, <1>1, <3>1, <3>2, <4>1 DEF FilterInv
      <4> QED BY <3>1, <4>1, <4>2 DEF IsData
    <3> QED BY <3>1, <3>2
  <2>2. CASE PumpTake
    <3>1. kind # "telnet"
      BY <2>2 DEF PumpTake
    <3>2. ~IsCommand(b.s)
      BY <1>5, <1>c, <3>1 DEF IsCommand, Stroke
    <3>3. ASSUME code[1] = "CR", b.i > 1 PROVE b.s \in mixed
      <4>1. b.i = 2 /\ b.c \in Mates
        BY <1>6, <3>3
      <4>2. ~crPend
        BY <1>2, <4>1 DEF Eaten
      <4>3. EnterOpen
        BY <3>1 DEF SshInv
      <4> QED BY <1>a, <1>c, <1>1, <3>3, <4>1, <4>2, <4>3 DEF EnterOpen, Waiting
    <3> QED BY <3>2, <3>3
  <2> QED BY <2>1, <2>2
<1> QED BY <1>2, <1>4, <1>7, <1>c DEF KeyOk, Place, Stroke

\* They stay so.
LEMMA KeysOkKept ==
  ASSUME KeysInv, StrokesFormed, FilterInv, SshInv, KeysOk, [Next]_vars
  PROVE  KeysOk'
<1>0. /\ AccessInv /\ LbarInv /\ QaInv /\ AdjInv /\ FlowInv /\ RowInv /\ IsSeq(push)
      /\ IsSeq(Row) /\ got \in Seq(Nat \X Nat)
      /\ \A j \in 1..Len(got) : got[j][1] \in 1..Len(typed)
      /\ \A j \in 1..Len(Row) : Row[j].s # 0 => Row[j].s \in 1..Len(typed)
  BY DEF KeysInv, RowInv, RowOk, OfTyped, RowKey, ByteOk
<1>1. StreamMoves /\ RowMove /\ mixed \subseteq mixed' /\ TypedOn
  BY <1>0, StreamStep, StepRow, MixedMore, MoveTypedOn
<1>2. ASSUME NEW p, p[1] \in 1..Len(typed), KeyOk(p) PROVE KeyOk(p)'
  BY <1>0, <1>1, <1>2, KeyOkStays
<1> DEFINE Good(p) == p[1] \in 1..Len(typed) /\ KeyOk(p)
<1>3. /\ \A j \in 1..Len(got) : Good(got[j])
      /\ \A j \in 1..Len(Row) : Row[j].s # 0 => Good(Place(Row[j]))
  BY <1>0 DEF KeysOk, Place
<1> HIDE DEF Good
<1>4. \A p : \A j \in 1..Len(Append(got, p)) : Append(got, p)[j] = p \/ \E i \in 1..Len(got) : Append(got, p)[j] = got[i]
  BY <1>0, AppendLemma
<1>5. /\ \A j \in 1..Len(got') : Good(got'[j])
      /\ \A j \in 1..Len(Row') : Row'[j].s # 0 => Good(Place(Row'[j]))
  <2>1. CASE RowShift
    <3>1. \A j \in 1..Len(Row') : Row'[j].s # 0 => Good(Place(Row'[j]))
      BY <1>0, <1>3, <2>1, RowFrom
    <3>2. CASE got' = got
      BY <1>3, <3>1, <3>2
    <3>3. CASE Row # <<>> /\ Row[1].s # 0 /\ got' = Append(got, Place(Row[1]))
      <4>1. Len(Row) \in Nat \ {0}
        BY <1>0, <3>3, TailLemma
      <4>2. Good(Place(Row[1]))
        BY <1>3, <3>3, <4>1
      <4> QED BY <1>3, <1>4, <3>1, <3>3, <4>2
    <3> QED BY <2>1, <3>2, <3>3 DEF RowShift
  <2>2. CASE RowTake
    <3>1. PICK k : /\ k = KeyOf(Head(rbuf), FALSE)
                   /\ \/ Row' = Row /\ got' = got
                      \/ ~Eaten(k) /\ Row' = <<k>> \o Row /\ got' = got
                      \/ ~Eaten(k) /\ Row' = Row /\ k.s # 0 /\ got' = Append(got, Place(k))
      BY <2>2 DEF RowTake
    <3>2. ~Eaten(k) => Good(Place(k))
      <4> SUFFICES ASSUME ~Eaten(k) PROVE Good(Place(k))
        OBVIOUS
      <4>1. Yield \/ PumpTake
        BY <2>2 DEF RowTake, KeyRead
      <4>2. k.s \in 1..Len(typed) /\ KeyOk(Place(k))
        BY <1>0, <3>1, <4>1, ReadOk
      <4> QED BY <4>2 DEF Good, Place
    <3>3. CASE Row' = Row /\ got' = got
      BY <1>3, <3>3
    <3>4. CASE ~Eaten(k) /\ Row' = <<k>> \o Row /\ got' = got
      <4>1. \A j \in 1..Len(<<k>> \o Row) : (<<k>> \o Row)[j] = k
                                            \/ \E i \in 1..Len(Row) : (<<k>> \o Row)[j] = Row[i]
        <5>1. /\ Len(<<k>> \o Row) = Len(Row) + 1 /\ Len(Row) \in Nat /\ (<<k>> \o Row)[1] = k
              /\ \A j \in 2..Len(<<k>> \o Row) : (<<k>> \o Row)[j] = Row[j - 1]
          BY <1>0, PushLemma
        <5>2. \A j \in 1..Len(<<k>> \o Row) : j = 1 \/ (j \in 2..Len(<<k>> \o Row) /\ j - 1 \in 1..Len(Row))
          BY <5>1
        <5> QED BY <5>1, <5>2
      <4> QED BY <1>3, <3>2, <3>4, <4>1
    <3>5. CASE ~Eaten(k) /\ Row' = Row /\ got' = Append(got, Place(k))
      BY <1>3, <1>4, <3>2, <3>5
    <3> QED BY <3>1, <3>3, <3>4, <3>5
  <2> QED BY <1>1, <2>1, <2>2 DEF RowMove
<1>6. ASSUME NEW j \in 1..Len(got') PROVE KeyOk(got[j])'
  <2>1. PICK p : p = got'[j]
    OBVIOUS
  <2>2. KeyOk(p)'
    BY <1>2, <1>5, <2>1 DEF Good
  <2> QED BY <2>1, <2>2 DEF KeyOk
<1>7. ASSUME NEW j \in 1..Len(Row'), Row'[j].s # 0 PROVE KeyOk(Place(Row[j]))'
  <2>1. PICK p : p = Place(Row'[j])
    OBVIOUS
  <2>2. KeyOk(p)'
    BY <1>2, <1>5, <1>7, <2>1 DEF Good
  <2>3. Place(Row[j])' = p
    BY <2>1 DEF Place
  <2> QED BY <2>2, <2>3 DEF KeyOk
<1> QED BY <1>6, <1>7 DEF KeysOk

---------------------------------------------------------------------------

\* The inductive invariant of KeysOnceInOrder.
OrderInv == KeysInv /\ FilterInv /\ SshInv /\ KeysOk

LEMMA OrderKept ==
  ASSUME StrokesFormed, OrderInv, [Next]_vars
  PROVE  OrderInv'
<1>1. KeysInv'
  BY KeysKept DEF OrderInv
<1>2. AccessInv /\ LbarInv /\ QaInv /\ FlowInv /\ IsSeq(push)
  BY DEF OrderInv, KeysInv, RowInv
<1>3. FilterInv'
  BY <1>2, StreamStep, FilterKept DEF OrderInv
<1>4. SshInv' /\ KeysOk'
  BY SshKept, KeysOkKept DEF OrderInv
<1> QED BY <1>1, <1>3, <1>4 DEF OrderInv

LEMMA OrderStart == Init => OrderInv
<1> SUFFICES ASSUME Init PROVE OrderInv
  OBVIOUS
<1>1. KeysInv
  BY KeysStart
<1> DEFINE f == [Frame("session", "-") EXCEPT !.at = "idle"]
<1>2. /\ stack = <<f>> /\ push = <<>> /\ got = <<>> /\ aside = {} /\ local = <<>>
      /\ typed = <<>> /\ wire = <<>> /\ rbuf = <<>> /\ mid = "data" /\ cut = {}
  BY DEF Init, TerminalInit, StreamInit
<1>3. f.op = "session" /\ f.at = "idle"
  BY DEF Frame
<1> HIDE DEF f
<1>4. Len(stack) = 1 /\ stack[1] = f /\ Top = f
  BY <1>2 DEF Top
<1>5. NoConsole
  BY <1>3, <1>4 DEF NoConsole, Console
<1>6. LineOf = <<>> /\ Row = <<>>
  <2>1. IsSeq(<<>>)
    BY NoNodeKeys DEF NodeKeys
  <2>2. <<>> \o <<>> = <<>>
    BY <2>1, EmptyCat
  <2> QED BY <1>2, <1>3, <1>4, <2>2 DEF LineOf, Row, Held, At
<1>7. FilterInv /\ SshInv /\ KeysOk
  BY <1>2, <1>5, <1>6 DEF FilterInv, SshInv, EnterOpen, KeysOk
<1> QED BY <1>1, <1>7 DEF OrderInv

\* Where strokes are whole, keys reach the caller of GetKey once each and in order, no byte of a telnet
\* command is one, and an Enter is one key, whatever the caller types, the
\* network does to it, the sysop does in the node window, and the session asks.
THEOREM KeysAlwaysInOrder == ASSUME StrokesFormed PROVE Spec => []KeysOnceInOrder
<1>1. OrderInv => KeysOnceInOrder
  <2> SUFFICES ASSUME OrderInv PROVE KeysOnceInOrder
    OBVIOUS
  <2>1. Once
    BY DEF OrderInv, KeysInv, RowInv, RowOk, Ordered, Apart, Once
  <2>2. \A j \in 1..Len(got) : KeyOk(got[j])
    BY DEF OrderInv, KeysOk
  <2> QED BY <2>1, <2>2 DEF KeysOnceInOrder, Once, KeyOk, Loose
<1>2. OrderInv /\ [Next]_vars => OrderInv'
  BY OrderKept
<1> QED BY OrderStart, <1>1, <1>2, PTL DEF Spec

---------------------------------------------------------------------------
(* No key of the caller is lost. *)

\* Something was cut off, or put between the bytes of an Enter.
Late == mixed # {} \/ cut # {}
\* A byte is on its way, read, or excused: part of a command, or taken for such a
\* part; handed out; or dropped with an Enter.
OnLine(s, i) == \E m \in 1..Len(LineOf) : Place(LineOf[m]) = <<s, i>>
InRow(s, i) == \E j \in 1..Len(Row) : Place(Row[j]) = <<s, i>>
Excused(s, i) ==
  \/ IsCommand(s)
  \/ AfterCut(s) /\ i = 1
  \/ \E j \in 1..Len(got) : got[j] = <<s, i>>
  \/ typed[s][1] = "CR" /\ (i > 1 \/ <<s, i>> \in dropped)
  \/ <<s, i>> \in dropped /\ Late
KeptInv == \A s \in 1..Len(typed) : \A i \in 1..Len(typed[s]) : OnLine(s, i) \/ InRow(s, i) \/ Excused(s, i)

\* What the ends of lines were looked at is in the buffer, and GetKey takes that,
\* unless it was late.
LooksInv == Top.op \in {"mate", "drain"} /\ Top.at = "peeked" /\ IsKey(ret) => push # <<>> /\ push[1] = ret
Fresh == stack[1].at = "start" /\ push # <<>> /\ push[1].c \in LineEnds
TakesInv ==
  \A j \in 1..Len(stack) - 1 :
    stack[j].op = "getkey" /\ stack[j + 1].op \in {"mate", "drain"} => Late \/ (j = 1 /\ Fresh)

\* What a byte of a key or of an Enter may be.
LEMMA KeyClass ==
  ASSUME StrokesFormed, StrokesApart, FlowInv, NEW b, ByteOk(b, typed)
  PROVE  /\ b.s \in 1..Len(typed) /\ b.i \in 1..Len(typed[b.s]) /\ b.c \notin {"none", "failed"}
         /\ ~IsCommand(b.s) => /\ b.c # "IAC"
                               /\ b.c \in Mates => typed[b.s][1] = "CR" /\ b.i > 1
                               /\ b.c = "CR" => typed[b.s][1] = "CR"
<1>c. PICK code : code = typed[b.s]
  OBVIOUS
<1>1. b.s \in 1..Len(typed) /\ b.i \in 1..Len(code) /\ b.c = code[b.i]
  BY <1>c DEF ByteOk, OfTyped
<1>2. typed \in Seq(Strokes[kind]) /\ kind \in Kinds
  BY DEF FlowInv
<1>3. code \in Strokes[kind]
  BY <1>1, <1>2, <1>c
<1>4. b.c \notin {"none", "failed"} /\ (PlainStroke(code) => b.c \notin Mates)
  BY <1>1, <1>2, <1>3 DEF StrokesApart
<1>5. EnterStroke(code) \/ PlainStroke(code) \/ (kind = "telnet" /\ CommandStroke(code))
  BY <1>2, <1>3 DEF StrokesFormed
<1>6. ASSUME ~IsCommand(b.s)
      PROVE  /\ b.c # "IAC" /\ (b.c = "CR" => code[1] = "CR")
             /\ b.c \in Mates => code[1] = "CR" /\ b.i > 1
  <2>1. code[1] # "IAC" /\ code = Stroke(b)
    BY <1>6, <1>c DEF IsCommand, Stroke
  <2>2. b.c # "IAC" /\ (b.c = "CR" => code[1] = "CR")
    BY <2>1, StrokeLemma
  <2>3. ASSUME b.c \in Mates PROVE code[1] = "CR" /\ b.i > 1
    <3>1. code[1] = "CR"
      BY <1>4, <1>5, <2>1, <2>3 DEF EnterStroke, CommandStroke
    <3>2. b.i = 2
      BY <2>1, <2>3, <3>1, StrokeLemma
    <3> QED BY <3>1, <3>2
  <2> QED BY <2>2, <2>3
<1> QED BY <1>1, <1>4, <1>6, <1>c

\* What was excused stays so.
Grows == /\ TypedOn /\ mixed \subseteq mixed' /\ dropped \subseteq dropped'
        /\ \A j \in 1..Len(got) : j \in 1..Len(got') /\ got'[j] = got[j]

LEMMA ExcusedStays ==
  ASSUME FlowInv, FilterInv, Grows, NEW s \in 1..Len(typed), NEW i, Excused(s, i)
  PROVE  Excused(s, i)'
<1>1. /\ IsCommand(s)' <=> IsCommand(s)
      /\ AfterCut(s) => AfterCut(s)'
      /\ typed'[s] = typed[s]
  <2>1. s \in 1..Len(typed) + 1
    BY DEF FlowInv
  <2> QED BY <2>1, LooseMore DEF Grows, TypedOn
<1>2. Late => Late'
  BY DEF Late, Grows, TypedOn
<1>3. (\E j \in 1..Len(got) : got[j] = <<s, i>>) => \E j \in 1..Len(got') : got'[j] = <<s, i>>
  BY DEF Grows
<1>4. <<s, i>> \in dropped => <<s, i>> \in dropped'
  BY DEF Grows
<1> QED BY <1>1, <1>2, <1>3, <1>4 DEF Excused

\* The buffer is part of the row.
LEMMA PushInRow ==
  ASSUME IsSeq(push')
  PROVE  \A j \in 1..Len(push') : \E m \in 1..Len(Row') : Row'[m] = push'[j]
<1>1. CASE Row' = push'
  BY <1>1
<1>2. CASE Row' = <<ret'>> \o push'
  <2>1. /\ Len(Row') = Len(push') + 1 /\ Len(push') \in Nat
        /\ \A j \in 2..Len(Row') : Row'[j] = push'[j - 1]
    BY <1>2, PushLemma
  <2>2. \A j \in 1..Len(push') : j + 1 \in 2..Len(Row') /\ j + 1 \in 1..Len(Row') /\ (j + 1) - 1 = j
    BY <2>1
  <2> QED BY <2>1, <2>2
<1>3. Row' = push' \/ Row' = <<ret'>> \o push'
  BY DEF Row
<1> QED BY <1>1, <1>2, <1>3

\* The call on top was called.
LEMMA CalledBy ==
  ASSUME StackInv, AdjInv, Top.op # "session"
  PROVE  May(Top.op, stack[2].op, stack[2].at) /\ Len(stack) > 1 /\ 1 \in 1..Len(stack) - 1
<1>1. Len(stack) \in Nat \ {0} /\ Top = stack[1] /\ Len(stack) # 1
  BY StackBasics
<1>0. \A n \in Nat \ {0} : n # 1 => n > 1 /\ 1 \in 1..n - 1
  OBVIOUS
<1>2. Len(stack) > 1 /\ 1 \in 1..Len(stack) - 1
  BY <1>0, <1>1
<1>3. May(stack[1].op, stack[1 + 1].op, stack[1 + 1].at)
  BY <1>2 DEF AdjInv
<1> QED BY <1>1, <1>2, <1>3

\* A key that is handed out, or passed over, is in the row or excused.
LEMMA HandKeeps ==
  ASSUME StrokesFormed, StrokesApart, StackInv, AdjInv, FlowInv, FilterInv, Grows, got \in Seq(Nat \X Nat),
         Top.op = "getkey", IsSeq(push'), NEW k, Hand(k), ByteOk(k, typed),
         ~Eaten(k) /\ stack[2].op \in {"mate", "drain"} => Late' \/ k.c \in LineEnds
  PROVE  InRow(k.s, k.i)' \/ Excused(k.s, k.i)'
<1>1. /\ k.s \in 1..Len(typed) /\ k.s # 0 /\ IsKey(k)
      /\ ~IsCommand(k.s) => /\ k.c \in Mates => typed[k.s][1] = "CR" /\ k.i > 1
                            /\ k.c = "CR" => typed[k.s][1] = "CR"
  <2>1. /\ k.s \in 1..Len(typed) /\ k.c \notin {"none", "failed"}
        /\ ~IsCommand(k.s) => /\ k.c \in Mates => typed[k.s][1] = "CR" /\ k.i > 1
                              /\ k.c = "CR" => typed[k.s][1] = "CR"
    BY KeyClass
  <2>2. k.s # 0
    BY <2>1 DEF FlowInv
  <2> QED BY <2>1, <2>2 DEF IsKey
<1>2. ASSUME Excused(k.s, k.i) PROVE Excused(k.s, k.i)'
  BY <1>1, <1>2, ExcusedStays
<1>3. CASE IsCommand(k.s)
  BY <1>2, <1>3 DEF Excused
<1>4. CASE ~IsCommand(k.s) /\ Eaten(k)
  BY <1>1, <1>2, <1>4 DEF Excused, Eaten
<1>5. CASE ~IsCommand(k.s) /\ ~Eaten(k)
  <2>1. /\ Return(k)
        /\ got' = IF k.s # 0 /\ stack[2].op \notin {"peek", "mate", "drain"}
                  THEN Append(got, <<k.s, k.i>>) ELSE got
        /\ dropped' = IF k.s # 0 /\ stack[2].op \in {"mate", "drain"}
                      THEN dropped \cup {<<k.s, k.i>>} ELSE dropped
    BY <1>5 DEF Hand, Eaten
  <2>2. CASE stack[2].op = "peek"
    <3>4. stack[2].at = "got"
      BY <2>2, CalledBy DEF May
    <3>5. Row' = <<k>> \o push'
      BY <1>1, <2>1, <2>2, <3>4, GetKeyTop
    <3>6. 1 \in 1..Len(Row') /\ Row'[1] = k
      BY <3>5, PushLemma
    <3> QED BY <3>6 DEF InRow, Place
  <2>3. CASE stack[2].op \in {"mate", "drain"}
    <3>1. <<k.s, k.i>> \in dropped'
      BY <1>1, <2>1, <2>3
    <3>2. k.c \in LineEnds => typed[k.s][1] = "CR"
      BY <1>1, <1>5 DEF LineEnds, Mates
    <3>3. typed'[k.s] = typed[k.s]
      BY <1>1 DEF Grows, TypedOn
    <3> QED BY <1>5, <2>3, <3>1, <3>2, <3>3 DEF Excused
  <2>4. CASE stack[2].op \notin {"peek", "mate", "drain"}
    <3>1. got' = Append(got, <<k.s, k.i>>)
      BY <1>1, <2>1, <2>4
    <3>2. Len(got) + 1 \in 1..Len(got') /\ got'[Len(got) + 1] = <<k.s, k.i>>
      BY <3>1
    <3> QED BY <3>2 DEF Excused
  <2> QED BY <2>2, <2>3, <2>4
<1> QED BY <1>3, <1>4, <1>5

\* The rest of an Enter that is in the row came late.
LEMMA MateLate ==
  ASSUME StrokesFormed, StrokesApart, FlowInv, FilterInv, RowInv, KeysOk,
         NEW j \in 1..Len(Row), Row[j].s # 0, Row[j].c \in Mates
  PROVE  Late
<1>a. PICK k : k = Row[j]
  OBVIOUS
<1>1. ByteOk(k, typed) /\ KeyOk(Place(k))
  BY <1>a DEF RowInv, RowOk, RowKey, KeysOk
<1>2. /\ k.s \in 1..Len(typed)
      /\ ~IsCommand(k.s) => typed[k.s][1] = "CR" /\ k.i > 1
  BY <1>1, <1>a, KeyClass
<1>3. Loose(k.s) \/ k.s \in mixed \/ AfterCut(k.s)
  BY <1>1, <1>2 DEF KeyOk, Place
<1>4. Loose(k.s) \/ AfterCut(k.s) => cut # {}
  BY DEF Loose, Cut, AfterCut
<1> QED BY <1>3, <1>4 DEF Late

\* How the two that look at ends of lines call others.
EndTakers == {"mate", "drain"}

LEMMA TakerCalls ==
  ASSUME StackInv, Mate \/ Drain
  PROVE  /\ Top.op \in EndTakers
         /\ \/ stack' = Tail(stack)
            \/ \E f, g : /\ stack' = <<f, g>> \o Tail(stack) /\ g.op = Top.op
                         /\ f.op \in {"peek", "getkey", "mate"} /\ f.at = "start"
                         /\ f.op = "getkey" => Top.at = "peeked" /\ ret.c \in LineEnds
<1>0. DOMAIN Top = Fields
  BY StackBasics
<1>1. Top.op \in EndTakers
  BY DEF Mate, Drain, At, EndTakers
<1>2. /\ PeekKey.op = "peek" /\ PeekKey.at = "start" /\ GetKey.op = "getkey" /\ GetKey.at = "start"
      /\ \A c : MateOf(c).op = "mate" /\ MateOf(c).at = "start"
  BY FrameLemma DEF PeekKey, GetKey, MateOf
<1> HIDE DEF PeekKey, GetKey, MateOf
<1>3. \A a : [Top EXCEPT !.at = a].op = Top.op
  BY <1>0, AtLemma
<1>4. ASSUME NEW f, NEW a, Call(f, a), f.op \in {"peek", "getkey", "mate"}, f.at = "start",
             f.op = "getkey" => Top.at = "peeked" /\ ret.c \in LineEnds
      PROVE  \E h, g : /\ stack' = <<h, g>> \o Tail(stack) /\ g.op = Top.op
                       /\ h.op \in {"peek", "getkey", "mate"} /\ h.at = "start"
                       /\ h.op = "getkey" => Top.at = "peeked" /\ ret.c \in LineEnds
  BY <1>3, <1>4 DEF Call
<1>5. ASSUME NEW f, NEW a, NEW d, CallFrom(f, a, d), DOMAIN d = Fields, d.op = Top.op,
             f.op \in {"peek", "getkey", "mate"}, f.at = "start",
             f.op = "getkey" => Top.at = "peeked" /\ ret.c \in LineEnds
      PROVE  \E h, g : /\ stack' = <<h, g>> \o Tail(stack) /\ g.op = Top.op
                       /\ h.op \in {"peek", "getkey", "mate"} /\ h.at = "start"
                       /\ h.op = "getkey" => Top.at = "peeked" /\ ret.c \in LineEnds
  <2>1. [d EXCEPT !.at = a].op = Top.op
    BY <1>5, AtLemma
  <2> QED BY <1>5, <2>1 DEF CallFrom
<1>6. CASE Mate
  <2>1. \/ stack' = Tail(stack)
        \/ \E a : Call(PeekKey, a)
        \/ Top.at = "peeked" /\ ret.c \in LineEnds /\ \E a : Call(GetKey, a)
    BY <1>6 DEF Mate, At, Return, LineEnds, Mates
  <2> QED BY <1>1, <1>2, <1>4, <2>1
<1>7. CASE Drain
  <2>1. \A c : DOMAIN [Top EXCEPT !.c = c] = Fields /\ [Top EXCEPT !.c = c].op = Top.op
    BY <1>0 DEF Fields
  <2>2. DOMAIN [Top EXCEPT !.i = @ + 1] = Fields /\ [Top EXCEPT !.i = @ + 1].op = Top.op
    BY <1>0 DEF Fields
  <2>3. \/ stack' = Tail(stack)
        \/ \E a : Call(PeekKey, a)
        \/ Top.at = "peeked" /\ ret.c \in LineEnds /\ CallFrom(GetKey, "took", [Top EXCEPT !.c = ret.c])
        \/ CallFrom(MateOf(Top.c), "start", [Top EXCEPT !.i = @ + 1])
    BY <1>7 DEF Drain, At
  <2> QED BY <1>1, <1>2, <1>4, <1>5, <2>1, <2>2, <2>3
<1> QED BY <1>1, <1>6, <1>7

\* What is returned to: where the call on top was called from.
LEMMA ReturnedTo ==
  ASSUME StackInv, AdjInv, stack' = Tail(stack), Top.op # "session"
  PROVE  Top' = stack[2] /\ May(Top.op, stack[2].op, stack[2].at)
<1>1. IsSeq(stack) /\ stack # <<>> /\ Len(stack) > 1 /\ May(Top.op, stack[2].op, stack[2].at)
  BY CalledBy DEF StackInv
<1>2. Head(Tail(stack)) = stack[2]
  BY <1>1, ReturnLemma
<1> QED BY <1>1, <1>2 DEF Top

\* Only PeekKey comes back to one that has looked.
LEMMA NotPeeked ==
  ASSUME StackInv, AdjInv, StackMove, Top.op # "peek", Top.op \in EndTakers => Mate \/ Drain
  PROVE  ~(Top'.op \in EndTakers /\ Top'.at = "peeked")
<1>0. IsSeq(stack) /\ stack # <<>> /\ Top = stack[1]
  BY StackBasics DEF StackInv
<1>1. CASE Returns \/ (Top.op \in EndTakers /\ stack' = Tail(stack))
  <2>1. stack' = Tail(stack) /\ Top.op # "session"
    BY <1>1 DEF Returns, EndTakers
  <2>2. Top' = stack[2] /\ May(Top.op, stack[2].op, stack[2].at)
    BY <2>1, ReturnedTo
  <2> QED BY <2>2 DEF May, EndTakers
<1>2. ASSUME NEW f, NEW g, stack' = <<f, g>> \o Tail(stack), f.at = "start"
      PROVE  ~(Top'.at = "peeked")
  <2>1. Head(stack') = f
    BY <1>0, <1>2, CallLemma
  <2> QED BY <1>2, <2>1 DEF Top
<1>3. CASE Top.op \in EndTakers
  BY <1>1, <1>2, <1>3, TakerCalls
<1>4. CASE Top.op \notin EndTakers
  <2>1. CASE stack' = stack
    BY <1>4, <2>1 DEF Top
  <2>2. CASE \E g : Within(g)
    <3>1. PICK g : Within(g)
      BY <2>2
    <3>2. Head(stack') = g
      BY <1>0, <3>1, WithinLemma DEF Within
    <3>3. Top' = g
      BY <3>2 DEF Top
    <3> QED BY <1>4, <3>1, <3>3 DEF Within, Keeps
  <2>3. CASE \E f, g : Calling(f, g)
    BY <1>2, <2>3 DEF Calling
  <2> QED BY <1>1, <2>1, <2>2, <2>3 DEF StackMove
<1> QED BY <1>3, <1>4

\* What they have seen is in the buffer.
LEMMA LooksKept ==
  ASSUME KeysInv, LooksInv, [Next]_vars
  PROVE  LooksInv'
<1>0. /\ AccessInv /\ LbarInv /\ QaInv /\ AdjInv /\ StackInv /\ IsSeq(push) /\ StackMove
  BY StepMove DEF KeysInv, AccessInv, RowInv
<1>1. ASSUME Top.op # "peek", Top.op \in EndTakers => Mate \/ Drain PROVE LooksInv'
  <2>1. ~(Top'.op \in EndTakers /\ Top'.at = "peeked")
    BY <1>0, <1>1, NotPeeked
  <2> QED BY <2>1 DEF LooksInv, EndTakers
<1>2. CASE InnerKey
  <2>1. Top.op = "getkey"
    BY <1>0, <1>2, KeyMove DEF InnerKey
  <2> QED BY <1>1, <2>1 DEF EndTakers
<1>3. CASE Pushes /\ Top.op \notin {"getkey", "peek"} /\ (Enter \/ Other)
  <2>1. Top.op \in EndTakers => Mate \/ Drain
    BY <1>3 DEF Enter, At, Other, EndTakers
  <2> QED BY <1>1, <1>3, <2>1
<1>4. CASE UNCHANGED <<stack, ret, push>>
  BY <1>4 DEF LooksInv, Top, IsKey
<1>5. CASE Peek
  <2>1. CASE At("peek", "start") /\ push # <<>>
    <3>1. ret' = Head(push) /\ push' = push
      BY <1>5, <2>1 DEF Peek, Return, At
    <3>2. Head(push) = push[1]
      BY <1>0, <2>1, TailLemma
    <3> QED BY <2>1, <3>1, <3>2 DEF LooksInv
  <2>2. CASE At("peek", "start") /\ push = <<>>
    <3>1. Call(TimedKey, "got")
      BY <1>5, <2>2 DEF Peek, At
    <3> DEFINE f == TimedKey
    <3> DEFINE g == [Top EXCEPT !.at = "got"]
    <3>2. stack' = <<f, g>> \o Tail(stack) /\ f.op = "getkey"
      BY <3>1, TimedLemma DEF Call
    <3> HIDE DEF f, g
    <3>3. Head(stack') = f
      BY <1>0, <3>2, CallLemma DEF StackInv
    <3> QED BY <3>2, <3>3 DEF LooksInv, Top
  <2>3. CASE At("peek", "got")
    <3>1. push' = (IF IsKey(ret) THEN <<ret>> \o push ELSE push) /\ ret' = (IF IsKey(ret) THEN ret ELSE None)
      BY <1>5, <2>3 DEF Peek, At
    <3>2. IsKey(ret') => IsKey(ret)
      BY <3>1 DEF IsKey, None
    <3>3. IsKey(ret) => push' # <<>> /\ push'[1] = ret /\ ret' = ret
      <4>1. /\ Len(<<ret>> \o push) = Len(push) + 1 /\ Len(push) \in Nat /\ (<<ret>> \o push)[1] = ret
        BY <1>0, PushLemma
      <4>2. Len(<<ret>> \o push) # 0
        BY <4>1
      <4>3. <<ret>> \o push # <<>>
        BY <4>2
      <4> QED BY <3>1, <4>1, <4>3
    <3>4. IsKey(ret)' <=> IsKey(ret')
      BY DEF IsKey
    <3> QED BY <3>2, <3>3, <3>4 DEF LooksInv
  <2> QED BY <1>5, <2>1, <2>2, <2>3 DEF Peek
<1> QED BY <1>0, <1>2, <1>3, <1>4, <1>5, StepKinds

\* Calls, returns, and steps within a call are told apart by the length of the stack.
LEMMA LengthsDiffer ==
  ASSUME StackInv
  PROVE  /\ Tail(stack) # stack
         /\ \A f, g, u : u = <<f, g>> \o Tail(stack) =>
              u # stack /\ u # Tail(stack) /\ (\A h : u # <<h>> \o Tail(stack)) /\ u[1] = f /\ u[2] = g
         /\ \A h, u : u = <<h>> \o Tail(stack) => u # Tail(stack)
<1>0. IsSeq(stack) /\ stack # <<>>
  BY DEF StackInv
<1>1. PICK n \in Nat : n = Len(stack)
  BY StackBasics
<1>2. PICK t : t = Tail(stack)
  OBVIOUS
<1>3. Len(t) = n - 1
  BY <1>0, <1>1, <1>2, ReturnLemma
<1>4. ASSUME NEW f, NEW g, NEW u, u = <<f, g>> \o t PROVE Len(u) = n + 1 /\ u[1] = f /\ u[2] = g
  BY <1>0, <1>1, <1>2, <1>4, CallLemma
<1>5. ASSUME NEW h, NEW u, u = <<h>> \o t PROVE Len(u) = n
  BY <1>0, <1>1, <1>2, <1>5, WithinLemma
<1>6. n - 1 # n /\ n + 1 # n /\ n + 1 # n - 1
  OBVIOUS
<1>7. t # stack
  BY ONLY <1>1, <1>3, <1>6
<1>8. ASSUME NEW f, NEW g, NEW u, u = <<f, g>> \o t
      PROVE  u # stack /\ u # t /\ (\A h : u # <<h>> \o t) /\ u[1] = f /\ u[2] = g
  BY ONLY <1>1, <1>3, <1>4, <1>5, <1>6, <1>8
<1>9. ASSUME NEW h, NEW u, u = <<h>> \o t PROVE u # t
  BY ONLY <1>3, <1>5, <1>6, <1>9
<1> QED BY <1>2, <1>7, <1>8, <1>9

\* How the calls of GetKey by the two come and go.
LEMMA TakesMove ==
  ASSUME StackInv, StackMove, TakesInv, Late => Late',
         Top.op = "getkey" /\ stack[2].op \in EndTakers /\ ~Returns =>
           Late' \/ UNCHANGED <<stack, push>>,
         \A f, g : stack' = <<f, g>> \o Tail(stack) /\ f.op = "getkey" /\ g.op \in EndTakers =>
           f.at = "start" /\ push' # <<>> /\ push'[1].c \in LineEnds
  PROVE  TakesInv'
<1>0. IsSeq(stack) /\ stack # <<>> /\ Len(stack) \in Nat \ {0} /\ Top = stack[1]
  BY StackBasics DEF StackInv
<1> SUFFICES ASSUME NEW j \in 1..Len(stack') - 1, stack'[j].op = "getkey", stack'[j + 1].op \in EndTakers, ~Late'
             PROVE  j = 1 /\ Fresh'
  BY DEF TakesInv, EndTakers
<1>1. \A i \in 1..Len(stack) - 1 : stack[i].op = "getkey" /\ stack[i + 1].op \in EndTakers => i = 1 /\ Fresh
  BY DEF TakesInv, EndTakers
<1>2. CASE stack' = stack
  <2>1. j = 1 /\ Fresh
    BY <1>1, <1>2
  <2>2. stack[2].op \in EndTakers /\ Top.op = "getkey"
    BY <1>0, <1>2, <2>1
  <2>3. ~Returns
    BY <1>2, LengthsDiffer DEF Returns
  <2>4. push' = push
    BY <2>2, <2>3
  <2> QED BY <1>2, <2>1, <2>4 DEF Fresh
<1>3. CASE \E g : Within(g)
  <2>1. PICK g : Within(g)
    BY <1>3
  <2>2. stack' = <<g>> \o Tail(stack) /\ g.op = Top.op
    BY <2>1 DEF Within, Keeps
  <2>3. Len(stack') = Len(stack) /\ stack'[1] = g /\ \A i \in 2..Len(stack) : stack'[i] = stack[i]
    BY ONLY <1>0, <2>2, WithinLemma
  <2>4. stack'[j + 1] = stack[j + 1] /\ stack'[j].op = stack[j].op /\ j \in 1..Len(stack) - 1
    <3>1. j + 1 \in 2..Len(stack) /\ (j = 1 \/ j \in 2..Len(stack)) /\ j \in 1..Len(stack) - 1
      BY <1>0, <2>3
    <3> QED BY <1>0, <2>2, <2>3, <3>1, Zenon
  <2>5. j = 1 /\ stack[2].op \in EndTakers /\ Top.op = "getkey"
    BY <1>0, <1>1, <2>4
  <2>6. ~Returns
    BY <2>2, LengthsDiffer DEF Returns
  <2>7. UNCHANGED <<stack, push>>
    BY <2>5, <2>6
  <2> QED BY <1>1, <2>4, <2>5, <2>7 DEF Fresh
<1>4. CASE \E f, g : Calling(f, g)
  <2>1. PICK f, g : Calling(f, g)
    BY <1>4
  <2>2. stack' = <<f, g>> \o Tail(stack) /\ g.op = Top.op
    BY <2>1 DEF Calling, Keeps
  <2>3. /\ Len(stack') = Len(stack) + 1 /\ stack'[1] = f /\ stack'[2] = g
        /\ \A i \in 3..Len(stack') : stack'[i] = stack[i - 1]
    BY ONLY <1>0, <2>2, CallLemma
  <2>4. CASE j = 1
    <3>1. f.op = "getkey" /\ g.op \in EndTakers
      BY <2>3, <2>4
    <3>2. f.at = "start" /\ push' # <<>> /\ push'[1].c \in LineEnds
      BY <2>2, <3>1
    <3> QED BY <2>3, <2>4, <3>2 DEF Fresh
  <2>5. CASE j # 1
    <3>1. j + 1 \in 3..Len(stack') /\ (j + 1) - 1 = j /\ (j = 2 \/ (j \in 3..Len(stack') /\ (j - 1) + 1 = j))
          /\ j - 1 \in 1..Len(stack) - 1
      BY <1>0, <2>3, <2>5
    <3>2. stack'[j + 1] = stack[j] /\ stack'[j].op = stack[j - 1].op
      BY <1>0, <2>2, <2>3, <3>1
    <3>3. j - 1 = 1 /\ Top.op = "getkey" /\ stack[2].op \in EndTakers
      BY <1>0, <1>1, <3>1, <3>2
    <3>4. ~Returns /\ stack' # stack
      BY <2>2, LengthsDiffer DEF Returns
    <3> QED BY <3>3, <3>4
  <2> QED BY <2>4, <2>5
<1>5. CASE Returns
  <2>1. Len(stack') = Len(stack) - 1 /\ \A i \in 1..Len(stack) - 1 : stack'[i] = stack[i + 1]
    BY <1>0, <1>5, ReturnLemma DEF Returns
  <2>2. stack'[j] = stack[j + 1] /\ stack'[j + 1] = stack[(j + 1) + 1] /\ j + 1 \in 1..Len(stack) - 1 /\ j + 1 # 1
    BY <1>0, <2>1
  <2> QED BY <1>1, <2>2
<1> QED BY <1>2, <1>3, <1>4, <1>5 DEF StackMove

\* GetKey takes for the two what they have seen, unless that was late.
LEMMA TakesKept ==
  ASSUME StrokesFormed, StrokesApart, OrderInv, LooksInv, TakesInv, Late => Late', [Next]_vars
  PROVE  TakesInv'
<1>0. /\ AccessInv /\ LbarInv /\ QaInv /\ AdjInv /\ StackInv /\ IsSeq(push) /\ StackMove
      /\ FlowInv /\ RowInv /\ FilterInv /\ KeysOk
  BY StepMove DEF OrderInv, KeysInv, AccessInv, RowInv
<1>1. IsSeq(stack) /\ stack # <<>> /\ Len(stack) \in Nat \ {0} /\ Top = stack[1]
  BY <1>0, StackBasics DEF StackInv
<1>2. ASSUME Top.op = "getkey", stack[2].op \in EndTakers, ~Returns
      PROVE  Late' \/ UNCHANGED <<stack, push>>
  <2> SUFFICES ASSUME ~Late', ~UNCHANGED <<stack, push>> PROVE FALSE
    OBVIOUS
  <2>1. 1 \in 1..Len(stack) - 1
    <3>1. Len(stack) > 1
      BY <1>0, <1>2, CalledBy
    <3> QED BY <1>1, <3>1
  <2>2. stack[1].op = "getkey" /\ stack[1 + 1].op \in EndTakers
    BY <1>1, <1>2
  <2>3. Fresh
    BY <2>1, <2>2 DEF TakesInv, EndTakers
  <2>4. Top.at = "start" /\ push # <<>> /\ push[1].c \in LineEnds
    BY <1>1, <2>3 DEF Fresh
  <2>5. InnerKey
    <3>1. ~Peek /\ ~Enter
      BY <1>2 DEF Peek, Enter, At
    <3> QED BY <1>0, <1>2, <2>4, <3>1, StepKinds
  <2>6. ~KeyRefused /\ ~KeyExpires /\ ~KeyLost
    BY <1>2 DEF KeyRefused, KeyExpires, KeyLost, Return, Returns
  <2>7. KeyPushed
    BY <2>4, <2>5, <2>6 DEF InnerKey, KeyLocal, KeyNotLocal, KeyRead, KeyWaits, KeyDeadline, Polling, At
  <2>8. Hand(push[1]) /\ push # <<>>
    <3>1. Hand(Head(push)) /\ push # <<>>
      BY <2>7 DEF KeyPushed
    <3> QED BY <1>0, <3>1, TailLemma
  <2>9. Eaten(push[1])
    BY <1>2, <2>8 DEF Hand, Eaten, Return, Returns
  <2>10. push[1].s # 0
    <3>1. push[1].s = 0 => mixed' = mixed \cup {crOf}
      BY <2>8, <2>9 DEF Hand, Eaten
    <3> QED BY <3>1 DEF Late
  <2>11. Row = push /\ 1 \in 1..Len(push)
    <3>1. Len(push) \in Nat \ {0}
      BY <1>0, <2>4, TailLemma
    <3>2. Row = push
      BY <1>2 DEF Row, Held, At
    <3> QED BY <3>1, <3>2
  <2>12. Late
    BY <1>0, <2>9, <2>10, <2>11, MateLate DEF Eaten
  <2> QED BY <2>12
<1>3. ASSUME NEW f, NEW g, stack' = <<f, g>> \o Tail(stack), f.op = "getkey", g.op \in EndTakers
      PROVE  f.at = "start" /\ push' # <<>> /\ push'[1].c \in LineEnds
  <2>1. /\ stack'[1] = f /\ stack'[2] = g /\ stack' # stack /\ stack' # Tail(stack)
        /\ ~Returns /\ \A h : ~Within(h)
    BY <1>0, <1>3, LengthsDiffer DEF Returns, Within
  <2>2. g.op = Top.op /\ f.at = "start"
    <3>1. PICK a, b : Calling(a, b)
      BY <1>0, <2>1 DEF StackMove
    <3>2. stack' = <<a, b>> \o Tail(stack) /\ b.op = Top.op /\ a.at = "start"
      BY <3>1 DEF Calling, Keeps
    <3>3. stack'[1] = a /\ stack'[2] = b
      BY <1>0, <3>2, LengthsDiffer
    <3> QED BY <2>1, <3>2, <3>3
  <2>3. Mate \/ Drain
    <3>1. Top.op \in EndTakers
      BY <1>3, <2>2
    <3>2. ~InnerKey
      BY <1>0, <3>1, KeyMove DEF InnerKey, EndTakers
    <3>3. ~Peek /\ ~Enter
      BY <3>1 DEF Peek, Enter, At, EndTakers
    <3> QED BY <1>0, <2>1, <3>1, <3>2, <3>3, StepKinds DEF Other, EndTakers
  <2>4. Top.op \in EndTakers /\ Top.at = "peeked" /\ ret.c \in LineEnds
    <3>1. PICK a, b : /\ stack' = <<a, b>> \o Tail(stack)
                      /\ a.op = "getkey" => Top.at = "peeked" /\ ret.c \in LineEnds
      BY <1>0, <2>1, <2>3, TakerCalls
    <3>2. stack'[1] = a
      BY <1>0, <3>1, LengthsDiffer
    <3> QED BY <1>0, <1>3, <2>1, <2>3, <3>1, <3>2, TakerCalls
  <2>5. IsKey(ret)
    BY <2>4 DEF IsKey, LineEnds
  <2>6. push # <<>> /\ push[1] = ret
    BY <2>4, <2>5 DEF LooksInv, EndTakers
  <2>7. push' = push
    <3>1. ~InnerKey
      BY <1>0, <2>4, KeyMove DEF InnerKey, EndTakers
    <3>2. ~Peek /\ ~Enter
      BY <2>4 DEF Peek, Enter, At, EndTakers
    <3> QED BY <1>0, <2>4, <3>1, <3>2, StepKinds DEF Other, EndTakers
  <2> QED BY <2>2, <2>4, <2>6, <2>7
<1> QED BY <1>0, <1>2, <1>3, TakesMove

\* Nothing is taken back.
LEMMA StepGrows ==
  ASSUME OrderInv, [Next]_vars
  PROVE  Grows
<1>0. /\ AccessInv /\ LbarInv /\ QaInv /\ IsSeq(push) /\ FlowInv /\ got \in Seq(Nat \X Nat)
  BY DEF OrderInv, KeysInv, RowInv, RowOk
<1>1. TypedOn /\ mixed \subseteq mixed'
  BY <1>0, StreamStep, MoveTypedOn, MixedMore
<1>2. ASSUME NEW p, got' = Append(got, p) PROVE \A j \in 1..Len(got) : j \in 1..Len(got') /\ got'[j] = got[j]
  <2>1. Len(got') = Len(got) + 1 /\ \A j \in 1..Len(got') : (j \in 1..Len(got) /\ got'[j] = got[j]) \/ j = Len(got) + 1
    BY <1>0, <1>2, AppendLemma
  <2>2. Len(got) \in Nat
    BY <1>0
  <2> QED BY <2>1, <2>2
<1>3. ASSUME NEW k, Hand(k) PROVE dropped \subseteq dropped' /\ (got' = got \/ got' = Append(got, <<k.s, k.i>>))
  BY <1>3 DEF Hand
<1>4. dropped \subseteq dropped' /\ (got' = got \/ \E p : got' = Append(got, p))
  <2>1. CASE InnerKey
    <3>1. (\E k : Hand(k)) \/ UNCHANGED fate
      BY <2>1 DEF InnerKey, KeyRefused, KeyPushed, KeyLocal, KeyNotLocal, KeyRead, KeyWaits, KeyDeadline,
                  KeyExpires, KeyLost
    <3> QED BY <1>3, <3>1 DEF fate
  <2>2. CASE Pushes /\ (Enter \/ Other)
    <3>1. got' = got
      BY <2>2 DEF Pushes, Puts
    <3>2. dropped \subseteq dropped'
      BY <2>2 DEF Enter, Other
    <3> QED BY <3>1, <3>2
  <2> QED BY <1>0, <2>1, <2>2, StepKinds
<1>5. \A j \in 1..Len(got) : j \in 1..Len(got') /\ got'[j] = got[j]
  <2>1. CASE got' = got
    BY <2>1
  <2> QED BY <1>2, <1>4, <2>1
<1> QED BY <1>1, <1>4, <1>5 DEF Grows

\* Keys put in front of the buffer leave what is in it in the row.
LEMMA PutsInRow ==
  ASSUME IsSeq(push), NEW n, NodeKeys(n), push' = n \o push
  PROVE  \A j \in 1..Len(push) : \E m \in 1..Len(Row') : Row'[m] = push[j]
<1>a. PICK u : u = n \o push
  OBVIOUS
<1>1. /\ IsSeq(u) /\ Len(u) = Len(n) + Len(push) /\ Len(n) \in Nat /\ Len(push) \in Nat
      /\ \A j \in 1..Len(u) : \/ j \in 1..Len(n) /\ u[j] = n[j]
                              \/ j - Len(n) \in 1..Len(push) /\ u[j] = push[j - Len(n)]
  BY <1>a, AfterLemma DEF NodeKeys
<1>2. push' = u
  BY <1>a
<1>3. ASSUME NEW j \in 1..Len(push) PROVE Len(n) + j \in 1..Len(u) /\ u[Len(n) + j] = push[j]
  <2>1. Len(n) + j \in 1..Len(u) /\ Len(n) + j \notin 1..Len(n) /\ (Len(n) + j) - Len(n) = j
    BY <1>1
  <2> QED BY <1>1, <2>1
<1>4. \A j \in 1..Len(u) : \E m \in 1..Len(Row') : Row'[m] = u[j]
  BY <1>1, <1>2, PushInRow
<1> QED BY <1>3, <1>4

\* GetKey takes from the buffer only where it looks there for a key.
LEMMA InnerPuts ==
  ASSUME IsSeq(push), InnerKey, ~KeyPushed
  PROVE  \E n : NodeKeys(n) /\ push' = n \o push
<1>1. ASSUME push' = push PROVE \E n : NodeKeys(n) /\ push' = n \o push
  <2>1. push' = <<>> \o push
    BY <1>1, EmptyCat
  <2> QED BY <2>1, NoNodeKeys
<1>2. CASE KeyLocal
  <2> DEFINE up == [i \in 1..Len(Cursor) - 1 |-> NodeKey(Cursor[i + 1], TRUE)]
  <2>1. push' = push \/ push' = up \o push
    BY <1>2 DEF KeyLocal
  <2>2. NodeKeys(up)
    BY CursorKeys
  <2> HIDE DEF up
  <2> QED BY <1>1, <2>1, <2>2
<1>3. CASE ~KeyLocal
  <2>1. push' = push
    BY <1>3 DEF InnerKey, KeyRefused, KeyNotLocal, KeyRead, KeyWaits, KeyDeadline, KeyExpires, KeyLost, keys
  <2> QED BY <1>1, <2>1
<1> QED BY <1>2, <1>3

\* A key that is read stays in the row, is handed out, or is excused.
LEMMA RowKeeps ==
  ASSUME StrokesFormed, StrokesApart, OrderInv, TakesInv, Grows, [Next]_vars,
         NEW j \in 1..Len(Row), Row[j].s # 0, NEW k, k = Row[j]
  PROVE  InRow(k.s, k.i)' \/ Excused(k.s, k.i)'
<1>0. /\ AccessInv /\ LbarInv /\ QaInv /\ AdjInv /\ StackInv /\ IsSeq(push) /\ IsSeq(push')
      /\ StackMove /\ FlowInv /\ FilterInv /\ got \in Seq(Nat \X Nat) /\ ByteOk(k, typed) /\ k.s \in 1..Len(typed)
  <2>1. KeysInv'
    BY KeysKept DEF OrderInv
  <2>2. IsSeq(push)'
    BY <2>1 DEF KeysInv, RowInv
  <2>3. IsSeq(push')
    BY <2>2 DEF IsSeq, Elements
  <2>4. AccessInv /\ StackInv
    BY DEF OrderInv, KeysInv, AccessInv
  <2> QED BY <2>3, <2>4, StepMove DEF OrderInv, KeysInv, RowInv, RowOk, RowKey, ByteOk, OfTyped
<1>1. ASSUME NEW m \in 1..Len(Row'), Row'[m] = k PROVE InRow(k.s, k.i)'
  BY <1>1 DEF InRow, Place
<1>2. ASSUME Row = push, NEW n, NodeKeys(n), push' = n \o push PROVE InRow(k.s, k.i)'
  BY <1>0, <1>1, <1>2, PutsInRow
<1>3. ASSUME Row = push, push # <<>>, push' = Tail(push), j # 1 PROVE InRow(k.s, k.i)'
  <2>1. Len(push) \in Nat \ {0} /\ Len(push') = Len(push) - 1 /\ \A i \in 1..Len(push') : push'[i] = push[i + 1]
    BY <1>0, <1>3, TailLemma
  <2>2. j - 1 \in 1..Len(push') /\ (j - 1) + 1 = j
    BY <1>3, <2>1
  <2>3. push'[j - 1] = k
    BY <1>3, <2>1, <2>2
  <2>4. \E m \in 1..Len(Row') : Row'[m] = k
    BY <1>0, <2>2, <2>3, PushInRow
  <2> QED BY <1>1, <2>4
<1>4. CASE InnerKey
  <2>1. Top.op = "getkey" /\ Row = push
    BY <1>0, <1>4, KeyMove, GetKeyTop DEF InnerKey
  <2>2. CASE ~KeyPushed
    BY <1>0, <1>2, <1>4, <2>1, <2>2, InnerPuts
  <2>3. CASE KeyPushed
    <3>1. push # <<>> /\ push' = Tail(push) /\ Hand(Head(push))
      BY <2>3 DEF KeyPushed
    <3>2. CASE j # 1
      BY <1>3, <2>1, <3>1, <3>2
    <3>3. CASE j = 1
      <4>1. Hand(k)
        BY <1>0, <2>1, <3>1, <3>3, TailLemma
      <4>2. ASSUME stack[2].op \in {"mate", "drain"} PROVE Late' \/ k.c \in LineEnds
        <5>1. Late \/ Fresh
          <6>2. 1 \in 1..Len(stack) - 1 /\ Top = stack[1]
            BY <1>0, <2>1, CalledBy, StackBasics
          <6>3. stack[1].op = "getkey" /\ stack[1 + 1].op \in {"mate", "drain"}
            BY <2>1, <4>2, <6>2
          <6> QED BY <6>2, <6>3 DEF TakesInv
        <5>2. Late => Late'
          BY DEF Late, Grows, TypedOn
        <5> QED BY <2>1, <3>3, <5>1, <5>2 DEF Fresh
      <4> QED BY <1>0, <2>1, <4>1, <4>2, HandKeeps
    <3> QED BY <3>2, <3>3
  <2> QED BY <2>2, <2>3
<1>5. CASE Peek /\ UNCHANGED got
  <2>1. Row' = Row
    BY <1>0, <1>5, PeekRow
  <2> QED BY <1>1, <2>1
<1>6. CASE Pushes /\ Top.op \notin {"getkey", "peek"} /\ (Enter \/ Other)
  <2>1. Row = push /\ Row' = push'
    BY <1>0, <1>6, NotHeld
  <2>2. CASE Puts
    BY <1>2, <2>1, <2>2 DEF Puts
  <2>3. CASE ~Puts
    <3>1. push # <<>> /\ push' = Tail(push) /\ Enter
      BY <1>6, <2>3 DEF Pushes, Other
    <3>2. CASE j # 1
      BY <1>3, <2>1, <3>1, <3>2
    <3>3. CASE j = 1
      <4>1. k = push[1] /\ push' # push
        <5>1. Len(push) \in Nat /\ Len(Tail(push)) = Len(push) - 1
          BY <1>0, <3>1, TailLemma
        <5>2. Len(push') = Len(Tail(push))
          BY <3>1
        <5>3. \A n \in Nat : n - 1 # n
          OBVIOUS
        <5>4. push' # push
          BY ONLY <5>1, <5>2, <5>3
        <5> QED BY <2>1, <3>3, <5>4
      <4>2. k.c \in {"CR", "LF"} /\ <<k.s, k.i>> \in dropped'
        BY <3>1, <4>1 DEF Enter
      <4>3. IsCommand(k.s) \/ typed[k.s][1] = "CR"
        BY <1>0, <4>2, KeyClass DEF Mates
      <4>4. IsCommand(k.s)' <=> IsCommand(k.s)
        BY <1>0 DEF IsCommand, Grows, TypedOn
      <4>5. typed'[k.s] = typed[k.s]
        BY <1>0 DEF Grows, TypedOn
      <4> QED BY <4>2, <4>3, <4>4, <4>5 DEF Excused
    <3> QED BY <3>2, <3>3
  <2> QED BY <2>2, <2>3
<1>7. CASE UNCHANGED <<stack, ret, push>>
  <2>1. Row' = Row
    BY <1>7 DEF Row, Held, At, Top, IsKey
  <2> QED BY <1>1, <2>1
<1> QED BY <1>0, <1>4, <1>5, <1>6, <1>7, StepKinds

\* The byte the filter keeps is part of a command, or taken for one, or ends an Enter.
LEMMA SkipExcused ==
  ASSUME StrokesFormed, StrokesApart, FlowInv, FilterInv, Skip, NEW b, b = LineOf[1]
  PROVE  Shorter /\ Excused(b.s, b.i)
<1>1. rbuf # <<>> /\ rbuf' = Tail(rbuf) /\ wire' = wire /\ ~Yields /\ kind = "telnet"
  BY DEF Skip
<1>2. Shorter /\ Head(rbuf) = b /\ LineOf # <<>>
  BY <1>1, TailLine DEF Shorter
<1>3. ByteOk(b, typed) /\ AtByte(b)
  BY <1>2, LineSeq, NextOf DEF FlowInv, FilterInv
<1>4. ASSUME ~IsCommand(b.s) PROVE Excused(b.s, b.i)
  <2>1. b.c # "IAC" /\ (b.c \in Mates => typed[b.s][1] = "CR" /\ b.i > 1)
    BY <1>3, <1>4, KeyClass
  <2>2. CASE mid = "data"
    <3>1. ~IsData(b)
      BY <1>1, <1>2 DEF Yields
    <3>2. b.c \in Mates
      BY <2>1, <2>2, <3>1 DEF IsData
    <3> QED BY <2>1, <3>2 DEF Excused
  <2>3. CASE mid # "data"
    <3>1. b.i = 1 /\ Loose(b.s)
      BY <1>3, <1>4, <2>3 DEF AtByte
    <3>2. ~Cut(b.s)
      BY <1>4 DEF Cut, FilterInv
    <3> QED BY <3>1, <3>2 DEF Loose, Excused
  <2> QED BY <2>2, <2>3
<1> QED BY <1>2, <1>4 DEF Excused

\* What is not first stays, one place nearer.
LEMMA NextAt ==
  ASSUME NEW s, IsSeq(s), s # <<>>, NEW m \in 1..Len(s), m # 1
  PROVE  m - 1 \in 1..Len(Tail(s)) /\ Tail(s)[m - 1] = s[m]
<1>1. Len(s) \in Nat \ {0} /\ Len(Tail(s)) = Len(s) - 1 /\ \A j \in 1..Len(Tail(s)) : Tail(s)[j] = s[j + 1]
  BY TailLemma
<1>2. \A n \in Nat \ {0} : \A j \in 1..n : j # 1 => j - 1 \in 1..n - 1 /\ (j - 1) + 1 = j
  OBVIOUS
<1>3. m - 1 \in 1..Len(Tail(s)) /\ (m - 1) + 1 = m
  BY <1>1, <1>2
<1> QED BY <1>1, <1>3

\* A byte on its way stays so, becomes a key, or is excused.
LEMMA LineKeeps ==
  ASSUME StrokesFormed, StrokesApart, OrderInv, TakesInv, Grows, [Next]_vars,
         NEW m \in 1..Len(LineOf), NEW b, b = LineOf[m]
  PROVE  OnLine(b.s, b.i)' \/ InRow(b.s, b.i)' \/ Excused(b.s, b.i)'
<1>0. /\ AccessInv /\ LbarInv /\ QaInv /\ AdjInv /\ StackInv /\ IsSeq(push) /\ IsSeq(push')
      /\ FlowInv /\ FilterInv /\ got \in Seq(Nat \X Nat) /\ IsSeq(LineOf) /\ Formed(LineOf, typed)
      /\ StreamMoves
  <2>1. KeysInv'
    BY KeysKept DEF OrderInv
  <2>2. IsSeq(push)'
    BY <2>1 DEF KeysInv, RowInv
  <2>3. IsSeq(push')
    BY <2>2 DEF IsSeq, Elements
  <2>4. AccessInv /\ LbarInv /\ QaInv /\ IsSeq(push) /\ FlowInv /\ FilterInv /\ StackInv /\ AdjInv
    BY DEF OrderInv, KeysInv, AccessInv, RowInv
  <2>5. StreamMoves
    BY <2>4, StreamStep
  <2> QED BY <2>3, <2>4, <2>5, LineSeq DEF OrderInv, KeysInv, RowInv, RowOk, FlowInv
<1>1. ByteOk(b, typed) /\ b.s \in 1..Len(typed)
  BY <1>0 DEF Formed, ByteOk, OfTyped
<1>2. ASSUME NEW q \in 1..Len(LineOf'), LineOf'[q] = b PROVE OnLine(b.s, b.i)'
  BY <1>2 DEF OnLine, Place
<1>3. Excused(b.s, b.i) => Excused(b.s, b.i)'
  BY <1>0, <1>1, ExcusedStays
<1>4. Late => Late'
  BY DEF Late, Grows, TypedOn
<1>5. CASE LineOf' = LineOf
  BY <1>2, <1>5
<1>6. CASE Type
  <2>1. PICK code : code \in Strings /\ LineOf' = LineOf \o Bytes(code, Len(typed) + 1)
    BY <1>0, <1>6, TypeLine
  <2>a. PICK t : t = Bytes(code, Len(typed) + 1)
    OBVIOUS
  <2>2. IsSeq(t)
    BY <2>1, <2>a, BytesLemma
  <2>3. \A u : u = LineOf \o t => Len(u) = Len(LineOf) + Len(t) /\ Len(LineOf) \in Nat /\ Len(t) \in Nat
    BY <1>0, <2>2, AfterLemma
  <2>4. \A u : u = LineOf \o t =>
          \A j \in 1..Len(u) : \/ j \in 1..Len(LineOf) /\ u[j] = LineOf[j]
                               \/ j - Len(LineOf) \in 1..Len(t) /\ u[j] = t[j - Len(LineOf)]
    BY <1>0, <2>2, AfterLemma
  <2>b. PICK u : u = LineOf'
    OBVIOUS
  <2>5. m \in 1..Len(u) /\ m - Len(LineOf) \notin 1..Len(t)
    BY <2>1, <2>a, <2>b, <2>3
  <2>6. u[m] = b
    BY <2>1, <2>a, <2>b, <2>4, <2>5
  <2> QED BY <1>2, <2>b, <2>5, <2>6
<1>7. ASSUME Shorter, m # 1 PROVE OnLine(b.s, b.i)'
  <2>1. LineOf' = Tail(LineOf) /\ LineOf # <<>>
    BY <1>7 DEF Shorter
  <2>2. m - 1 \in 1..Len(Tail(LineOf)) /\ Tail(LineOf)[m - 1] = b
    BY <1>0, <1>7, <2>1, NextAt
  <2> QED BY <1>2, <2>1, <2>2
<1>8. ASSUME TwoShorter, m # 1, m # 2 PROVE OnLine(b.s, b.i)'
  <2>a. PICK t : t = Tail(LineOf)
    OBVIOUS
  <2>1. LineOf' = Tail(t) /\ LineOf # <<>> /\ t # <<>>
    BY <1>8, <2>a DEF TwoShorter
  <2>2. IsSeq(t) /\ m - 1 \in 1..Len(t) /\ t[m - 1] = b
    BY <1>0, <1>8, <2>a, <2>1, NextAt, TailLemma
  <2>3. (m - 1) - 1 \in 1..Len(Tail(t)) /\ Tail(t)[(m - 1) - 1] = b
    <3>1. m - 1 # 1
      BY <1>8
    <3> QED BY <2>1, <2>2, <3>1, NextAt
  <2> QED BY <1>2, <2>1, <2>3
<1>9. CASE Skip
  <2>1. CASE m = 1
    BY <1>0, <1>3, <1>9, <2>1, SkipExcused
  <2>2. CASE m # 1
    BY <1>0, <1>7, <1>9, <2>2, SkipExcused
  <2> QED BY <2>1, <2>2
<1>10. CASE KeyRead
  <2>1. (Yield \/ PumpTake) /\ Hand(KeyOf(Head(rbuf), FALSE)) /\ At("getkey", "read")
    BY <1>10 DEF KeyRead
  <2>2. PICK k : k = KeyOf(Head(rbuf), FALSE)
    OBVIOUS
  <2>3. k.s = LineOf[1].s /\ k.i = LineOf[1].i /\ k.c = LineOf[1].c /\ (Shorter \/ TwoShorter)
    BY <1>0, <2>1, <2>2, ByteRead
  <2>4. CASE m = 1
    <3>1. ByteOk(k, typed) /\ k.s = b.s /\ k.i = b.i /\ Hand(k) /\ Top.op = "getkey"
      BY <1>1, <2>1, <2>2, <2>3, <2>4 DEF ByteOk, At
    <3>2. ASSUME stack[2].op \in {"mate", "drain"} PROVE Late'
      <4>1. 1 \in 1..Len(stack) - 1 /\ Top = stack[1]
        BY <1>0, <3>1, CalledBy, StackBasics
      <4>2. stack[1].op = "getkey" /\ stack[1 + 1].op \in {"mate", "drain"}
        BY <3>1, <3>2, <4>1
      <4>3. Late \/ Fresh
        BY <4>1, <4>2 DEF TakesInv
      <4>4. ~Fresh
        BY <2>1, <4>1 DEF Fresh, At
      <4> QED BY <1>4, <4>3, <4>4
    <3>3. InRow(k.s, k.i)' \/ Excused(k.s, k.i)'
      BY <1>0, <3>1, <3>2, HandKeeps
    <3> QED BY <3>1, <3>3
  <2>5. CASE m # 1 /\ Shorter
    BY <1>7, <2>5
  <2>6. CASE m = 2 /\ TwoShorter /\ ~Shorter
    <3>1. Yield
      <4>1. CASE PumpTake
        <5>1. rbuf # <<>> /\ rbuf' = Tail(rbuf) /\ wire' = wire
          BY <4>1 DEF PumpTake
        <5> QED BY <1>0, <2>6, <5>1, TailLine
      <4> QED BY <2>1, <4>1
    <3>2. rbuf[2].c \in Mates /\ LineOf[2] = rbuf[2]
      BY <1>0, <2>6, <3>1, YieldLine DEF TwoShorter
    <3>3. b.c \in Mates
      BY <2>6, <3>2
    <3>4. Excused(b.s, b.i)
      <4>1. ~IsCommand(b.s) => typed[b.s][1] = "CR" /\ b.i > 1
        BY <1>0, <1>1, <3>3, KeyClass
      <4> QED BY <4>1 DEF Excused
    <3> QED BY <1>3, <3>4
  <2>7. CASE m # 1 /\ m # 2 /\ TwoShorter
    BY <1>8, <2>7
  <2> QED BY <2>3, <2>4, <2>5, <2>6, <2>7
<1>11. CASE UNCHANGED <<kind, typed, rbuf, wire, mid, mate, cut>> \/ Fill \/ PumpLoop \/ Forget
  <2>1. LineOf' = LineOf
    <3>1. CASE UNCHANGED <<kind, typed, rbuf, wire>>
      BY <1>0, <3>1, FlowSame
    <3>2. CASE Fill \/ PumpLoop
      BY <1>0, <3>2, FillLine, PumpLine
    <3>3. CASE Forget
      BY <1>0, <3>1, <3>3 DEF Forget
    <3> QED BY <1>11, <3>1, <3>2, <3>3
  <2> QED BY <1>5, <2>1
<1> QED BY <1>0, <1>6, <1>9, <1>10, <1>11 DEF StreamMoves

\* No byte of the caller goes amiss in a step.
LEMMA KeptKept ==
  ASSUME StrokesFormed, StrokesApart, OrderInv, KeptInv, TakesInv, [Next]_vars
  PROVE  KeptInv'
<1>0. FlowInv /\ FilterInv /\ IsSeq(LineOf) /\ LineMove /\ Grows
  <2>1. AccessInv /\ LbarInv /\ QaInv /\ IsSeq(push) /\ FlowInv
    BY DEF OrderInv, KeysInv, RowInv
  <2> QED BY <2>1, StepFlows, FlowKept, LineSeq, StepGrows DEF OrderInv
<1> DEFINE Kept(s, i) == OnLine(s, i)' \/ InRow(s, i)' \/ Excused(s, i)'
<1>1. ASSUME NEW s \in 1..Len(typed), NEW i \in 1..Len(typed[s]) PROVE Kept(s, i)
  <2>1. CASE OnLine(s, i)
    <3>1. PICK m \in 1..Len(LineOf) : Place(LineOf[m]) = <<s, i>>
      BY <2>1 DEF OnLine
    <3>2. PICK b : b = LineOf[m]
      OBVIOUS
    <3>3. b.s = s /\ b.i = i
      BY <3>1, <3>2 DEF Place
    <3>4. OnLine(b.s, b.i)' \/ InRow(b.s, b.i)' \/ Excused(b.s, b.i)'
      BY <1>0, <3>2, LineKeeps
    <3> QED BY <3>3, <3>4
  <2>2. CASE InRow(s, i)
    <3>1. PICK j \in 1..Len(Row) : Place(Row[j]) = <<s, i>>
      BY <2>2 DEF InRow
    <3>2. PICK k : k = Row[j]
      OBVIOUS
    <3>3. k.s = s /\ k.i = i
      BY <3>1, <3>2 DEF Place
    <3>4. k.s # 0
      BY <1>0, <3>3 DEF FlowInv
    <3>5. InRow(k.s, k.i)' \/ Excused(k.s, k.i)'
      BY <1>0, <3>2, <3>4, RowKeeps
    <3> QED BY <3>3, <3>5
  <2>3. CASE Excused(s, i)
    BY <1>0, <2>3, ExcusedStays
  <2> QED BY <2>1, <2>2, <2>3 DEF KeptInv
<1>2. ASSUME NEW code \in Strings, typed' = Append(typed, code), LineOf' = LineOf \o Bytes(code, Len(typed) + 1),
             NEW i \in 1..Len(code), NEW s, s = Len(typed) + 1
      PROVE  OnLine(s, i)'
  <2>a. PICK t : t = Bytes(code, Len(typed) + 1)
    OBVIOUS
  <2>b. PICK u : u = LineOf'
    OBVIOUS
  <2>1. IsSeq(t) /\ Len(t) = Len(code) /\ t[i].s = Len(typed) + 1 /\ t[i].i = i
    BY <2>a, BytesLemma
  <2>2. Len(u) = Len(LineOf) + Len(t) /\ Len(LineOf) \in Nat /\ Len(t) \in Nat
    BY <1>0, <1>2, <2>a, <2>b, <2>1, AfterLemma
  <2>3. \A j \in 1..Len(u) : \/ j \in 1..Len(LineOf) /\ u[j] = LineOf[j]
                             \/ j - Len(LineOf) \in 1..Len(t) /\ u[j] = t[j - Len(LineOf)]
    BY <1>0, <1>2, <2>a, <2>b, <2>1, AfterLemma
  <2>4. Len(LineOf) + i \in 1..Len(u) /\ Len(LineOf) + i \notin 1..Len(LineOf) /\ (Len(LineOf) + i) - Len(LineOf) = i
    BY <2>1, <2>2
  <2>5. u[Len(LineOf) + i] = t[i]
    BY <2>3, <2>4
  <2>6. Len(LineOf) + i \in 1..Len(LineOf') /\ Place(LineOf'[Len(LineOf) + i]) = <<s, i>>
    BY <1>2, <2>b, <2>1, <2>4, <2>5 DEF Place
  <2>7. \E m \in 1..Len(LineOf') : Place(LineOf'[m]) = <<s, i>>
    BY <2>6
  <2> QED BY <2>7 DEF OnLine, Place
<1>3. ASSUME NEW s \in 1..Len(typed'), NEW i \in 1..Len(typed'[s]) PROVE Kept(s, i)
  <2>1. CASE typed' = typed
    BY <1>1, <2>1
  <2>2. CASE \E code \in Strings : typed' = Append(typed, code) /\ LineOf' = LineOf \o Bytes(code, Len(typed) + 1)
    <3>1. PICK code \in Strings : typed' = Append(typed, code) /\ LineOf' = LineOf \o Bytes(code, Len(typed) + 1)
      BY <2>2
    <3>2. /\ Len(typed') = Len(typed) + 1 /\ Len(typed) \in Nat /\ typed'[Len(typed) + 1] = code
          /\ \A q \in 1..Len(typed) : typed'[q] = typed[q]
      BY <1>0, <3>1, TypedMore DEF FlowInv
    <3>3. CASE s \in 1..Len(typed)
      BY <1>1, <3>2, <3>3
    <3>4. CASE s \notin 1..Len(typed)
      <4>1. s = Len(typed) + 1
        BY <3>2, <3>4
      <4>2. i \in 1..Len(code)
        BY <3>2, <4>1
      <4> QED BY <1>2, <3>1, <4>1, <4>2
    <3> QED BY <3>3, <3>4
  <2> QED BY <1>0, <2>1, <2>2 DEF LineMove
<1> QED BY <1>3 DEF KeptInv

\* The inductive invariant of NoKeyLost.
LostInv == OrderInv /\ KeptInv /\ LooksInv /\ TakesInv

LEMMA LostKept ==
  ASSUME StrokesFormed, StrokesApart, LostInv, [Next]_vars
  PROVE  LostInv'
<1>1. Late => Late'
  BY StepGrows DEF Late, LostInv, Grows, TypedOn
<1> QED BY <1>1, OrderKept, KeptKept, LooksKept, TakesKept DEF LostInv, OrderInv

LEMMA LostStart == Init => LostInv
<1> SUFFICES ASSUME Init PROVE LostInv
  OBVIOUS
<1> DEFINE f == [Frame("session", "-") EXCEPT !.at = "idle"]
<1>1. stack = <<f>> /\ typed = <<>>
  BY DEF Init, TerminalInit, StreamInit
<1>2. f.op = "session"
  BY DEF Frame
<1> HIDE DEF f
<1>3. Len(stack) = 1 /\ Top = f /\ Len(typed) = 0
  BY <1>1 DEF Top
<1>4. 1..Len(stack) - 1 = {} /\ 1..Len(typed) = {}
  BY <1>3
<1> QED BY <1>2, <1>3, <1>4, OrderStart DEF LostInv, KeptInv, LooksInv, TakesInv

\* What is kept is in flight, or one of the ways a key is not lost.
LEMMA KeptShows ==
  ASSUME LostInv
  PROVE  NoKeyLost
<1>0. IsSeq(rbuf) /\ IsSeq(wire) /\ IsSeq(push)
  BY DEF LostInv, OrderInv, KeysInv, FlowInv, RowInv
<1>1. \A j \in 1..Len(LineOf) : \/ j \in 1..Len(rbuf) /\ LineOf[j] = rbuf[j]
                                \/ j - Len(rbuf) \in 1..Len(wire) /\ LineOf[j] = wire[j - Len(rbuf)]
  BY <1>0, AfterLemma DEF LineOf
<1>2. \A j \in 1..Len(Row) : Row[j] = ret \/ \E q \in 1..Len(push) : Row[j] = push[q]
  <2>1. CASE Row = push
    BY <2>1
  <2>2. CASE Row = <<ret>> \o push
    <3>1. /\ Len(Row) = Len(push) + 1 /\ Len(push) \in Nat /\ Row[1] = ret
          /\ \A j \in 2..Len(Row) : Row[j] = push[j - 1]
      BY <1>0, <2>2, PushLemma
    <3>2. \A j \in 1..Len(Row) : j = 1 \/ (j \in 2..Len(Row) /\ j - 1 \in 1..Len(push))
      BY <3>1
    <3> QED BY <3>1, <3>2
  <2> QED BY <2>1, <2>2 DEF Row
<1>3. DOMAIN rbuf = 1..Len(rbuf) /\ DOMAIN wire = 1..Len(wire) /\ DOMAIN push = 1..Len(push)
  BY <1>0 DEF IsSeq
<1>4. ASSUME NEW s, NEW i, OnLine(s, i) PROVE <<s, i>> \in InFlight
  <2>1. PICK m \in 1..Len(LineOf) : <<LineOf[m].s, LineOf[m].i>> = <<s, i>>
    BY <1>4 DEF OnLine, Place
  <2>2. LineOf[m] \in {wire[j] : j \in DOMAIN wire} \cup {rbuf[j] : j \in DOMAIN rbuf}
    BY <1>1, <1>3, <2>1
  <2> QED BY <2>1, <2>2 DEF InFlight
<1>5. ASSUME NEW s, NEW i, InRow(s, i) PROVE <<s, i>> \in InFlight
  <2>1. PICK m \in 1..Len(Row) : <<Row[m].s, Row[m].i>> = <<s, i>>
    BY <1>5 DEF InRow, Place
  <2>2. Row[m] \in {push[j] : j \in DOMAIN push} \cup {ret}
    BY <1>2, <1>3, <2>1
  <2> QED BY <2>1, <2>2 DEF InFlight
<1>6. DOMAIN got = 1..Len(got)
  BY DEF LostInv, OrderInv, KeysInv, RowInv, RowOk
<1> SUFFICES ASSUME NEW s \in 1..Len(typed), NEW i \in 1..Len(typed[s]), ~IsCommand(s), ~(AfterCut(s) /\ i = 1)
             PROVE  \/ <<s, i>> \in InFlight \/ \E j \in DOMAIN got : got[j] = <<s, i>>
                    \/ typed[s][1] = "CR" /\ (i > 1 \/ <<s, i>> \in dropped)
                    \/ <<s, i>> \in dropped /\ (mixed # {} \/ cut # {})
  BY DEF NoKeyLost
<1>7. OnLine(s, i) \/ InRow(s, i) \/ Excused(s, i)
  BY DEF LostInv, KeptInv
<1>8. CASE Excused(s, i)
  BY <1>6, <1>8 DEF Excused, Late
<1> QED BY <1>4, <1>5, <1>7, <1>8

\* Where strokes are whole, and told apart by their codes, no key of the caller is
\* lost: what was typed is on its way, in the buffer, or handed out, or it ended a
\* line that an Enter, or a prompt that drops what was typed ahead, took along.
THEOREM NoKeyEverLost == ASSUME StrokesFormed, StrokesApart PROVE Spec => []NoKeyLost
<1>1. LostInv => NoKeyLost
  BY KeptShows
<1>2. LostInv /\ [Next]_vars => LostInv'
  BY LostKept
<1> QED BY LostStart, <1>1, <1>2, PTL DEF Spec
=============================================================================
