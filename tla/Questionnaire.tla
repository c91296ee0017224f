---------------------------- MODULE Questionnaire ----------------------------
(***************************************************************************)
(* Questionnaires (internal/quest/qa.go, cmds.go): the scripts that menus, *)
(* texts and other scripts run.  A script is a sequence of commands, the   *)
(* name and then the arguments; IF, WHILE, GOTO and GOSUB work on one line *)
(* at a time, with counters for what is skipped and a stack of loops.      *)
(*                                                                         *)
(* Commands that only compute, write or read files are left out, but for   *)
(* ASSIGN; a condition compares an answer with a value.                    *)
(***************************************************************************)
EXTENDS Terminal

CONSTANTS Slots,         \* the answers that are used
          Level,         \* Security of the caller
          MaxWhile, MaxGoSub,
          MaxIterations  \* rounds of a loop; a WHILE counts anew

\* There are as many ENDWHILEs as WHILEs between two lines.
Balanced(f, w, e) ==
  LET count(name) == Cardinality({i \in w..e : Scripts[f][i][1] = name})
  IN count("WHILE") = count("ENDWHILE")

ASSUME QuestionnaireAssumption ==
  /\ MaxWhile \in Nat \ {0} /\ MaxGoSub \in Nat \ {0} /\ MaxIterations \in Nat
  /\ \A f \in DOMAIN Scripts :
       Len(Scripts[f]) \in Nat /\ DOMAIN Scripts[f] = 1..Len(Scripts[f])
  /\ \A f \in DOMAIN Scripts : \A w \in DOMAIN Scripts[f] :
       /\ Scripts[f][w][1] = "WHILE" => \E e \in w..Len(Scripts[f]) : Balanced(f, w, e)
       /\ Scripts[f][w][1] = "EMULATEINPUT" => Scripts[f][w][2] \in Seq(STRING)

VARIABLES qa,     \* the vm of every script that runs, the innermost first
          level,  \* Line.User.Security
          seen    \* the levels there were since the menu was drawn

QuestionnaireInit ==
  /\ qa = <<>>
  /\ level = Level
  /\ seen = {Level}

\* wild: the script has left the nesting of its loops, see Wild.
NewVM(name) ==
  [file |-> name, pc |-> 1, ans |-> [n \in Slots |-> ""], done |-> FALSE,
   skipIf |-> FALSE, ignIf |-> 0, skipWhile |-> FALSE, ignWhile |-> 0,
   loops |-> <<>>, iters |-> 0, subs |-> <<>>, incs |-> <<>>, wild |-> FALSE,
   saved |-> [more |-> pager.more, stop |-> pager.stop, skip |-> pager.skip, disp |-> pager.disp]]

Q == Head(qa)
Lines(q) == Scripts[q.file]
Cmd == Lines(Q)[Q.pc]
Onto(q) == [q EXCEPT !.pc = @ + 1]
Becomes(q) == qa' = <<q>> \o Tail(qa)

-----------------------------------------------------------------------------
\* Control flow.

Skipping(q) == q.skipIf \/ q.skipWhile

\* What is skipped ends at its own ELSE, ENDIF or ENDWHILE.
PassOver(q, name) ==
  CASE q.skipIf /\ name = "IF" -> [q EXCEPT !.ignIf = @ + 1]
    [] q.skipIf /\ name = "ENDIF" /\ q.ignIf > 0 -> [q EXCEPT !.ignIf = @ - 1]
    [] q.skipIf /\ name \in {"ELSE", "ENDIF"} /\ q.ignIf = 0 -> [q EXCEPT !.skipIf = FALSE]
    [] ~q.skipIf /\ name = "WHILE" -> [q EXCEPT !.ignWhile = @ + 1]
    [] ~q.skipIf /\ name = "ENDWHILE" /\ q.ignWhile > 0 -> [q EXCEPT !.ignWhile = @ - 1]
    [] ~q.skipIf /\ name = "ENDWHILE" /\ q.ignWhile = 0 -> [q EXCEPT !.skipWhile = FALSE]
    [] OTHER -> q

\* testIf.
Test(q, c) == IF c[3] = "=" THEN q.ans[c[2]] = c[4] ELSE q.ans[c[2]] # c[4]

EndOf(f, w) == CHOOSE e \in w..Len(Scripts[f]) :
                 Balanced(f, w, e) /\ \A d \in w..e - 1 : ~Balanced(f, w, d)

\* The loops of a script around one of its lines.
Around(f, p) == {w \in 1..p - 1 : Scripts[f][w][1] = "WHILE" /\ p <= EndOf(f, w)}

\* Mutant: a jump leaves the loops as they are.
JumpKeeps(q, label) ==
  LET at == {i \in DOMAIN Lines(q) : Lines(q)[i] = <<"LABEL", label>>}
  IN IF at = {} THEN q
     ELSE [q EXCEPT !.pc = CHOOSE i \in at : \A j \in at : j <= i,
                    !.skipIf = FALSE, !.ignIf = 0, !.skipWhile = FALSE, !.ignWhile = 0]

\* gotoLabel: to the last such label, out of every IF and WHILE.
Jump(q, label) ==
  LET at == {i \in DOMAIN Lines(q) : Lines(q)[i] = <<"LABEL", label>>}
      to == CHOOSE i \in at : \A j \in at : j <= i
  IN IF at = {} THEN q
     ELSE [q EXCEPT !.pc = to, !.loops = <<>>,
                    !.skipIf = FALSE, !.ignIf = 0, !.skipWhile = FALSE, !.ignWhile = 0,
                    !.wild = @ \/ Around(q.file, to) # {}
                               \/ \E i \in DOMAIN q.incs : Around(q.incs[i].file, q.incs[i].pc) # {}]

While(q, c) ==
  IF ~Test(q, c) THEN [q EXCEPT !.skipWhile = TRUE]
  ELSE IF Len(q.loops) < MaxWhile THEN [q EXCEPT !.loops = <<q.pc>> \o @, !.iters = 0]
  ELSE [q EXCEPT !.wild = TRUE]

EndWhile(q) ==
  IF q.loops = <<>> THEN q
  ELSE LET start == Head(q.loops)
           left == [q EXCEPT !.loops = Tail(@)]
       IN IF start > Len(Lines(q)) THEN left
          ELSE IF ~Test(q, Lines(q)[start]) THEN left
          ELSE IF q.iters >= MaxIterations THEN [left EXCEPT !.iters = @ + 1]
          ELSE [q EXCEPT !.pc = start, !.iters = @ + 1]

\* BREAK skips to the end of the loop and leaves it on the stack; GOSUB jumps,
\* and RETURN does not bring the loops back.
Control(q, c) ==
  LET name == c[1]
  IN CASE name = "IF" -> [q EXCEPT !.skipIf = ~Test(q, c)]
       [] name = "ELSE" -> [q EXCEPT !.skipIf = TRUE]
       [] name = "ENDIF" -> [q EXCEPT !.skipIf = FALSE]
       [] name = "WHILE" -> While(q, c)
       [] name = "ENDWHILE" -> EndWhile(q)
       [] name = "BREAK" -> [q EXCEPT !.skipWhile = TRUE, !.wild = TRUE]
       [] name = "GOTO" -> Jump(q, c[2])
       [] name = "GOSUB" ->
            LET called == IF Len(q.subs) < MaxGoSub THEN [q EXCEPT !.subs = <<q.pc>> \o @] ELSE q
            IN [Jump(called, c[2]) EXCEPT !.wild = TRUE]
       [] name = "RETURN" /\ q.subs # <<>> -> [q EXCEPT !.pc = Head(q.subs), !.subs = Tail(@)]
       [] name = "QUIT" -> [q EXCEPT !.done = TRUE]
       [] name = "ASSIGN" -> [q EXCEPT !.ans[c[2]] = c[3]]
       [] OTHER -> q

Flow == {"IF", "ELSE", "ENDIF", "WHILE", "ENDWHILE", "BREAK", "GOTO", "GOSUB", "RETURN",
         "QUIT", "ASSIGN", "LABEL"}

-----------------------------------------------------------------------------
\* Exec.

ScriptStart ==
  /\ At("script", "start")
  /\ IF Top.c \in DOMAIN Scripts
     THEN /\ qa' = <<NewVM(Top.c)>> \o qa
          /\ pager' = [pager EXCEPT !.more = FALSE, !.stop = FALSE, !.skip = TRUE, !.disp = FALSE, !.lines = 0]
          /\ Goto("run")
     ELSE /\ stack' = Tail(stack)
          /\ pager' = [pager EXCEPT !.lines = 0]
          /\ UNCHANGED qa
  /\ Consume
  /\ UNCHANGED <<push, level, seen>>

Finished == Q.pc > Len(Lines(Q)) \/ Q.done \/ Gone
Running == At("script", "run") /\ ~Finished

\* An included script is done: its includer goes on, with its own lines.
ScriptIncluded ==
  /\ At("script", "run") /\ Finished /\ Q.incs # <<>>
  /\ Becomes([Q EXCEPT !.file = Head(Q.incs).file, !.pc = Head(Q.incs).pc + 1, !.incs = Tail(@)])
  /\ UNCHANGED <<stack, ret, pager, push, level, seen>>

\* Mutant: the prompts stay as the script left them.
ScriptEndsUnpaged ==
  /\ At("script", "run") /\ Finished /\ Q.incs = <<>>
  /\ pager' = [pager EXCEPT !.more = Q.saved.more, !.stop = Q.saved.stop, !.skip = Q.saved.skip]
  /\ qa' = Tail(qa)
  /\ Return(None)
  /\ UNCHANGED <<push, level, seen>>

ScriptEnds ==
  /\ At("script", "run") /\ Finished /\ Q.incs = <<>>
  /\ pager' = [pager EXCEPT !.more = Q.saved.more, !.stop = Q.saved.stop,
                            !.skip = Q.saved.skip, !.disp = Q.saved.disp]
  /\ qa' = Tail(qa)
  /\ Return(None)
  /\ UNCHANGED <<push, level, seen>>

ScriptFlow ==
  /\ Running /\ (Skipping(Q) \/ Cmd[1] \in Flow)
  /\ Becomes(Onto(IF Skipping(Q) THEN PassOver(Q, Cmd[1]) ELSE Control(Q, Cmd)))
  /\ UNCHANGED <<stack, ret, pager, push, level, seen>>

ScriptIncludes ==
  /\ Running /\ ~Skipping(Q) /\ Cmd[1] = "INCLUDEQA"
  /\ Becomes(IF Cmd[2] \in DOMAIN Scripts
             THEN [Q EXCEPT !.file = Cmd[2], !.pc = 1,
                            !.incs = <<[file |-> Q.file, pc |-> Q.pc]>> \o @]
             ELSE Onto(Q))
  /\ UNCHANGED <<stack, ret, pager, push, level, seen>>

\* Commands that set something outside the script.
ScriptSets ==
  /\ Running /\ ~Skipping(Q)
  /\ \/ /\ Cmd[1] = "EMULATEINPUT"
        /\ push' = [i \in DOMAIN Cmd[2] |-> NodeKey(Cmd[2][i], FALSE)] \o push
        /\ UNCHANGED <<pager, level>>
     \/ Cmd[1] = "PAGEMODE" /\ pager' = [pager EXCEPT !.disp = Cmd[2]] /\ UNCHANGED <<push, level>>
     \/ Cmd[1] = "SETSECURITY" /\ level' = Cmd[2] /\ UNCHANGED <<push, pager>>
  /\ seen' = seen \cup {level'}
  /\ Becomes(Onto(Q))
  /\ UNCHANGED <<stack, ret>>

\* A function of the menus, its type and what belongs to it.
Func(typ, data) == [Frame("func", typ) EXCEPT !.text = data]

Calls ==
  CASE Cmd[1] = "DISPLAYFILE" -> Text(Library[Cmd[2]])
    [] Cmd[1] = "WAITENTER" -> Frame("enter", "-")
    [] Cmd[1] = "ASK" -> Frame("drain", "-")
    [] Cmd[1] \in {"GETCHOICE", "GETRAWKEY"} -> GetKey
    [] Cmd[1] = "KEYPRESS" -> PeekKey
    [] Cmd[1] = "MENUCMND" -> Func(Cmd[2], Cmd[3])

Callers == {"DISPLAYFILE", "WAITENTER", "ASK", "GETCHOICE", "GETRAWKEY", "KEYPRESS", "MENUCMND"}

ScriptCalls ==
  /\ Running /\ ~Skipping(Q) /\ Cmd[1] \in Callers
  /\ Call(Calls, "called")
  /\ Consume
  /\ UNCHANGED <<qa, pager, push, level, seen>>

Put(v) == Becomes(Onto([Q EXCEPT !.ans[Cmd[2]] = v]))

\* What comes of them: ASK reads its line, GETCHOICE waits for one of its keys,
\* GETRAWKEY may have got the first byte of an arrow key.
ScriptCalled ==
  /\ At("script", "called")
  /\ \/ Cmd[1] \in {"DISPLAYFILE", "WAITENTER", "MENUCMND"} /\ Goto("run") /\ Becomes(Onto(Q))
     \/ Cmd[1] = "ASK" /\ Call(Frame("line", "-"), "asked") /\ UNCHANGED qa
     \/ /\ Cmd[1] = "KEYPRESS"
        /\ Goto("run")
        /\ Put(IF IsKey(ret) THEN "YES" ELSE "NO")
     \/ /\ Cmd[1] = "GETCHOICE"
        /\ IF ret.c = "failed" \/ Gone THEN Goto("run") /\ Becomes(Onto(Q))
           ELSE IF ret.c \in Cmd[3] THEN Goto("run") /\ Put(ret.c)
           ELSE Call(GetKey, "called") /\ UNCHANGED qa
     \/ /\ Cmd[1] = "GETRAWKEY"
        /\ IF ret.c = "ESC" THEN Call(Frame("arrow", "-"), "arrow") /\ UNCHANGED qa
           ELSE Goto("run") /\ Put(CASE ret.c = "failed" -> "ESC" [] ret.c = "LF" -> "CR" [] OTHER -> ret.c)
  /\ Consume
  /\ UNCHANGED <<pager, push, level, seen>>

Arrows == [A |-> "UP", B |-> "DOWN", C |-> "RIGHT", D |-> "LEFT", H |-> "HOME", K |-> "END", ESC |-> "ESC"]

ScriptGot ==
  /\ \/ At("script", "arrow") /\ Put(IF ret.c \in DOMAIN Arrows THEN Arrows[ret.c] ELSE "")
     \/ At("script", "asked") /\ \E v \in {"", "text"} : Put(v)
  /\ Goto("run")
  /\ Consume
  /\ UNCHANGED <<pager, push, level, seen>>

Script == ScriptStart \/ ScriptIncluded \/ ScriptEnds \/ ScriptFlow \/ ScriptIncludes
          \/ ScriptSets \/ ScriptCalls \/ ScriptCalled \/ ScriptGot

=============================================================================
