----------------------------- MODULE MenuEngine -----------------------------
(***************************************************************************)
(* The menus (internal/menu/engine.go, funcs.go): the stack of menus, the  *)
(* pass over a menu's items that runs the automatic ones, the choice by    *)
(* hot key or light bar, and the functions of items.                       *)
(*                                                                         *)
(* A menu file is a sequence of items, its prompt first.  The functions    *)
(* that read mail, transfer files or change the account are in MailReader, *)
(* FileSession and Logon; messages from other nodes are in NodeSession.    *)
(***************************************************************************)
EXTENDS Questionnaire

CONSTANTS Menus,    \* the menu files there are, by name
          Global,   \* the items of globalra.mnu
          MaxNest,  \* MaxNestMenus
          Missing,  \* sets of menus that may turn out to be missing
          Levels,   \* what the sysop may change Security to
          Goodbye   \* the text at the end

NoBar == <<>>

ASSUME MenuAssumption ==
  /\ MaxNest \in Nat \ {0}
  /\ \A m \in DOMAIN Menus : Menus[m] # <<>>
  /\ \A items \in {Menus[m] : m \in DOMAIN Menus} \cup {Global} :
       items \in Seq([key : STRING, typ : STRING, data : Seq(STRING), input : Seq(STRING),
                      levels : SUBSET Nat, bar : Seq(Nat)])

VARIABLE menu  \* the stack, what is missing, and the fields of Engine; and, to
               \* state properties, the item that runs and the hot key taken

NoEngine ==
  [path |-> <<"top">>, missing |-> {}, hang |-> FALSE, jump |-> FALSE, hot |-> <<>>,
   choice |-> "none", lbarFile |-> FALSE, support |-> FALSE, lbar |-> 0, drop |-> FALSE,
   ran |-> 0, took |-> "none"]

MenuInit == QuestionnaireInit /\ menu = NoEngine

board == <<menu, qa, level, seen>>

\* load: the global items follow those of the menu.
Items(name) == Menus[name] \o Global
Readable(name) == name \in DOMAIN Menus \ menu.missing
Item(i) == Items(Top.c)[i]

\* access.
Access(it) == level \in it.levels

Automatic(it) == it.key = "auto"

First(S) == CHOOSE i \in S : \A j \in S : i <= j
Final(S) == CHOOSE i \in S : \A j \in S : j <= i
ByKey(items, S) ==
  [k \in {items[i].key : i \in S} |-> First({i \in S : items[i].key = k})]

\* Mutant: every item has its place in the table.
HotTableOfAll(items) == ByKey(items, {i \in 2..Len(items) : items[i].key \notin {"auto", "none"}})

\* The first item of each key that the caller may run, and that is not automatic.
HotTable(items) ==
  ByKey(items, {i \in 2..Len(items) : Access(items[i]) /\ items[i].key \notin {"auto", "none"}})

-----------------------------------------------------------------------------
\* Enter and run.

EngineStart ==
  /\ At("engine", "start")
  /\ menu' = [menu EXCEPT !.path = <<"top">>, !.drop = TRUE]
  /\ Call(Frame("drain", "-"), "load")
  /\ Consume
  /\ UNCHANGED <<pager, seen, push, noMore>>

\* The next menu: its table of hot keys is made, and the pass begins.
EngineLoad ==
  LET name == menu.path[Len(menu.path)]
      draw == /\ stack' = <<[Top EXCEPT !.at = "items", !.c = name, !.i = 2]>> \o Tail(stack)
              /\ menu' = [menu EXCEPT !.hot = HotTable(Items(name)), !.choice = "none", !.took = "none",
                                      !.lbarFile = Global # <<>> \/ \E i \in DOMAIN Menus[name] :
                                                                      Menus[name][i].bar # NoBar]
              /\ seen' = {level}
              /\ pager' = [pager EXCEPT !.lines = 0, !.disp = FALSE]
  IN /\ At("engine", "load")
     /\ \/ menu.hang /\ stack' = Tail(stack) /\ UNCHANGED <<menu, seen, pager>>
        \/ ~menu.hang /\ Readable(name) /\ draw
        \/ ~menu.hang /\ ~Readable(name) /\ name = "top" /\ Goto("fallback") /\ UNCHANGED <<menu, seen, pager>>
        \/ /\ ~menu.hang /\ ~Readable(name) /\ name # "top"
           /\ menu' = [menu EXCEPT !.path = <<"top">>]
           /\ UNCHANGED <<stack, seen, pager>>
     /\ Consume
     /\ UNCHANGED <<push, noMore>>

\* An item's input goes into the buffer, then its function runs.
Exec(items, i, at) ==
  /\ push' = [j \in DOMAIN items[i].input |-> NodeKey(items[i].input[j], FALSE)] \o push
  /\ menu' = [menu EXCEPT !.jump = FALSE, !.lbar = 0, !.ran = i]
  /\ CallFrom(Func(items[i].typ, items[i].data), at, [Top EXCEPT !.i = i])

EngineItems ==
  LET items == Items(Top.c)
      due == {i \in Top.i..Len(items) : Automatic(items[i]) /\ Access(items[i])}
      bars == menu.lbarFile /\ \E i \in DOMAIN items : items[i].bar # NoBar /\ Access(items[i])
  IN /\ At("engine", "items")
     /\ \/ \E i \in due : (\A j \in due : i <= j) /\ Exec(items, i, "ran")
        \/ /\ due = {}
           /\ menu' = [menu EXCEPT !.support = bars]
           /\ Goto(IF menu.choice = "none" THEN "choose" ELSE "picked")
           /\ UNCHANGED push
     /\ Consume
     /\ UNCHANGED <<pager, seen, noMore>>

\* Mutant: the next automatic item forgets the choice.
EngineRanOn ==
  /\ At("engine", "ran")
  /\ IF ret.c = "quit" THEN stack' = Tail(stack) ELSE
     IF menu.jump THEN Goto("load") ELSE stack' = <<[Passed EXCEPT !.at = "items"]>> \o Tail(stack)
  /\ menu' = [menu EXCEPT !.choice = "none"]
  /\ Consume
  /\ UNCHANGED <<pager, seen, push, noMore>>

\* A hot key that interrupted a text ends the pass.
EngineRan ==
  LET next == IF menu.choice = "none" THEN Top.i + 1 ELSE Len(Items(Top.c)) + 1
  IN /\ At("engine", "ran")
     /\ \/ ret.c = "quit" /\ stack' = Tail(stack)
        \/ ret.c # "quit" /\ menu.jump /\ Goto("load")
        \/ /\ ret.c # "quit" /\ ~menu.jump
           /\ stack' = <<[Top EXCEPT !.at = "items", !.i = next]>> \o Tail(stack)
     /\ Consume
     /\ UNCHANGED <<menu, pager, seen, push, noMore>>

-----------------------------------------------------------------------------
\* Light bars: the item an arrow key goes to.

BarOK(items, i) == i >= 2 /\ items[i].bar # NoBar /\ Access(items[i])
CorrectArrow(items, arrow, up) ==
  LET ok == {i \in DOMAIN items : BarOK(items, i)}
      at == IF arrow > Len(items) THEN 2 ELSE arrow
      near == {i \in ok : IF up THEN i <= at ELSE i >= at}
  IN CASE ok = {} -> 2
       [] ok # {} /\ at \in ok -> at
       [] ok # {} /\ at < 2 -> Final(ok)
       [] ok # {} /\ at >= 2 /\ at \notin ok ->
            IF up THEN Final(IF near = {} THEN ok ELSE near) ELSE First(IF near = {} THEN ok ELSE near)

\* On the same line, to the right or to the left; else it stays.
Sideways(items, arrow, right) ==
  LET bar == items[arrow].bar
      there == IF bar = NoBar THEN {}
               ELSE {i \in DOMAIN items : /\ BarOK(items, i) /\ items[i].bar[2] = bar[2]
                                          /\ IF right THEN items[i].bar[1] > bar[1] ELSE items[i].bar[1] < bar[1]}
      behind == {i \in there : i > arrow}
  IN CASE there = {} -> arrow
       [] behind # {} -> First(behind)
       [] there # {} /\ behind = {} -> IF right THEN First(there) ELSE Final(there)

Moved(items, arrow, c) ==
  CASE c = "A" -> CorrectArrow(items, arrow - 1, TRUE)
    [] c = "B" -> CorrectArrow(items, arrow + 1, FALSE)
    [] c \in {"C", "D"} -> CorrectArrow(items, Sideways(items, arrow, c = "C"), FALSE)

-----------------------------------------------------------------------------
\* getMenuChoice.

InHot(c) == c \in DOMAIN menu.hot \cup {"CR", "LF", "#255"}
Choose(c) == menu' = [menu EXCEPT !.choice = c]

\* The Enter that ended the logon is no choice.
EngineChoose ==
  /\ At("engine", "choose")
  /\ LET ready == [Top EXCEPT !.i = IF menu.support THEN CorrectArrow(Items(Top.c), 2, FALSE) ELSE 2]
     IN IF menu.drop THEN CallFrom(Frame("drain", "-"), "ask", ready)
        ELSE stack' = <<[ready EXCEPT !.at = "ask"]>> \o Tail(stack)
  /\ menu' = [menu EXCEPT !.drop = FALSE]
  /\ Consume
  /\ UNCHANGED <<pager, seen, push, noMore>>

EngineAsk ==
  /\ At("engine", "ask")
  /\ Call(TimedKey, "key")
  /\ Consume
  /\ UNCHANGED <<menu, pager, seen, push, noMore>>

BarPicks == menu.support /\ ret.c \in {"CR", "LF"}

EngineKey ==
  /\ At("engine", "key")
  /\ \/ /\ ret.c = "failed"
        /\ menu' = [menu EXCEPT !.hang = TRUE]
        /\ stack' = Tail(stack)
     \/ ret.c = "ESC" /\ Call(Frame("arrow", "-"), "arrow") /\ UNCHANGED menu
     \/ /\ BarPicks
        /\ Top.i <= Len(Items(Top.c))
        /\ menu' = [menu EXCEPT !.lbar = IF Item(Top.i).typ = "none" THEN 0 ELSE Top.i,
                                !.choice = IF Item(Top.i).key = "none" THEN "CR" ELSE Item(Top.i).key]
        /\ Goto("picked")
     \/ BarPicks /\ Top.i > Len(Items(Top.c)) /\ Choose("CR") /\ Goto("picked")
     \/ ~BarPicks /\ InHot(ret.c) /\ Choose(ret.c) /\ Goto("picked")
     \/ ~InHot(ret.c) /\ ret.c \notin {"failed", "ESC"} /\ Goto("ask") /\ UNCHANGED menu
  /\ Consume
  /\ UNCHANGED <<pager, seen, push, noMore>>

EngineArrow ==
  /\ At("engine", "arrow")
  /\ \/ /\ menu.support /\ ret.c \in {"A", "B", "C", "D"}
        /\ stack' = <<[Top EXCEPT !.at = "ask", !.i = Moved(Items(Top.c), Top.i, ret.c)]>> \o Tail(stack)
        /\ UNCHANGED menu
     \/ /\ ~(menu.support /\ ret.c \in {"A", "B", "C", "D"})
        /\ IF InHot(ret.c) THEN Choose(ret.c) /\ Goto("picked") ELSE Goto("ask") /\ UNCHANGED menu
  /\ Consume
  /\ UNCHANGED <<pager, seen, push, noMore>>

\* The prompts are on again, whatever the caller answered to the last one.  The
\* light bar looks again whether its item may be run, a hot key does not.
EnginePicked ==
  LET items == Items(Top.c)
      found == {menu.hot[k] : k \in DOMAIN menu.hot \cap {menu.choice}}
      runs == IF menu.lbar # 0 THEN {i \in {menu.lbar} : Access(items[i])} ELSE found
  IN /\ At("engine", "picked")
     /\ pager' = [pager EXCEPT !.disp = TRUE, !.lines = 1]
     /\ noMore' = FALSE
     /\ \/ \E i \in runs : Exec(items, i, "done")
        \/ runs = {} /\ Goto("load") /\ menu' = [menu EXCEPT !.lbar = 0] /\ UNCHANGED push
     /\ Consume
     /\ UNCHANGED seen

EngineDone ==
  /\ At("engine", "done")
  /\ IF ret.c = "quit" THEN stack' = Tail(stack) ELSE Goto("load")
  /\ Consume
  /\ UNCHANGED <<menu, pager, seen, push, noMore>>

\* Without a top menu there is a built-in one, here with "goodbye" alone.
Fallback ==
  /\ \/ At("engine", "fallback") /\ Call(GetKey, "fallen") /\ UNCHANGED menu
     \/ /\ At("engine", "fallen")
        /\ \/ stack' = Tail(stack) /\ menu' = [menu EXCEPT !.hang = TRUE]
           \/ ret.c # "failed" /\ Goto("fallback") /\ UNCHANGED menu
  /\ Consume
  /\ UNCHANGED <<pager, seen, push, noMore>>

Engine == EngineStart \/ EngineLoad \/ EngineItems \/ EngineRan \/ EngineChoose \/ EngineAsk
          \/ EngineKey \/ EngineArrow \/ EnginePicked \/ EngineDone \/ Fallback

-----------------------------------------------------------------------------
\* doType.

\* gotoMenu, once its password was given.
Onward(typ, name) ==
  [menu EXCEPT !.jump = TRUE,
               !.path = CASE typ = "top" -> <<name>>
                          [] typ = "gosub" /\ Len(@) < MaxNest -> Append(@, name)
                          [] OTHER -> [@ EXCEPT ![Len(@)] = name]]

FuncMenu ==
  LET name == Top.text[1]
      pass == Len(Top.text) > 1
  IN /\ \/ /\ Top.c \in {"goto", "gosub", "top"} /\ Top.at = "start"
           /\ IF pass THEN Call(Frame("line", "-"), "pass") /\ UNCHANGED menu
              ELSE stack' = Tail(stack) /\ menu' = Onward(Top.c, name)
        \/ /\ Top.c \in {"goto", "gosub", "top"} /\ Top.at = "pass"
           /\ stack' = Tail(stack)
           /\ UNCHANGED menu \/ menu' = Onward(Top.c, name)
        \/ /\ Top.c = "return"
           /\ menu' = [menu EXCEPT !.jump = TRUE,
                                   !.path = IF Len(@) > 1 THEN SubSeq(@, 1, Len(@) - 1) ELSE @]
           /\ stack' = Tail(stack)
     /\ Consume
     /\ UNCHANGED <<pager, noMore>>

\* Texts and questionnaires; the key that interrupted a hot text is the choice.
HotChars == IF menu.lbarFile THEN {} ELSE DOMAIN menu.hot \cup {"CR"}

FuncShow ==
  /\ \/ /\ Top.c \in {"text", "textenter"} /\ Top.at = "start"
        /\ Call(Text(Library[Top.text[1]]), IF Top.c = "text" THEN "end" ELSE "enter")
        /\ UNCHANGED menu
     \/ Top.c = "textenter" /\ Top.at = "enter" /\ Call(Frame("press", "-"), "end") /\ UNCHANGED menu
     \/ Top.c = "script" /\ Top.at = "start" /\ Call(Frame("script", Top.text[1]), "end") /\ UNCHANGED menu
     \/ Top.c = "hot" /\ Top.at = "start" /\ Call(HotText(Library[Top.text[1]], HotChars), "shown") /\ UNCHANGED menu
     \/ /\ Top.c = "hot" /\ Top.at = "shown"
        /\ menu' = [menu EXCEPT !.choice = IF ret.c = "none" THEN @ ELSE ret.c]
        /\ stack' = Tail(stack)
     \/ Top.at = "end" /\ stack' = Tail(stack) /\ UNCHANGED menu
  /\ Consume
  /\ UNCHANGED <<pager, noMore>>

\* Goodbye, nothing, and settings: of those, one switches the prompts.
FuncPlain ==
  \/ /\ Top.c = "quit"
     /\ menu' = [menu EXCEPT !.hang = TRUE]
     /\ Return(NodeKey("quit", FALSE))
     /\ UNCHANGED <<pager, noMore>>
  \/ Top.c = "none" /\ Return(None) /\ UNCHANGED <<menu, pager, noMore>>
  \/ /\ Top.c = "toggle" /\ Top.at = "start"
     /\ Call(Frame("press", "-"), "toggled")
     /\ Consume /\ UNCHANGED <<menu, pager, noMore>>
  \/ /\ Top.c = "toggle" /\ Top.at = "toggled"
     /\ \E on \in BOOLEAN : pager' = [pager EXCEPT !.disp = on] /\ noMore' = (noMore /\ ~on)
     /\ Return(None)
     /\ UNCHANGED menu

\* withoutMore: a line that may not be empty.
FuncEdit ==
  /\ Top.c = "edit"
  /\ \/ /\ Top.at = "start"
        /\ CallFrom(Frame("line", "-"), "line", [Top EXCEPT !.on = pager.more, !.also = pager.disp])
        /\ pager' = [pager EXCEPT !.more = FALSE, !.disp = FALSE, !.lines = 0]
     \/ /\ Top.at = "line" /\ ret.c # "failed"
        /\ Call(Frame("line", "-"), "line")
        /\ UNCHANGED pager
     \/ /\ Top.at = "line"
        /\ pager' = [pager EXCEPT !.more = Top.on, !.disp = Top.also, !.lines = 1]
        /\ stack' = Tail(stack)
  /\ Consume
  /\ UNCHANGED <<menu, noMore>>

Function == /\ Top.op = "func"
            /\ FuncMenu \/ FuncShow \/ FuncPlain \/ FuncEdit
            /\ UNCHANGED <<seen, push>>

-----------------------------------------------------------------------------
\* RunOn enters the menus, and says goodbye to who is still there.
Board ==
  /\ \/ /\ At("session", "idle") /\ asked = 0 /\ "board" \in Requests
        /\ Call(Frame("engine", "-"), "left")
        /\ \E m \in Missing : menu' = [menu EXCEPT !.missing = m]
        /\ asked' = MaxRequests
     \/ /\ At("session", "left")
        /\ IF idle.done \/ hung THEN Goto("done") ELSE Call(Text(Goodbye), "done")
        /\ menu' = NoEngine
        /\ UNCHANGED asked
  /\ Consume

\* The hot key a text takes is remembered.
Taken == menu' = IF At("show", "hot") /\ ret.c \in pager.keys THEN [menu EXCEPT !.took = ret.c] ELSE menu

MenuStep ==
  \/ TerminalStep /\ Taken /\ UNCHANGED <<qa, level, seen>>
  \/ Script /\ UNCHANGED <<stream, crPend, local, fate, ends, idle, paused, asked, noMore, menu>>
  \/ (Engine \/ Function) /\ UNCHANGED <<stream, crPend, local, fate, ends, idle, paused, asked, qa, level>>
  \/ Board /\ UNCHANGED <<stream, keys, fate, ends, idle, pager, paused, noMore, qa, level, seen>>
=============================================================================
