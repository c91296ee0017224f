------------------------------ MODULE Terminal ------------------------------
(***************************************************************************)
(* The terminal of a session (internal/term/io.go): keys from the caller,  *)
(* from the node window and from the buffer that programs fill; the timer  *)
(* for inactivity; input of lines, answers and Enters; and the display of  *)
(* texts with "more" prompts and hot keys.                                 *)
(*                                                                         *)
(* The session is one goroutine whose calls nest: a text asks for a key,   *)
(* the key comes from the node window, where a command starts a chat,      *)
(* which shows a text.  "stack" holds the calls, the innermost first: op   *)
(* names the function, at the place in it, and the other fields are what   *)
(* it has to remember.                                                     *)
(***************************************************************************)
EXTENDS Streams

CONSTANTS IdleTime,    \* idleTime, in ticks
          Warning,     \* the last ticks of it, for which the caller is warned
          PageLength,  \* Length
          Library,     \* the text files, by name, as sequences of what they contain
          Scripts,     \* the questionnaires, by name
          Texts,       \* the texts the session itself shows
          Startchat,   \* the text a chat starts with
          Cursor,      \* what a cursor key of the node window becomes
          Requests,    \* what the session does with the terminal
          MaxRequests, \* bound on that
          DrainTries   \* how often DrainLineEnds looks for the end of a line

ASSUME TerminalAssumption ==
  /\ IdleTime \in Nat \ {0} /\ Warning \in 0..IdleTime
  /\ PageLength \in Nat \ {0}
  /\ \A t \in Texts \cup {Startchat} \cup {Library[n] : n \in DOMAIN Library} : t \in Seq(STRING)
  /\ Cursor \in Seq(STRING) /\ Cursor # <<>>
  /\ MaxRequests \in Nat /\ DrainTries \in Nat

VARIABLES stack,   \* the calls of the session
          ret,     \* what the last one returned
          push,    \* push and pushSysop
          crPend,  \* pendingCR
          local,   \* keys pressed in the node window
          hung,    \* HangUp was called
          lost,    \* the stream failed
          idle,    \* idleOn, idleLimit - now, idleWarned, idleDone
          pager,   \* the fields about paging and hot keys
          paused,  \* the session holds the node window, mirrored.scr
          asked,   \* requests so far
          got,     \* bytes of the caller handed out as keys
          dropped, \* bytes read and dropped as rests of an Enter
          crOf,    \* the stroke of the caller's last CR
          mixed,   \* strokes between whose bytes another key was read
          aside,   \* bytes put back as keys while the sysop chats
          noMore   \* the caller wanted no "more" prompts

window == kind = "telnet"
keys == <<push, crPend, local>>
fate == <<got, dropped, crOf, mixed, aside>>
ends == <<hung, lost>>

None == [c |-> "none", s |-> 0, i |-> 0, sys |-> FALSE]
Failed == [None EXCEPT !.c = "failed"]
KeyOf(b, sys) == [c |-> b.c, s |-> b.s, i |-> b.i, sys |-> sys]
NodeKey(c, sys) == [c |-> c, s |-> 0, i |-> 0, sys |-> sys]
IsKey(k) == k.c \notin {"none", "failed"}

Frame(op, c) == [op |-> op, at |-> "start", c |-> c, text |-> <<>>, keys |-> {},
                 i |-> 1, on |-> FALSE, also |-> FALSE]
GetKey == Frame("getkey", "-")
TimedKey == [GetKey EXCEPT !.on = TRUE]
PeekKey == Frame("peek", "-")
MateOf(c) == Frame("mate", c)

Top == Head(stack)
At(op, at) == Top.op = op /\ Top.at = at
Goto(at) == stack' = <<[Top EXCEPT !.at = at]>> \o Tail(stack)
Call(f, at) == stack' = <<f, [Top EXCEPT !.at = at]>> \o Tail(stack)
CallFrom(f, at, caller) == stack' = <<f, [caller EXCEPT !.at = at]>> \o Tail(stack)
Return(v) == stack' = Tail(stack) /\ ret' = v
Consume == ret' = None

TerminalInit ==
  /\ StreamInit
  /\ stack = <<[Frame("session", "-") EXCEPT !.at = "idle"]>>
  /\ ret = None
  /\ push = <<>>
  /\ crPend = FALSE
  /\ local = <<>>
  /\ hung = FALSE
  /\ lost = FALSE
  /\ idle = [on |-> TRUE, left |-> IdleTime, warned |-> FALSE, done |-> FALSE]
  /\ pager = [more |-> TRUE, disp |-> TRUE, lines |-> 0, stop |-> FALSE,
              hot |-> FALSE, keys |-> {}, have |-> FALSE, abort |-> "none", skip |-> FALSE]
  /\ paused = FALSE
  /\ asked = 0
  /\ got = <<>>
  /\ dropped = {}
  /\ crOf = 0
  /\ mixed = {}
  /\ aside = {}
  /\ noMore = FALSE

-----------------------------------------------------------------------------
\* GetKey.

Gone == hung \/ idle.done \/ lost
IdleActive == idle.on /\ ~idle.done
FullTime(i) == [i EXCEPT !.left = IdleTime]
Touch == idle' = [FullTime(idle) EXCEPT !.warned = FALSE]

\* Time passes.  Only GetKey looks at the clock, so it is where all the time
\* since its last look has passed.
Tick ==
  /\ At("getkey", "start") /\ idle.left > 0
  /\ idle' = [idle EXCEPT !.left = @ - 1]
  /\ UNCHANGED <<stream, stack, ret, keys, fate, ends, pager, paused, asked, noMore>>

\* Mutant: the rest of an Enter is a key like any other.
HandAll(k) ==
  LET for == stack[2].op
  IN /\ crPend' = (k.c = "CR")
     /\ crOf' = IF k.c = "CR" /\ k.s # 0 THEN k.s ELSE crOf
     /\ mixed' = IF crPend /\ k.s = 0 THEN mixed \cup {crOf} ELSE mixed
     /\ Return(k)
     /\ Touch
     /\ UNCHANGED aside
     /\ got' = IF k.s # 0 /\ for \notin {"peek", "mate", "drain"}
               THEN Append(got, <<k.s, k.i>>) ELSE got
     /\ dropped' = IF k.s # 0 /\ for \in {"mate", "drain"}
                   THEN dropped \cup {<<k.s, k.i>>} ELSE dropped

\* A key is read.  The rest of an Enter is passed over; other keys go to the
\* caller of GetKey.
Hand(k) ==
  LET eaten == crPend /\ k.c \in Mates
      for == stack[2].op
  IN /\ crPend' = (~eaten /\ k.c = "CR")
     /\ crOf' = IF k.c = "CR" /\ k.s # 0 THEN k.s ELSE crOf
     /\ mixed' = IF crPend /\ k.s = 0 THEN mixed \cup {crOf} ELSE mixed
     /\ UNCHANGED aside
     /\ IF eaten THEN /\ Goto("start")
                      /\ UNCHANGED <<ret, idle, got, dropped>>
        ELSE /\ Return(k)
             /\ Touch
             /\ got' = IF k.s # 0 /\ for \notin {"peek", "mate", "drain"}
                       THEN Append(got, <<k.s, k.i>>) ELSE got
             /\ dropped' = IF k.s # 0 /\ for \in {"mate", "drain"}
                           THEN dropped \cup {<<k.s, k.i>>} ELSE dropped

\* No key for one who was hung up, or whose time is over, which he is told on
\* a new page.
KeyRefused ==
  /\ At("getkey", "start")
  /\ hung \/ idle.done \/ (IdleActive /\ idle.left = 0)
  /\ idle' = IF ~hung /\ ~idle.done THEN [idle EXCEPT !.done = TRUE, !.on = FALSE] ELSE idle
  /\ pager' = IF idle'.done # idle.done THEN [pager EXCEPT !.lines = 1] ELSE pager
  /\ Return(Failed)
  /\ UNCHANGED <<stream, keys, fate, ends, paused, asked, noMore>>

\* The warning, if it is time for it, starts a new page.
Warn(i) == IF IdleActive /\ i.left < Warning THEN [i EXCEPT !.warned = TRUE] ELSE i
WarnedPage == pager' = IF Warn(idle) # idle THEN [pager EXCEPT !.lines = 1] ELSE pager

\* The buffer of pushed keys comes first, then the node window.
KeyPushed ==
  /\ At("getkey", "start") /\ ~hung /\ ~idle.done /\ ~(IdleActive /\ idle.left = 0)
  /\ push # <<>>
  /\ push' = Tail(push)
  /\ Hand(Head(push))
  /\ WarnedPage
  /\ UNCHANGED <<stream, local, ends, paused, asked, noMore>>

Polling == At("getkey", "start") /\ ~hung /\ ~idle.done /\ ~(IdleActive /\ idle.left = 0) /\ push = <<>>

\* pollLocal: a cursor key becomes the sequence of the caller's terminals, and
\* a command of the sysop is carried out before the next key is looked at.
Scans == {"Alt-C", "Alt-D", "Alt-E", "Alt-H"}

KeyLocal ==
  /\ Polling \/ (At("getkey", "local") /\ ~hung)
  /\ local # <<>>
  /\ local' = Tail(local)
  /\ \/ /\ Head(local) \notin Scans \cup {"Up"}
        /\ Hand(NodeKey(Head(local), TRUE))
        /\ UNCHANGED push
     \/ /\ Head(local) = "Up"
        /\ push' = [i \in 1..Len(Cursor) - 1 |-> NodeKey(Cursor[i + 1], TRUE)] \o push
        /\ Hand(NodeKey(Cursor[1], TRUE))
     \/ /\ Head(local) \in Scans
        /\ Call(Frame("command", Head(local)), "local")
        /\ UNCHANGED <<push, crPend, ret, idle, fate>>
  /\ UNCHANGED <<stream, ends, pager, paused, asked, noMore>>

\* No key in the window: the stream is read.
KeyNotLocal ==
  /\ \/ Polling /\ local = <<>> /\ Goto("read") /\ UNCHANGED ret
     \/ At("getkey", "local") /\ ~hung /\ local = <<>> /\ Goto("read") /\ UNCHANGED ret
     \/ At("getkey", "local") /\ hung /\ Return(Failed)
  /\ WarnedPage
  /\ idle' = Warn(idle)
  /\ UNCHANGED <<stream, keys, fate, ends, paused, asked, noMore>>

\* The stream has a key.
KeyRead ==
  /\ At("getkey", "read")
  /\ Yield \/ PumpTake
  /\ Hand(KeyOf(Head(rbuf), FALSE))
  /\ UNCHANGED <<push, local, ends, pager, paused, asked, noMore>>

\* The stream goes on reading.
KeyWaits ==
  /\ At("getkey", "read")
  /\ Fill \/ Skip \/ PumpSleep
  /\ UNCHANGED <<stack, ret, keys, fate, ends, idle, pager, paused, asked, noMore>>

\* A read has a deadline if the caller's time runs or there is a node window
\* to look at; it begins again.
KeyDeadline ==
  /\ At("getkey", "read") /\ rbuf = <<>>
  /\ IdleActive \/ window
  /\ Forget
  /\ Goto("start")
  /\ UNCHANGED <<ret, keys, fate, ends, idle, pager, paused, asked, noMore>>

\* The deadline of the call itself.
KeyExpires ==
  /\ At("getkey", "read") /\ rbuf = <<>> /\ Top.on
  /\ Forget
  /\ Return(None)
  /\ UNCHANGED <<keys, fate, ends, idle, pager, paused, asked, noMore>>

KeyLost ==
  /\ At("getkey", "read") /\ AtEnd
  /\ lost' = TRUE
  /\ Return(Failed)
  /\ UNCHANGED <<stream, keys, fate, hung, idle, pager, paused, asked, noMore>>

-----------------------------------------------------------------------------
\* PeekKey and the ends of lines.

LineEnds == {"CR", "LF", "NUL"}

\* Mutant: the key that was looked at is not put back.
PeekTakes ==
  \/ /\ At("peek", "start") /\ push # <<>>
     /\ Return(Head(push))
     /\ UNCHANGED <<push, aside>>
  \/ /\ At("peek", "start") /\ push = <<>>
     /\ Call(TimedKey, "got")
     /\ UNCHANGED <<ret, push, aside>>
  \/ /\ At("peek", "got")
     /\ stack' = Tail(stack)
     /\ ret' = IF IsKey(ret) THEN ret ELSE None
     /\ UNCHANGED <<push, aside>>

\* A key that is already in the buffer stays there, others go back to it.
Peek ==
  \/ /\ At("peek", "start") /\ push # <<>>
     /\ Return(Head(push))
     /\ UNCHANGED <<push, aside>>
  \/ /\ At("peek", "start") /\ push = <<>>
     /\ Call(TimedKey, "got")
     /\ UNCHANGED <<ret, push, aside>>
  \/ /\ At("peek", "got")
     /\ push' = IF IsKey(ret) THEN <<ret>> \o push ELSE push
     /\ aside' = IF ret.s # 0 /\ \E j \in DOMAIN stack : stack[j].op = "chat"
                 THEN aside \cup {<<ret.s, ret.i>>} ELSE aside
     /\ stack' = Tail(stack)
     /\ ret' = IF IsKey(ret) THEN ret ELSE None

\* eatLineEndMate.
Mate ==
  \/ /\ At("mate", "start")
     /\ IF Top.c \in {"CR", "LF"} THEN Call(PeekKey, "peeked") ELSE stack' = Tail(stack)
     /\ Consume
  \/ /\ At("mate", "peeked")
     /\ IF \/ Top.c = "CR" /\ ret.c \in Mates
           \/ Top.c = "LF" /\ ret.c = "CR"
        THEN Call(GetKey, "end") ELSE stack' = Tail(stack)
     /\ Consume
  \/ At("mate", "end") /\ Return(None)

\* Mutant: as long as there are any.
DrainAll ==
  \/ /\ At("drain", "start")
     /\ Call(PeekKey, "peeked")
     /\ Consume
  \/ /\ At("drain", "peeked")
     /\ IF ret.c \in LineEnds THEN CallFrom(GetKey, "took", [Top EXCEPT !.c = ret.c])
        ELSE stack' = Tail(stack)
     /\ Consume
  \/ /\ At("drain", "took")
     /\ Call(MateOf(Top.c), "start")
     /\ Consume

\* DrainLineEnds: so many times, an end of a line and its rest.
Drain ==
  \/ /\ At("drain", "start")
     /\ IF Top.i > DrainTries THEN stack' = Tail(stack) ELSE Call(PeekKey, "peeked")
     /\ Consume
  \/ /\ At("drain", "peeked")
     /\ IF ret.c \in LineEnds THEN CallFrom(GetKey, "took", [Top EXCEPT !.c = ret.c])
        ELSE stack' = Tail(stack)
     /\ Consume
  \/ /\ At("drain", "took")
     /\ CallFrom(MateOf(Top.c), "start", [Top EXCEPT !.i = @ + 1])
     /\ Consume

\* GetArrowKeys, after an Esc; what is not complete in time was an Esc alone.
Arrow ==
  \/ /\ Top.op = "arrow" /\ Top.at \in {"start", "sequence"}
     /\ Call(TimedKey, IF Top.at = "start" THEN "got" ELSE "final")
     /\ UNCHANGED ret
  \/ /\ At("arrow", "got")
     /\ IF ret.c = "[" THEN Goto("sequence") /\ Consume
        ELSE Return(IF IsKey(ret) THEN ret ELSE NodeKey("ESC", FALSE))
  \/ /\ At("arrow", "final")
     /\ Return(IF IsKey(ret) THEN ret ELSE NodeKey("ESC", FALSE))

-----------------------------------------------------------------------------
\* Lines, Enters, prompts and answers.

MoreDue(p) ==
  ~p.skip /\ ~p.hot /\ p.more /\ p.disp /\ ~p.stop /\ p.lines >= PageLength - 1

\* collectString.
Line ==
  \/ /\ At("line", "start")
     /\ Call(GetKey, "got")
     /\ UNCHANGED <<ret, pager>>
  \/ /\ At("line", "got")
     /\ \/ ret.c = "failed" /\ Return(Failed) /\ UNCHANGED pager
        \/ /\ ret.c = "CR"
           /\ Call(MateOf("CR"), "end")
           /\ pager' = [pager EXCEPT !.lines = @ + 1]
           /\ Consume
        \/ ret.c \notin {"failed", "CR"} /\ Goto("start") /\ Consume /\ UNCHANGED pager
  \/ At("line", "end") /\ Return(None) /\ UNCHANGED pager

Unpaged == pager' = [pager EXCEPT !.lines = 0, !.stop = FALSE]

\* waitEnter.
Enter ==
  \/ /\ At("enter", "start")
     /\ IF pager.skip THEN Return(None) /\ Unpaged
        ELSE Call(GetKey, "got") /\ UNCHANGED <<ret, pager>>
     /\ UNCHANGED <<push, dropped>>
  \/ /\ At("enter", "got") /\ ret.c \in {"failed", "CR", "LF"}
     /\ IF push # <<>> /\ <<ret.c, push[1].c>> \in {<<"CR", "LF">>, <<"LF", "CR">>}
        THEN /\ push' = Tail(push)
             /\ dropped' = dropped \cup {<<push[1].s, push[1].i>>}
        ELSE UNCHANGED <<push, dropped>>
     /\ Unpaged
     /\ Return(None)
  \/ /\ At("enter", "got") /\ ret.c \notin {"failed", "CR", "LF"}
     /\ Goto("start")
     /\ Consume
     /\ UNCHANGED <<push, dropped, pager>>

\* PressEnter, without its prompt.
Press ==
  \/ /\ At("press", "start")
     /\ LET p == [pager EXCEPT !.lines = @ + 1]
        IN IF pager.hot THEN Return(None) /\ UNCHANGED pager
           ELSE IF MoreDue(p)
           THEN Call(Frame("ask", "-"), "more") /\ pager' = [p EXCEPT !.lines = 0] /\ UNCHANGED ret
           ELSE Goto("more") /\ pager' = p /\ UNCHANGED ret
  \/ /\ At("press", "more")
     /\ Call(Frame("enter", "-"), "end")
     /\ Consume /\ UNCHANGED pager
  \/ At("press", "end") /\ Return(None) /\ UNCHANGED pager

\* A text that showed the one with the prompt goes on, and has a ^D to come
\* which turns the prompts on again.
TurnedOnAgain ==
  \E j \in 3..Len(stack) :
    /\ stack[j].op = "show"
    /\ \E k \in stack[j].i..Len(stack[j].text) :
         stack[j].text[k] = "on" /\ \A m \in 1..k : stack[j].text[m] # "off"

\* AskMore: an answer of "no" ends the text, and "=" the prompts for good.
Ask ==
  \/ /\ At("ask", "start")
     /\ Call(GetKey, "got")
     /\ UNCHANGED <<ret, pager, noMore>>
  \/ /\ At("ask", "got")
     /\ pager' = [pager EXCEPT !.stop = @ \/ ret.c \in {"n", "="}, !.disp = @ /\ ret.c # "="]
     /\ noMore' = (noMore \/ (ret.c = "=" /\ ~TurnedOnAgain))
     /\ Return(None)

\* AskYesNo, of a caller with colours by the script YESNO if there is one; and
\* yesNoAsk, of the others, and where the script's result is no answer.
YesNo ==
  \/ /\ At("yesno", "start") /\ "yesno" \in DOMAIN Scripts
     /\ Call(Frame("script", "yesno"), "scripted")
     /\ UNCHANGED ret
  \/ /\ At("yesno", "scripted")
     /\ stack' = Tail(stack) \/ Goto("ask")
     /\ Consume
  \/ /\ Top.op = "yesno" /\ Top.at \in {"start", "ask"}
     /\ Call(GetKey, "got")
     /\ UNCHANGED ret
  \/ /\ At("yesno", "got")
     /\ IF ret.c \in {"failed", "y", "n", "CR", "LF"} THEN stack' = Tail(stack) ELSE Goto("ask")
     /\ Consume

-----------------------------------------------------------------------------
\* Texts.

Text(t) == [Frame("show", "-") EXCEPT !.text = t]
HotText(t, hot) == [Frame("hot", "-") EXCEPT !.text = t, !.keys = hot]

Element == Top.text[Top.i]
Passed == [Top EXCEPT !.i = @ + 1]
Advance == stack' = <<[Passed EXCEPT !.at = "next"]>> \o Tail(stack)

\* openAndShow.
ShowStart ==
  /\ At("show", "start")
  /\ stack' = <<[Top EXCEPT !.at = "next", !.on = pager.disp]>> \o Tail(stack)
  /\ Unpaged
  /\ Consume

ShowEnd ==
  /\ At("show", "next") /\ (pager.stop \/ Top.i > Len(Top.text))
  /\ pager' = [pager EXCEPT !.disp = @ /\ Top.on, !.stop = FALSE]
  /\ Return(None)

More == At("show", "next") /\ ~pager.stop /\ Top.i <= Len(Top.text)

\* The codes of a text: ^A waits, ^D and ^E turn the prompts on and off; the
\* name of a text file is ^K!, which shows that text within this one; and any
\* other element is ^K@ with the name of a script, in which no Enter is waited
\* for (module Questionnaire).
Codes == {"line", "wait", "on", "off"}

ShowCode ==
  /\ More
  /\ \/ /\ Element = "wait"
        /\ IF pager.hot THEN Advance
           ELSE CallFrom(Frame("enter", "-"), "next", Passed)
        /\ UNCHANGED pager
     \/ /\ Element = "on"
        /\ pager' = [pager EXCEPT !.disp =
             @ \/ (~pager.hot /\ \A j \in 1..Top.i : Top.text[j] # "off")]
        /\ Advance
     \/ /\ Element = "off"
        /\ pager' = [pager EXCEPT !.disp = FALSE, !.stop = FALSE]
        /\ Advance
     \/ /\ Element \in DOMAIN Library \ Codes
        /\ CallFrom(Text(Library[Element]), "next", Passed)
        /\ UNCHANGED pager
     \/ /\ Element \notin DOMAIN Library \cup Codes
        /\ pager' = [pager EXCEPT !.skip = TRUE]
        /\ CallFrom(Frame("script", Element), "scripted", [Passed EXCEPT !.also = pager.skip])
  /\ Consume

ShowScripted ==
  /\ At("show", "scripted")
  /\ pager' = [pager EXCEPT !.skip = Top.also]
  /\ Goto("next")
  /\ Consume

\* A line is written; then a hot text looks for a hot key (checkHot), and
\* others for the end of the page (checkMore).
ShowLine ==
  /\ More /\ Element = "line"
  /\ IF pager.hot /\ pager.keys # {} /\ ~pager.have THEN Call(PeekKey, "hot") ELSE Goto("lined")
  /\ Consume
  /\ UNCHANGED pager

ShowHot ==
  \/ /\ At("show", "hot")
     /\ IF ret.c \in pager.keys THEN Call(TimedKey, "hit") ELSE Goto("lined")
     /\ pager' = IF ret.c \in pager.keys THEN [pager EXCEPT !.abort = ret.c]
                 ELSE [pager EXCEPT !.have = @ \/ IsKey(ret)]
     /\ Consume
  \/ /\ At("show", "hit")
     /\ pager' = [pager EXCEPT !.stop = TRUE]
     /\ Goto("lined")
     /\ Consume

ShowPage ==
  /\ At("show", "lined")
  /\ LET p == [pager EXCEPT !.lines = @ + 1]
     IN IF MoreDue(p)
        THEN /\ pager' = [p EXCEPT !.lines = 0]
             /\ CallFrom(Frame("ask", "-"), "next", Passed)
        ELSE pager' = p /\ Advance
  /\ Consume

\* DisplayHot returns the key that was taken last; nobody else asks for it.
OtherHot == \E j \in 2..Len(stack) : stack[j].op = "hot"

Hot ==
  \/ /\ At("hot", "start")
     /\ CallFrom(Text(Top.text), "end", [Top EXCEPT !.on = pager.more, !.also = pager.disp])
     /\ pager' = [pager EXCEPT !.more = FALSE, !.disp = FALSE, !.hot = TRUE, !.keys = Top.keys,
                               !.have = FALSE, !.abort = "none", !.lines = 0, !.stop = FALSE]
     /\ Consume
  \/ /\ At("hot", "end")
     /\ pager' = [pager EXCEPT !.more = Top.on, !.disp = Top.also, !.hot = FALSE, !.keys = {},
                               !.have = FALSE, !.abort = IF OtherHot THEN @ ELSE "none",
                               !.lines = 1, !.stop = FALSE]
     /\ Return(NodeKey(pager.abort, FALSE))

Show == ShowStart \/ ShowEnd \/ ShowCode \/ ShowScripted \/ ShowLine \/ ShowHot \/ ShowPage
        \/ Hot

-----------------------------------------------------------------------------
\* The session that uses it all.

\* What a session may ask of its terminal, and where it goes on.
Asks(r) ==
  \/ r = "key" /\ Call(GetKey, "key")
  \/ r = "yesno" /\ Call(Frame(r, "-"), "done")
  \/ r = "text" /\ \E t \in Texts : Call(Text(t), "done")

Request ==
  /\ At("session", "idle") /\ asked < MaxRequests
  /\ \E r \in Requests : Asks(r)
  /\ asked' = asked + 1
  /\ Consume
  /\ UNCHANGED <<pager, idle>>

\* A door or a file transfer: SuspendIdle, and its end.
Door ==
  /\ At("session", "idle") /\ asked < MaxRequests /\ "door" \in Requests
  /\ idle' = [idle EXCEPT !.on = FALSE]
  /\ stack' = <<[Top EXCEPT !.at = "door", !.on = idle.on]>> \o Tail(stack)
  /\ asked' = asked + 1
  /\ UNCHANGED <<ret, pager>>

DoorEnds ==
  /\ At("session", "door")
  /\ idle' = [FullTime(idle) EXCEPT !.on = Top.on]
  /\ stack' = <<[Top EXCEPT !.at = "done", !.on = FALSE]>> \o Tail(stack)
  /\ UNCHANGED <<ret, pager, asked>>

\* Prompts take the rest of an Enter.
Answered ==
  /\ At("session", "key")
  /\ IF IsKey(ret) THEN Call(MateOf(ret.c), "done") ELSE Goto("done")
  /\ Consume
  /\ UNCHANGED <<pager, idle, asked>>

\* The session goes on, or unwinds once its caller is gone.
Unwind ==
  /\ \/ At("session", "done") /\ Goto(IF Gone THEN "over" ELSE "idle")
     \/ At("session", "idle") /\ asked = MaxRequests /\ Goto("over")
  /\ Consume
  /\ UNCHANGED <<pager, idle, asked>>

Over == At("session", "over")

TerminalStep ==
  \/ KeyRefused \/ KeyPushed \/ KeyLocal \/ KeyNotLocal
  \/ KeyRead \/ KeyWaits \/ KeyExpires \/ KeyLost
  \/ Peek /\ UNCHANGED <<stream, crPend, local, got, dropped, crOf, mixed, ends, idle, pager, paused, asked, noMore>>
  \/ (Mate \/ Drain \/ Arrow \/ YesNo)
     /\ UNCHANGED <<stream, keys, fate, ends, idle, pager, paused, asked, noMore>>
  \/ (Line \/ Press) /\ UNCHANGED <<stream, keys, fate, ends, idle, paused, asked, noMore>>
  \/ Enter /\ UNCHANGED <<stream, crPend, local, got, crOf, mixed, aside, ends, idle, paused, asked, noMore>>
  \/ Ask /\ UNCHANGED <<stream, keys, fate, ends, idle, paused, asked>>
  \/ Show /\ UNCHANGED <<stream, keys, fate, ends, idle, paused, asked, noMore>>
  \/ (Request \/ Door \/ DoorEnds \/ Answered \/ Unwind)
     /\ UNCHANGED <<stream, keys, fate, ends, paused, noMore>>
=============================================================================
