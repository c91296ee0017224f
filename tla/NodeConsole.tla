----------------------------- MODULE NodeConsole -----------------------------
(***************************************************************************)
(* The node window of a remote session: what the sysop's keys do while the *)
(* caller is on-line (internal/sysop/node.go, chat.go), and the mirror     *)
(* that shows the caller's screen there (internal/comm/mirror.go).         *)
(*                                                                         *)
(* Commands run inside GetKey, whichever call of the session it serves;    *)
(* only Alt-C lets other commands follow before it ends.                   *)
(***************************************************************************)
EXTENDS MenuEngine

Seqs == INSTANCE SequencesExt

CONSTANTS SysopKeys,  \* what the sysop presses
          MaxPresses, \* bound on that
          MaxEvents,  \* bound on that and on what the caller types, together
          Locked,     \* there is a keyboard password
          AutoCapture \* AutoChatCapture

ASSUME ConsoleAssumption == MaxPresses \in Nat /\ MaxEvents \in Nat /\ {Locked, AutoCapture} \subseteq BOOLEAN

VARIABLES presses,  \* keys pressed so far
          node      \* busy, chatting, pwdAccepted, and the capture file is open

vars == <<stream, stack, ret, keys, fate, ends, idle, pager, paused, asked, noMore, presses, node, board>>

Init ==
  /\ TerminalInit
  /\ MenuInit
  /\ presses = 0
  /\ node = [busy |-> FALSE, chatting |-> FALSE, accepted |-> FALSE, log |-> FALSE]

\* Only pollLocal looks at the keyboard outside the windows.
SysopPresses ==
  /\ window /\ At("getkey", "start") /\ presses < MaxPresses /\ Len(typed) + presses < MaxEvents
  /\ \E k \in SysopKeys : local' = Append(local, k)
  /\ presses' = presses + 1
  /\ UNCHANGED <<stream, stack, ret, push, crPend, fate, ends, idle, pager, paused, asked, noMore, node, board>>

-----------------------------------------------------------------------------
\* The sysop's windows.

Window(title) == Frame("window", title)

\* Pause waits for the screen, whose lock the session may not hold already.
WindowOpens ==
  /\ At("window", "start") /\ ~paused
  /\ paused' = TRUE
  /\ Goto("open")

\* What the sysop does in the window: a password, a name, or Esc.
WindowCloses ==
  /\ At("window", "open")
  /\ \E answer \in {"yes", "no"} : Return(NodeKey(answer, TRUE))
  /\ paused' = FALSE

-----------------------------------------------------------------------------
\* Command.

CommandStart ==
  /\ At("command", "start")
  /\ IF node.busy
     THEN stack' = Tail(stack) /\ UNCHANGED node
     ELSE /\ node' = [node EXCEPT !.busy = TRUE]
          /\ IF Locked /\ ~node.accepted THEN Call(Window("password"), "asked") ELSE Goto("granted")
  /\ UNCHANGED <<ret, pager, idle, hung, push>>

\* keyAccess: the password lock may be taken off, but not with Alt-H.
CommandAsked ==
  /\ At("command", "asked")
  /\ IF ret.c = "no" THEN Goto("end") /\ UNCHANGED node
     ELSE /\ Goto("granted")
          /\ \E off \in BOOLEAN : node' = [node EXCEPT !.accepted = off /\ Top.c # "Alt-H"]
  /\ Consume
  /\ UNCHANGED <<pager, idle, hung, push>>

\* Alt-D only turns the mirror on and off, which is not modelled.
CommandGranted ==
  /\ At("command", "granted")
  /\ IF Top.c = "Alt-C"
     THEN /\ node' = [node EXCEPT !.busy = FALSE]
          /\ IF node.chatting THEN Goto("end") ELSE Call(Frame("chat", "-"), "end")
     ELSE /\ IF Top.c = "Alt-D" THEN Goto("end") ELSE Call(Window(Top.c), "shown")
          /\ UNCHANGED node
  /\ UNCHANGED <<ret, pager, idle, hung, push>>

\* After its window, Alt-H hangs up; Alt-E has changed the user (module Logon),
\* perhaps the security level.
CommandShown ==
  /\ At("command", "shown")
  /\ hung' = (hung \/ Top.c = "Alt-H")
  /\ IF Top.c = "Alt-E" THEN level' \in Levels ELSE UNCHANGED level
  /\ seen' = seen \cup {level'}
  /\ Goto("end")
  /\ Consume
  /\ UNCHANGED <<pager, idle, node, push>>

\* Whatever the command was, the caller's time starts again.
CommandEnd ==
  /\ At("command", "end")
  /\ node' = [node EXCEPT !.busy = FALSE]
  /\ idle' = FullTime(idle)
  /\ Return(None)
  /\ UNCHANGED <<pager, hung, push>>

SysopCommand ==
  \/ (CommandStart \/ CommandAsked \/ CommandGranted \/ CommandEnd) /\ UNCHANGED <<level, seen>>
  \/ CommandShown

-----------------------------------------------------------------------------
\* Chat.

\* It starts with a text, without prompts and with the caller's time stopped;
\* the capture file may be opened at once.
ChatStart ==
  /\ At("chat", "start")
  /\ CallFrom(Text(Startchat), IF AutoCapture THEN "capture" ELSE "key",
              [Top EXCEPT !.on = pager.more, !.also = idle.on])
  /\ node' = [node EXCEPT !.chatting = TRUE]
  /\ pager' = [pager EXCEPT !.more = FALSE]
  /\ idle' = [idle EXCEPT !.on = FALSE]
  /\ UNCHANGED <<ret, hung, push>>

ChatCapture ==
  /\ At("chat", "capture")
  /\ Call(Window("name"), "named")
  /\ Consume
  /\ UNCHANGED <<node, pager, idle, hung, push>>

ChatKey ==
  /\ At("chat", "key")
  /\ IF hung THEN Goto("leave") ELSE Call(GetKey, "char")
  /\ Consume
  /\ UNCHANGED <<node, pager, idle, hung, push>>

\* The sysop's Esc ends the chat and ^A opens or closes the capture file.
ChatChar ==
  /\ At("chat", "char")
  /\ \/ /\ ret.c = "failed" \/ (ret.c = "ESC" /\ ret.sys)
        /\ Goto("leave") /\ UNCHANGED node
     \/ /\ ret.c = "^A" /\ ret.sys
        /\ IF node.log THEN Call(Window("closed"), "key") /\ node' = [node EXCEPT !.log = FALSE]
           ELSE Call(Window("name"), "named") /\ UNCHANGED node
     \/ /\ ret.c # "failed" /\ ~(ret.sys /\ ret.c \in {"ESC", "^A"})
        /\ Goto("key") /\ UNCHANGED node
  /\ Consume
  /\ UNCHANGED <<pager, idle, hung, push>>

ChatNamed ==
  /\ At("chat", "named")
  /\ node' = [node EXCEPT !.log = ret.c = "yes"]
  /\ Goto("key")
  /\ Consume
  /\ UNCHANGED <<pager, idle, hung, push>>

\* The file is closed, the caller reads a text, and the menu is drawn again.
ChatLeave ==
  \/ /\ At("chat", "leave") /\ node.log
     /\ Call(Window("closed"), "leave")
     /\ node' = [node EXCEPT !.log = FALSE]
     /\ UNCHANGED <<ret, pager, idle, push, hung>>
  \/ /\ At("chat", "leave") /\ ~node.log
     /\ Call(Text(Startchat), "end")
     /\ Consume
     /\ UNCHANGED <<node, pager, idle, push, hung>>

Redraw == NodeKey("#255", FALSE)

ChatEnd ==
  /\ At("chat", "end")
  /\ push' = <<Redraw>> \o push
  /\ pager' = [pager EXCEPT !.more = Top.on]
  /\ idle' = [FullTime(idle) EXCEPT !.on = Top.also]
  /\ node' = [node EXCEPT !.chatting = FALSE]
  /\ stack' = Tail(stack)
  /\ Consume
  /\ UNCHANGED hung

Chat == ChatStart \/ ChatCapture \/ ChatKey \/ ChatChar \/ ChatNamed \/ ChatLeave \/ ChatEnd

-----------------------------------------------------------------------------
Waits == KeyDeadline /\ UNCHANGED <<presses, node, board>>

Work ==
  \/ MenuStep /\ UNCHANGED <<presses, node>>
  \/ (SysopCommand \/ (Chat /\ UNCHANGED <<level, seen>>))
     /\ UNCHANGED <<stream, crPend, local, fate, lost, paused, asked, noMore, presses, menu, qa>>
  \/ WindowOpens
     /\ UNCHANGED <<stream, ret, keys, fate, ends, idle, pager, asked, noMore, presses, node, board>>

Answer ==
  /\ WindowCloses
  /\ UNCHANGED <<stream, keys, fate, ends, idle, pager, asked, noMore, presses, node, board>>

Outside == <<stack, ret, keys, fate, ends, idle, pager, paused, asked, noMore, presses, node, board>>

\* What is under way on the connection is seen by a read, and by nothing else.
Reading == At("getkey", "read")

Pump == Reading /\ PumpLoop /\ UNCHANGED Outside
Caller ==
  /\ Reading /\ Len(typed) + presses < MaxEvents
  /\ Type \/ DropCarrier
  /\ UNCHANGED Outside
Time == Tick /\ UNCHANGED <<presses, node, board>>
Stays == Over /\ UNCHANGED vars

Next == Work \/ Answer \/ Waits \/ Pump \/ Caller \/ SysopPresses \/ Time \/ Stays

\* Two windows only tell the sysop something and close by themselves; the
\* others wait for his key, as long as he likes.
Notices == {"closed", "Alt-H"}
NoticeCloses == Answer /\ Top.c \in Notices
Session == Work \/ NoticeCloses \/ Waits
Reads == (KeyRead \/ KeyWaits \/ KeyLost \/ KeyExpires) /\ UNCHANGED <<presses, node, board>>

\* The session and the pump run, but nothing makes the sysop answer a window; a
\* read that has something to return, or that is over, does return now and then
\* rather than begin again; time goes on.
Fairness == WF_vars(Session) /\ WF_vars(Pump) /\ SF_vars(Reads) /\ SF_vars(Time)

Spec == Init /\ [][Next]_vars /\ Fairness

-----------------------------------------------------------------------------

Before(a, b) == a[1] < b[1] \/ (a[1] = b[1] /\ a[2] < b[2])
IsCommand(s) == typed[s][1] = "IAC"
Cut(s) == s \in cut
AfterCut(s) == \E c \in cut : c < s /\ \A r \in c + 1..s - 1 : IsCommand(r)

\* Whatever peeks, puts back, drains and nests, GetKey gives the caller's keys
\* once each and in the order in which they were typed, except that one which
\* was put back during a chat may be passed: the read that the chat broke into
\* goes on with the stream.  No byte of a telnet command is a key, unless a read
\* deadline cut that command, or one before it, in two; and an Enter of two
\* bytes is one key, unless another key was read between them.
KeysOnceInOrder ==
  /\ \A i, j \in 1..Len(got) :
       i < j => got[i] # got[j] /\ (Before(got[i], got[j]) \/ got[j] \in aside)
  /\ \A j \in 1..Len(got) :
       LET s == got[j][1]
       IN /\ IsCommand(s) => Cut(s) \/ AfterCut(s)
          /\ typed[s][1] = "CR" /\ got[j][2] > 1 => s \in mixed \/ AfterCut(s)

\* What that needs: a stroke is an Enter, or a key, or a whole telnet command
\* with its option; the filter takes the byte behind one that has none.
EnterStroke(code) == code[1] = "CR" /\ (Len(code) = 1 \/ (Len(code) = 2 /\ code[2] \in Mates))
PlainStroke(code) == \A i \in 1..Len(code) : code[i] \notin {"IAC", "CR"}
CommandStroke(code) ==
  /\ code[1] = "IAC"
  /\ \/ Len(code) = 3 /\ code[2] \notin {"IAC", "SB"} /\ code[3] # "IAC"
     \/ /\ Len(code) > 3 /\ code[2] = "SB" /\ code[Len(code) - 1] = "IAC" /\ code[Len(code)] = "SE"
        /\ \A i \in 3..Len(code) - 2 : code[i] # "IAC"
StrokesFormed ==
  \A k \in Kinds : \A code \in Strokes[k] :
    EnterStroke(code) \/ PlainStroke(code) \/ (k = "telnet" /\ CommandStroke(code))

\* And what keeps them apart: no key is the rest of an Enter, which would be
\* taken for one behind an Enter, or called what GetKey returns without a key.
StrokesApart ==
  \A k \in Kinds : \A code \in Strokes[k] : \A i \in 1..Len(code) :
    code[i] \notin {"none", "failed"} /\ (PlainStroke(code) => code[i] \notin Mates)

InFlight ==
  {<<b.s, b.i>> : b \in {wire[j] : j \in DOMAIN wire} \cup {rbuf[j] : j \in DOMAIN rbuf}
                        \cup {push[j] : j \in DOMAIN push} \cup {ret}}

\* No key of the caller is lost: it is still on its way, or it was handed out,
\* or it was an end of a line that an Enter before it, or a drain, took along.
\* Excepted are the byte that follows a telnet command cut by a read deadline,
\* and what an Enter takes along for its rest when the rest of an earlier one,
\* which came apart from it, was still in the buffer.
NoKeyLost ==
  \A s \in 1..Len(typed) : \A i \in 1..Len(typed[s]) :
    ~IsCommand(s) /\ ~(AfterCut(s) /\ i = 1) =>
      \/ <<s, i>> \in InFlight \/ \E j \in DOMAIN got : got[j] = <<s, i>>
      \/ typed[s][1] = "CR" /\ (i > 1 \/ <<s, i>> \in dropped)
      \/ <<s, i>> \in dropped /\ (mixed # {} \/ cut # {})

\* The session is between two requests, or at the choice of a menu.
AtRest == \/ Top.op = "session" /\ Top.at \in {"idle", "over"}
          \/ Top.op = "engine" /\ Top.at = "ask"

\* However questionnaires, texts, the sysop's commands, chats and windows nest
\* in menus, prompts and each other, there is at most one window and one chat,
\* the screen is paused only for a window, and when the session is back at its
\* menu no questionnaire is left and the timer, the paging, the hot keys and
\* the node's flags are what they were; a caller who wanted no more prompts is
\* not given any, until he makes his next choice.  (He is, after all, where he
\* said so in a text within a text that then turns them on again: the text that
\* ends for him is the inner one, and the other does not know of his answer.)
SettingsRestored ==
  /\ Cardinality({j \in DOMAIN stack : stack[j].op = "window"}) <= 1
  /\ Cardinality({j \in DOMAIN stack : stack[j].op = "chat"}) <= 1
  /\ paused => \E j \in DOMAIN stack : stack[j].op = "window"
  /\ AtRest => /\ Len(stack) = IF Top.op = "engine" THEN 2 ELSE 1
               /\ qa = <<>>
               /\ idle.on = ~idle.done
               /\ pager.more /\ ~pager.hot /\ pager.keys = {} /\ ~pager.skip /\ ~pager.stop
               /\ Top.op = "engine" => ~pager.disp
               /\ ~node.busy /\ ~node.chatting /\ ~node.log
               /\ noMore => ~pager.disp

\* A caller runs only items that were open to him at some time since the menu
\* was drawn, though a questionnaire or the sysop changes his level while it
\* waits and scripts move him from menu to menu.
AccessKept ==
  At("func", "start") /\ stack[2].op = "engine" =>
    \E l \in seen : l \in Items(stack[2].c)[menu.ran].levels

\* The hot key that interrupts the text of an automatic item, or one shown in
\* the middle of it, is what the menu carries out: it asks for no other.
HotKeyHonored ==
  /\ At("engine", "picked") /\ menu.took # "none" => menu.choice = menu.took
  /\ At("engine", "ask") => menu.took = "none"

\* What that needs: a hot text runs no scripts, neither does the text a chat
\* begins with.  A script can show another hot text, which forgets the key.
Plain(t) == t \in Seq({"line", "wait", "on", "off"})
HotTextsPlain ==
  /\ Plain(Startchat)
  /\ \A m \in DOMAIN Menus : \A i \in DOMAIN Items(m) :
       Items(m)[i].typ = "hot" => Plain(Library[Items(m)[i].data[1]])
  /\ \A f \in DOMAIN Scripts : \A p \in DOMAIN Scripts[f] :
       Scripts[f][p][1] = "MENUCMND" /\ Scripts[f][p][2] = "hot"
         => Plain(Library[Scripts[f][p][3][1]])

\* What the next one needs: no text or script leads to itself again, by ^K!, ^K@
\* or a command of a script.  The code follows such a one until it has used up
\* its stack, in a text without a prompt at once.
Leads(a, b) ==
  \/ a \in DOMAIN Library /\ b \in Seqs!Range(Library[a])
  \/ /\ a \in DOMAIN Scripts
     /\ \E c \in Seqs!Range(Scripts[a]) :
          \/ c[1] \in {"DISPLAYFILE", "INCLUDEQA"} /\ c[2] = b
          \/ c[1] = "MENUCMND" /\ c[3] # <<>> /\ c[3][1] = b
NothingInItself ==
  LET names == DOMAIN Library \cup DOMAIN Scripts
  IN \E depth \in [names -> 1..Cardinality(names)] :
       \A a, b \in names : Leads(a, b) => depth[b] < depth[a]

\* The loops a questionnaire is in are those its text puts around the line it
\* has come to, included ones inside those of their includer; but not after
\* BREAK, GOSUB, a jump into or out of other loops, or one loop too many, which
\* the stack of loops does not follow.
LoopsNest ==
  LET nest(f, p) == Seqs!SetToSortSeq(Around(f, p), LAMBDA a, b : a > b)
  IN \A i \in DOMAIN qa :
       LET q == qa[i]
       IN ~q.wild /\ ~Skipping(q) =>
            q.loops = nest(q.file, q.pc)
                      \o Seqs!FlattenSeq([j \in DOMAIN q.incs |-> nest(q.incs[j].file, q.incs[j].pc)])

\* A hot key that was put back, and that nobody can take any more, is about to
\* interrupt the text of an automatic item: the menu carries out the choice the
\* key makes, and is drawn again.
Redraws ==
  LET shown == menu.path[Len(menu.path)]
  IN /\ At("engine", "load") /\ (hung \/ idle.done)
     /\ push # <<>> /\ push[1].c \in HotChars
     /\ Readable(shown) /\ \E it \in Seqs!Range(Items(shown)) : Automatic(it) /\ Access(it) /\ it.typ = "hot"

\* A window waits for the sysop's key, whatever becomes of the caller.
WaitsForSysop == At("window", "open") /\ Top.c \notin Notices

\* A session hangs for nobody but the sysop: whether its caller types, is silent,
\* leaves or is hung up, in whatever call, it ends.  Only a window that the
\* sysop opened and walked away from keeps it, and a chat, for which the caller's
\* time is stopped, as long as the caller stays and the sysop has not hung up;
\* and a menu may be drawn again and again for a caller who is gone.
Ends ==
  \/ <>[](Over \/ WaitsForSysop \/ (node.chatting /\ carrier /\ ~hung))
  \/ []<>Redraws
=============================================================================
