----------------------------- MODULE MCTerminal -----------------------------
(* Instances of the terminal, the menus and the questionnaires for TLC.    *)
EXTENDS NodeConsole

MCStrokes == [telnet |-> {<<"CR", "LF">>, <<"y">>, <<"IAC", "WILL", "naws">>, <<"IAC", "SB", "x", "IAC", "SE">>},
              ssh |-> {<<"CR", "NUL">>, <<"=">>, <<"ESC", "[", "A">>}]
MCTexts == {<<"line", "line", "wait", "key", "off", "on">>, <<"banner", "line", "on">>}
MCStartchat == <<"line">>
MCCursor == <<"ESC", "[", "A">>
MCRequests == {"key", "yesno", "text", "door", "board"}

MCLibrary == [banner |-> <<"line", "line">>, bulletin |-> <<"line", "wait">>]

MCScripts ==
  [yesno |-> << <<"GETCHOICE", 1, {"y"}>> >>,
   key |-> << <<"WAITENTER">>, <<"GETRAWKEY", 1>> >>,
   hello |-> << <<"PAGEMODE", TRUE>>, <<"SETSECURITY", 1>> >>,
   part |-> << <<"IF", 1, "=", "">>, <<"KEYPRESS", 2>>, <<"ELSE">>, <<"IF", 1, "=", "">>, <<"ENDIF">>, <<"ENDIF">>,
               <<"ASSIGN", 1, "x">> >>,
   poll |-> << <<"WHILE", 1, "=", "">>, <<"INCLUDEQA", "part">>, <<"GOTO", "out">>, <<"ENDWHILE">>, <<"LABEL", "out">>,
               <<"WHILE", 2, "#", "">>, <<"WHILE", 2, "=", "">>, <<"ENDWHILE">>, <<"ENDWHILE">>,
               <<"ASSIGN", 1, "">>, <<"WHILE", 1, "#", "y">>, <<"GETCHOICE", 1, {"y", "=", "CR"}>>,
               <<"IF", 1, "=", "CR">>, <<"BREAK">>, <<"ENDIF">>, <<"EMULATEINPUT", <<"y", "CR">> >>, <<"ENDWHILE">>,
               <<"ASK", 1>>, <<"GOSUB", "sub">>, <<"QUIT">>, <<"LABEL", "sub">>,
               <<"DISPLAYFILE", "banner">>, <<"MENUCMND", "edit", <<>> >>, <<"MENUCMND", "hot", <<"bulletin">> >>,
               <<"MENUCMND", "script", <<"none">> >>, <<"MENUCMND", "quit", <<>> >>, <<"RETURN">> >>]

MCItem(key, typ, data) ==
  [key |-> key, typ |-> typ, data |-> data, input |-> <<>>, levels |-> {1, 2}, bar |-> NoBar]

MCMenus ==
  [top |-> << MCItem("none", "none", <<>>),
              MCItem("auto", "hot", <<"bulletin">>),
              [MCItem("auto", "script", <<"hello">>) EXCEPT !.levels = {2}],
              [MCItem("y", "gosub", <<"sub">>) EXCEPT !.input = <<"ESC", "[", "B", "CR", "CR">>],
              [MCItem("=", "script", <<"poll">>) EXCEPT !.levels = {2}],
              [MCItem("A", "toggle", <<>>) EXCEPT !.levels = {2}],
              MCItem("=", "quit", <<>>),
              MCItem("A", "goto", <<"gone">>) >>,
   sub |-> << MCItem("none", "none", <<>>),
              [MCItem("none", "none", <<>>) EXCEPT !.bar = <<1, 1>>],
              [MCItem("none", "goto", <<"vip", "password">>) EXCEPT !.bar = <<1, 2>>],
              [MCItem("=", "top", <<"top">>) EXCEPT !.bar = <<2, 2>>],
              MCItem("y", "return", <<>>) >>,
   vip |-> << MCItem("none", "none", <<>>),
              MCItem("auto", "textenter", <<"banner">>),
              MCItem("auto", "text", <<"banner">>),
              MCItem("auto", "quit", <<>>) >>]
MCMissing == {{}, {"top"}}
MCGlobal == <<>>
MCGoodbye == <<"line">>

ASSUME MCTextsArePlain == HotTextsPlain
ASSUME MCNothingInItself == NothingInItself
ASSUME MCStrokesAreWhole == StrokesFormed
ASSUME MCStrokesAreApart == StrokesApart
=============================================================================
