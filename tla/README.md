# EleBBS in TLA+

TLA+ models of EleBBS-Go, TLC runs that check them on small instances, and
TLAPS proofs for every value of the constants. `PROJECT.json` relates each
definition to the lines it stands for, each property to a run and to a mutant
of the code that breaks it, and each hazard of the code to the properties that
watch it.

## 1. The system

EleBBS is a bulletin board system: several processes and goroutines that share
a node pool in memory and everything else as plain files, nearly always without
a lock. `eleserv` accepts callers and starts a session per caller; `elebbs` is
one such session (also started by hand at a console); `elemail` moves internet
mail; the FTP and NNTP servers serve the file and message bases.

| Component | State | Operations | Interacts through |
|---|---|---|---|
| node pool and listeners (`telsrv`, `sshserv`, `eleserv`) | `pool.inUse` under a mutex, one goroutine per caller | accept, handshake, `AcquireNode`, session, `ReleaseNode` | memory shared by telnet, telnets, WSS and SSH |
| node session and on-line files (`bbs`, `online`, parts of `menu` and `files`) | `USERON.BBS`, `rabusy.<n>`, `NODE<n>.RA`, `taglist.ra` | `RunOn`, logon, `online.Write`, `Kill`, node messages, `haltAfterHangUp` | those files, read and written by all nodes |
| JAM message base (`mail/jam*.go`) | `.jdt`, `.jhr`, `.jdx`, `.jhd`, `.jlr` | `AppendMsg`, `jamChangeAttr`, `ReadMsg`, `NextActive`, `CollectYours`, `SetLastRead` | menus, NNTP and EleMAIL, all without a lock |
| EleMAIL (`mail/mailer.go`, `article.go`, `pop3.go`, `smtp.go`) | `runmail.lck`, `emailout.ele`, `email_in.ele`, Sent bits | `RunMailer`: scan, collect, send, purge, toss | a JAM base, an SMTP and a POP3 server |
| user base (`userbase`) | `USERS.BBS` and its indexes | `Search`, `Write`, `Append`, `RebuildIndex` | logon, menus, the sysop's editor |
| file base (`files`) | FDB headers and texts, tag lists | `AddToFDB`, `AfterUpload`, `BumpTimesDL`, `Clean`, `ImportList`, tag, download | menus, FTP |
| streams (`comm`) | the telnet filter's state, the pump's buffer and deadlines, the mirror's queue | `Read`, `Write`, `Pause`, `Close` | terminal, sockets, local console |
| FTP and NNTP servers | connection count, command state | the protocols' commands | file base, JAM base, user base |
| terminal and logon | pushed keys, idle timer, paging, hot keys, prompts | `GetKey`, `PeekKey`, `GetString`, `WriteRA`, `HangUp`, `Perform`, IEMSI | streams, user base |
| message areas and their readers (`mail`, `menu`) | position in an area, the mailbox list, `.jlr`, attach directories | `readMessages`, `doReadMail`, `readMailboxHits`, `writeMessage`, `listFAttach` | JAM bases, terminal |
| menu engine and editors | menu stack, hot keys and light bar of the menu on screen | `Enter`, `runAuto`, the menu functions | everything above |
| questionnaires | answers, counters of skipped lines, stacks of loops and subroutines | the script's commands | terminal, menu functions, user base, `USERON.BBS` |
| doors, sysop console | drop files, the node's flags, windows | run, commands, chat | session, inside its read of a key |
| configuration, records, texts, conversions | read once | parse, encode, draw | - |

### What is hard here

* **Interleaving.** Goroutines of four listeners share the pool. Node
  processes, EleMAIL and the NNTP server share files and take no lock; offsets,
  numbers and records are read first and written later.
* **Crashes.** Clean-up is deferred calls, which a killed process never runs;
  the next process on the node, or the next `elemail`, meets what is left.
* **Ordering.** A message is public when its index record is written, mail is
  safe when the next place has it and the previous one lost it. The order of
  the writes is all there is.
* **Stale state.** A message number, a node number or a record number is kept
  over an editor session or a scan and used again; a menu's table of hot keys
  outlives the level it was made for.
* **Nesting.** The sysop's commands run inside whatever call of the session
  reads a key: a chat inside a "more" prompt inside a text, with its own texts.
  Menus run scripts, which include scripts, run menu functions and push keys.
* **Liveness.** One mutex for all callers; a hang-up that must work against a
  session that does not react; read deadlines that race with data; loops over
  keys and messages that have to find their end.
* **Unreliable servers.** A lost reply, a refusal, a connection that breaks
  before `QUIT`.

What makes each component correct: the pool never gives a node to two callers,
leaks none and answers everybody; the on-line files tell the truth about who is
there and hand nothing of one caller to the next; a number `AppendMsg` returned
leads to that message for good and readers see whole messages only; mail is
lost nowhere but where a step that failed is passed over, and, but for faults, never doubled; the user base never loses or
doubles a user; new mail is shown to its reader before his pointer passes it;
tagged files are the files that were tagged and uploads stay catalogued;
no keystroke is lost, doubled or reordered and no wake-up missed; a menu runs
only what was open to its caller, and what he chose; a server's
command state admits nothing before the login; a session and a logon either end
or time out.

## 2. Modules

| Module | Models | State and actions in terms of the code |
|---|---|---|
| `NodeAlloc` | what the pool promises | a caller owns a node, is refused, or neither |
| `NodePool` | `telsrv/server.go`, `sshserv/server.go`, `FirstFree` | `phase[c]`: where caller c's goroutine is; `node[c]`: its variable `node` and `FirstFree`'s cursor; `mutex`, `inUse`: `pool`; `listening`: accept loops not yet failed |
| `NodePoolProofs` | theorems about `NodePool` | - |
| `NodeSession` | `RunOn`, `haltAfterHangUp`, the on-line files | `pc[n]`, `halt[n]`: the two goroutines of n's process; `useron`, `rabusy`, `inbox`, `tags`: the files; `dirty` and the fields of a message are history |
| `NodeSessionProofs` | theorems about `NodeSession` | - |
| `MessageBoard` | what a message base promises | a board that grows by whole messages, and the numbers told |
| `JamBase` | `jam_rw.go` and the scans of `jam.go` | `jdt`, `jhr`, `jdx`, `jhdBase`: the files as sequences of records; `post`, `mark`, `read`: the calls under way, one step per `Stat`, write or look-up |
| `JamBaseProofs` | theorems about `JamBase` | - |
| `EleMail` | `RunMailer` and all it calls | `pc`, `at`, `high`, `send`, `list`, `dele`, `late`, `arts`, `keep`, `conn`, `purge`: the phase, the local variables and the connection of each mailer; `lock`, `outq`, `tmp`, `inq`: the files; `sent`: Sent bits; `delivered`, `server`: the outside world; `dropped`, `failed`, `crossed` are history |
| `EleMailProofs` | theorems about `EleMail` | - |
| `UserBase` | `userbase/users.go` as operators | contents of `USERS.BBS` and its index as sequences of records and of CRC pairs |
| `Logon` | `logon.go`, `iemsi.go`, menu 60, Alt-E, `SETUSERVAR` on the user base | `pc[n]`: where node n's session is; `line[n]`, `rec[n]`: `line.User` and its `Record` plus 1; `asked`, `preset`, `emsi`, `tries`: the name, passwords and loop variable of `Perform`; `cands`, `seen`, `size`: what `Search`, `Append` and `RebuildIndex` read; `silent`: GetKey fails from now on; `blanked` is history |
| `LogonProofs` | theorems about `UserBase` and `Logon` | - |
| `Streams` | `comm/telnet.go`, `comm/pump.go` | `wire`, `rbuf`: bytes in the connection and in the reader or the pump; `mid`, `mate`, `offers`: where `Telnet.Read` is, `pendingCR` and the options; `eof`, `asleep`: `pumped.err` and a reader that waits; `typed` and `cut` are history |
| `Terminal` | `term/io.go` | `stack`: the nested calls of the session, innermost first, with what each remembers; `push`, `crPend`, `local`: the key buffers; `idle`, `pager`, `hung`, `lost`: the fields of the same meaning; `got`, `dropped`, `mixed`, `aside` and `noMore` are history |
| `Questionnaire` | `quest/qa.go`, `quest/cmds.go` | `qa`: the `vm` of each script that runs, the innermost first; `level`: `User.Security`; `seen` and a script's `wild` are history |
| `MenuEngine` | `menu/engine.go`, `funcs.go`, the end of `RunOn` | `menu`: the stack of menus and the fields of `Engine`; its fields `ran`, the item that runs, and `took`, the hot key taken, are history |
| `NodeConsole` | `sysop/node.go`, `chat.go`, `Mirror.Pause` | `node`: busy, chatting, password given, log open; its commands, chats and windows are calls on `Terminal`'s stack |
| `NodeConsoleProofs` | theorems about `NodeConsole` | - |
| `FileBase` | `files/fdb.go`, `search.go`, `upload_add.go` | `hdr`, `disk`: headers and files of each area; `job[p]`: the call process p is in and what it has read; `clash`, `accepted` are history |
| `FileMaint` | `files/maint.go` | one call of one of its functions at a time: read, compute, empty, write |
| `FileSession` | `menu/tag.go`, `download.go`, `upload.go`, `files/tag.go` | `tags`: taglist.ra of each node; `bbs`: where the session is, with the files found by their tags' places |
| `FtpServer` | `ftp/server.go`, `dir.go` | `ftp[c]`: the fields of `session` and the transfer under way; `alive`: the count behind `Limit` |
| `FileServices` | the four together | `misnumbered` is history |
| `FileServicesProofs` | theorems about `FileServices` | - |
| `MessageAreas` | `mail/areas.go`, `attach.go`, the searches and pointers of `jam.go` and `jam_rw.go` | `base`: messages in index order; `jlr`: last-read records; `dirs`: attach directories; `lapped`, `shared` are history |
| `MailReader` | `menu/read.go`, `post.go`, `mailbox.go`, `change.go` | `bbs[n]`: the local variables of `readMessages`, `doReadMail`, `readMailboxHits` and `writeMessage`; `prof`: area, group and combined areas of the user; `shown`, `strayed`, `last` are history |
| `NewsServer` | `nntp/server.go` | `news[c]`: the fields of `session` |
| `MessageServices` | the three together | - |
| `MessageServicesProofs` | theorems about `MessageServices` | - |
| `MC...` | the instances for TLC | constants only |

`Terminal`, `Questionnaire`, `MenuEngine` and `NodeConsole` extend each other in
this order and share one stack of calls, as the code shares one goroutine: a
text that waits for a key inside a script inside a menu is four entries, and a
call that returns leaves its result in `ret`.

`NodePool` gives each caller a node of its own, which is why `NodeSession` has
at most one process per node. `EleMail` uses a message base as `MessageBoard`
describes it: posting is one step there, as it is in `MessageAreas`, which is
about what callers do between two calls of the `mail` package. `Logon` knows of
the terminal only that its input may fail; `Terminal` shows when it does. In a module a definition that begins
with "Mutant:" in its comment is a broken variant of the one after it; no
specification uses it.

### Abstractions

* Names, texts and addresses are left out or are small numbers. Records of one
  file all count as equally long (`JamBase`); a record on a file of another
  length differs only in where junk ends.
* `JamBase`: a search of the index is one step with the header read that ends
  it. Files only grow and message numbers never change while one poster works,
  so what a search that takes longer can see is what a later search sees.
  A failing write leaves nothing, or a junk record.
* `EleMail`: the append of one queue record is one step. An append to the inbound
  queue may fail, and so may a toss, or the area of an article be missing; one to
  the outbound queue never fails. Of what is on its way on a POP3 connection the model knows
  the texts that the mailer has not read to their end (`late`): a command that finds
  such a rest reads some of it for its reply or for its text, and where in it stays
  open. `area` stands for the JAM base that is scanned; its `SetSent` is the
  marker that `JamBase` models. A user's post is one step.
* `UserBase`, `Logon`: a name stands for its spellings, a CRC is a number that
  names may share, and all of a user's other fields are the password and the
  count of calls. What happens between two accesses to the files is part of the
  step before: a search that misses ends at the prompt that follows. A write of
  the index may fail after or before it was emptied. A user's other menu
  functions and scripts that save the record are `SaveUser`; scripts in what a logon
  shows are `RunScript`, wherever a text is shown and what the script writes is not
  overwritten by the logon itself. A caller's first
  unanswered prompt makes it silent: before, silence cannot be told from thinking.
* `Terminal`, `Streams`, `NodeConsole`: remote sessions with an idle timer;
  time passes where GetKey looks at the clock, and what the caller types or the
  sysop presses counts as typed where it is read. Contents of lines, ANSI
  codes, SS3 arrows, Ctrl-C, the local console, Alt-D and drawing are left out;
  of the mirror there is the lock only. `ChatCommand`, which runs a program in the
  place of the chat, and the code ^K! of a file that is missing are left out. `DrainTries` is 2 for the code's 8. The
  session asks for a key, a yes or no, a text or a door, or it runs the menus.
* `Questionnaire`: a script is a sequence of commands with their arguments; a
  label or a file is a name. A condition compares an answer with a value.
  Commands that compute (but `ASSIGN`), draw or use files are left out, and the
  scripts a logon runs (but for `RunScript` of `Logon`). Of the script `YESNO` the
  result is arbitrary: an answer, or none, upon which the question is asked without it.
  No text or script leads to itself (`NothingInItself`, which TLC evaluates for the
  constants): the code follows such a one until its stack is used up.
* `MenuEngine`: a menu is a sequence of items; what an item asks of its caller
  is a set of levels. The functions of messages, files and accounts are in
  `MailReader`, `FileSession` and `Logon`, node messages (`checkNodeMsg`) in
  `NodeSession`. Whether a password is right is arbitrary. The keys
  `MENUCMND` pushes for its function, `/BS=` and clearing the screen are left out,
  and of the fallback menu all but its way on and out.
* `FileBase` and its users: no file name is a prefix or a part of another; long
  names, descriptions, the index and the upload of attachments are left out;
  which files are old is arbitrary; `Sort` is by name. Commands of FTP and NNTP
  that only answer, or fail, change nothing and are no actions. The functions
  of `FileMaint` have no caller in `cmd/` yet; the model's keeper calls them.
* `MessageServices`: all areas are JAM; `AppendMsg`, `jamChangeAttr`, each
  search and the scan of the mailbox are one step (`JamBase` takes them apart
  and lets them fail). Quoting, addresses, echo opt-out, netmail flags, the count
  of a user's posts are left out; a reply goes to the writer of the original.
  A directory name does not come back the same day; a local news ID is the
  number of its message. A caller who is lost answers every prompt with nothing
  and stops.
* `NodeSession`: a caller that logs on gets a record at once; the wait in the
  editor is the gap between `PickAddressee` and `SendNodeMsg`.

## 3. Runs

A type invariant that a theorem states (section 4) is not checked again by a run.

| Run | Instance | Shows |
|---|---|---|
| `node_pool` | a WSS and two SSH callers, two nodes | mutual exclusion of nodes, exact `inUse`, refinement of `NodeAlloc`, and liveness: every call is answered, every node comes back |
| `node_session` | two nodes, crash and hang-up anywhere, one waiting message | the on-line files are true; nothing is inherited; a hang-up ends the node |
| `useron_short` (violation) | three nodes, a new `USERON.BBS` | `writeSlot`'s padding erases other callers' records |
| `jam_base` | poster, marker, reader; two posts, two marks; four old bases | the board refinement, whole reads, numbers for good, marks on target that stick |
| `jam_two_posters` (violation) | two posters on a new base | they overwrite each other |
| `ele_mail` | two mailers, two outbound and two long inbound messages, one fault | one mailer at a time, nothing lost but what the code gives up, nothing doubled without a fault |
| `mail_crash` (violation) | one mailer, one message | a crash between `Remove` and `Rename` loses the queue |
| `logon` | two nodes, two calls, one change of a record; one user; callers of one node sign up | searches find who was asked for, records keep their owner but for the first one (`blanked`), nobody is signed up twice, silent callers leave |
| `append_race` (violation) | the same, callers of both nodes sign up | one new user's record replaces the other's |
| `terminal` | a telnet or SSH caller, two events of caller and sysop, one request of the session or its menus: three menus, five scripts, texts within texts, with or without the top menu's file | `KeysOnceInOrder`, `NoKeyLost`, `SettingsRestored`, `AccessKept`, `HotKeyHonored`, `LoopsNest`, and `Ends`: no session hangs for anybody but the sysop |
| `file_services` | two callers, two FTP clients, one maintenance program, two areas, three names; seven mixes of who does how much | `UploadsKept`, `NumbersTrue`, `TransfersAllowed`, and `SlotsComeBack`: connections are freed |
| `message_services` | two callers, a news client, two areas; five mixes of old bases and of who does how much | `NewMailShown`, `PointersKept`, `AttachmentsApart`, `NewsPosition`, and `ReadingEnds` |

Why these bounds. Two SSH callers compete inside one accept loop, the WSS one
comes through a goroutine of its own whose handshake can fail; with two nodes
for three callers every outcome of `FirstFree` occurs: first node, second node,
none. Two nodes are all a message or a padded write can involve on a file that
is long enough; the third one is needed on a short one. Two posts make "appended after a message
that is being marked or read" happen, twice; the old bases cover a base
that does not exist yet, one numbered from 5, one in which a hub's number
equals that of a later slot, and one with a deleted and a missing header. Two
outbound messages make a queue with one delivered and one failed article;
`MaxTries` 1 lets an article reach "exceeded" in two runs of the mailer; one
fault is what `OnceWithoutFaults` and the crash order need, as a second one meets the
same files in the same states. Of the inbound messages one is left on the
server and one is for a user; both are
longer than `MaxMsgBytes`, so that the rest of either is read for the other or for a
reply. Mail for nobody posts nothing, and differs from a user's in no other way; `NIn` 2
and both queues in one run make 490 thousand states.
In `logon` both names have one CRC, so
that every index entry is a wrong candidate for one of them; the index may be
missing at the start, and is emptied and written while the other node searches; one change
of a record (rename, deletion, handle, script) makes it old. Two calls are two sessions at
once or one after the other, on one account or two. One password try suffices
for both ends of the loop.

In `terminal` a stroke is an Enter of two bytes, a key, an arrow of three bytes or a
telnet command of three or five, and arrives in any portions; the two events are two
strokes, two presses, or one of each, so that a press meets every place of a
stroke; a text has every element that asks for a key. With two ticks of idle time
a key or a command comes before, between or after them; the warning, which only
starts a page, is due when time is up, as an earlier one doubles the states.
The text of a request shows another one by ^K! and turns the prompts on after it.
A page of three lines, the menus and the scripts are chosen so that each command
and each kind of item runs, and each stack meets its limit: two menus deep, one loop inside a loop too many, one round too many, one subroutine. Deeper stacks
repeat what the second level shows. One script lowers the level, the sysop's
editor too, while a hot key of the old level is on offer.
`file_services` and `message_services` let the actors meet in mixes: each
initial state says how many commands each of them still gives, since all of
them at once exceed TLC. Two areas, one of which uploads to the other, two files of one
name and one without a record are what tags, searches and moved records can
confuse. One message area is numbered from 3 with a deleted message, one
without a number and a private one; the other holds two of a hub's numbers out of
order, a local one, or nothing. Keys that only go on are free; others, like
commands, count.

`CHECK_DEADLOCK FALSE` stands where the modelled world is finite: every caller
may have been served and all posts made.

### Fairness

* `NodePool`: a goroutine that can run does (weak fairness). `sync.Mutex`
  hands the lock to a waiter that has starved for a millisecond, hence strong
  fairness of the two `Lock` steps. The TLS and WSS handshakes have a timeout,
  hence weak fairness of "prepared or failed". Nothing is assumed of callers,
  of the SSH handshake, which has no deadline, or of sessions.
* `NodeSession`: the select, the grace timer and the exit of an unwound process
  happen; the session itself owes nothing.
* `Logon`: a session that need not wait goes on, and once input failed it
  fails again at once, as `idleDone`, `hung` and `lost` stay set. Callers owe nothing.
* `NodeConsole`: the session and the pump's goroutine go on (weak fairness). A
  read that has something to return, or whose connection is closed, returns at
  last, and time goes on; both are strong fairness, since such steps are
  possible only while the session waits. The caller may fall silent. Nothing makes
  the sysop press a key, in his windows either: `readKey` (`sysop/node.go:156`) polls without
  a time-out. Only the notices "Terminating call" and "Capturelog closed" (`Notices`) close by
  themselves, so these are part of `Session` and his answers are not.
* `FileServices`: a call in progress goes on. A client without a command for
  ten minutes is closed (`SetDeadline`), one that opens no data connection
  is given up after thirty seconds; nothing ends a copy whose client stopped.
* `MessageServices`: a session that reads goes on, its caller answers each
  prompt or is lost. News clients and callers at the menu owe nothing.
* `JamBase` and `EleMail` have no liveness properties: a message base has no
  process of its own, and `elemail` runs when the operator starts it.

### Findings

1. `useron_short`: `writeSlot` (`online/useron.go:266`) pads a file that ends
   before the slot, but its writes start at offset 0. The records of callers
   on-line become empty, and `EmptyNodeNr` gives one of their nodes away.
2. `jam_two_posters`: `AppendMsg` (`mail/jam_rw.go:535`) computes the number and offsets
   from sizes; of two posters at once one loses the message whose number it
   was told.
3. `mail_crash`: `rewriteNewsFile` (`mail/article.go:162`) removes the queue
   before it renames the new one; the next rewrite deletes the new one too.
4. `append_race`: `Append` (`userbase/users.go:400`) writes where the file ended when
   it looked; two new users get one record.

In each case a comment, message or test of the code says otherwise (quoted in `PROJECT.json`).
The passing runs exclude exactly these: `InitSlots >= NodeCount`, one poster,
no crash before "rename", new users on one node at a time.

Some properties state what the code keeps and name where it does not; these
places are listed as hazards:

* `InMailKept`: `collectPOP3` sends DELE whether or not `AddMsgToBase` could write
  (`mailer.go:217`); `ProcessNewArticles` passes over an article whose area it does not find
  (`mailer.go:412`) or that `tossArticle` could not post (`mailer.go:426`), and then
  removes the queue (`failed`). `Retr` stops at `MaxMsgBytes` (`pop3.go:119`) and leaves the rest of the text
  to whatever reads next: as the reply to DELE, which nobody looks at, as that to the
  next RETR, which then seems to fail, or, if the line begins with "+", as its text up to a
  line with a dot. Then the mail that was asked for is deleted though its own
  text comes later, or never (`crossed`). `OnceWithoutFaults` speaks of inbound mail
  only while no replies have crossed.
* `RecordsKeepTheirOwner`: `AutoUser` lets a caller whom nobody knows into `newUser` with the
  zero `line.User`, whose `Record` is 0, the first user's (`logon.go:39`). A script that a text shown
  there runs by ^K@ may give him that user's handle and save: `writeUser`
  finds the same person and writes the zero record over it, "the zero value must not clobber it"
  (`users.go:320`) notwithstanding. From then on the first record is excepted (`blanked`).
* `SettingsRestored`: "=" at a prompt of a text that another one shows by ^K! ends the
  prompts of the inner text; a ^D that is still to come in the outer one turns them on
  again (`io.go:1350`, `io.go:1375`; `TurnedOnAgain`). ^K@ restores the answer for scripts, ^K! does not.
* `Ends`: a window in which the sysop is asked something keeps the session until he
  answers (`WaitsForSysop`), and so does a chat, with the caller's time stopped, while the caller stays.
* `KeysOnceInOrder`, `NoKeyLost`: a read deadline in the middle of a telnet
  command makes its rest data (`telnet.go:117`), and commands that follow such a
  rest may come apart in their turn (`AfterCut`); a key of the node window
  between CR and LF makes the LF a key (`io.go:759`). A key that a text of the
  chat looked at and put back is passed by the next one of the stream, since
  `GetKey` does not look at `push` again after `pollLocal` (`io.go:510`; `aside`). And a
  drain that looks at the LF or NUL of an Enter that came apart asks `GetKey`
  for it, which passes over it and takes the next key instead (`io.go:821`; `mixed`).
  The trial to prove both properties showed the last three; with more events
  than the run has, TLC finds them too.
* `Ends` again: a hot key that was put back before the caller's time was up, and that
  nobody may take any more, interrupts an automatic item's text, is the menu's
  choice, and the menu draws itself again, for ever (`Redraws` again and again; `io.go:827`,
  `funcs.go:327`). `HotKeyHonored` watches the choice itself.
* `AccessKept`: a hot key keeps its item until the menu is drawn again, whatever
  became of the level (`engine.go:236`).
* `LoopsNest`: `BREAK` leaves its loop on the stack, `GOSUB` clears the
  stack for good, and a loop beyond `MaxWhile` pops its outer one (`qa.go:586`);
  scripts that do so are `wild`.
* `UploadsKept`, `NumbersTrue`: two writers of one area between whose read and
  write the other wrote (`clash`), and records that move while their numbers
  are held (`misnumbered`); a file found without a record gets number 0
  (`search.go:191`).
* `NewMailShown`, `ReadingEnds`: areas with gaps or a hub's numbers, in which
  `NextActive` starts at a slot and a reversed reading may go round; pointers
  moved by something else than a scan for new messages, such as the mailbox.
* `PointersKept`: the first marks of two new readers at once, and a record
  under the handle, which `SetLastRead` does not look for. `AttachmentsApart`: two posters
  in the same second.

## 4. Proofs

`NodePoolProofs` proves, for any set of callers, services, start node and
limits that satisfy `PoolAssumption` (the start node, limits and service map
have their types, `None` is no caller), that `NodePool` has `TypeOK`,
`NodeExclusive`, `PoolExact` and `SharedLimit` (no more live callers than the
session limit, none beyond the last node) as invariants and implements `NodeAlloc`.

Neither `NodeExclusive` nor `PoolExact` is inductive. A step that marks a node
is only safe since the node was free when the scan passed it and nobody changed
the map since. `IInv` says so: it adds `MutexInv` (the goroutine in a critical
section is the mutex's owner), `ScanInv` (below the cursor all nodes are
taken), `CursorInv` (the cursor is within the range), `FoundInv` (the node found is
still free) and `HeldInv` (a held node is in the range). Each action has a
lemma that it preserves `IInv`; `Inductive` puts them together; the named
invariants follow from `IInv` and the refinement from `IInv` before and after
each step. `LimitIsShared` needs a counting argument: the map from callers to
nodes is injective into a range of at most `SessionLimit` nodes.

`NodeSessionProofs` proves `TypeOK`, `PresenceTrue`, `CleanEnd`,
`TagsNotInherited`, `ShownFresh` and `ShownOnce` for any number of nodes and
messages, wherever processes crash or are hung up on, from `SessionAssumption`
and `InitSlots >= NodeCount`: a file that has a record for each node. Without
the latter `PresenceTrue` is false (finding 1); the invariant's part `FileInv`
keeps it true, and `WriteSlotLemma` says what it buys: a write changes its own
record only. What one node's session and its halt goroutine do together needs
one named part per shared file: `HangInv` (no halt before the logon), `BusyInv`,
`NameInv`, `TagInv` (which of the two has already cleaned what), `GoneInv` (an
orderly end leaves nothing), `InboxInv` and `BufInv` (what waits and what is on
the screen is fresh and new), `EditInv` (the addressee is a node). Each action is
shown to keep its own node's parts (`OwnStep`) and the parts of all others
(`OthersStep`, `OthersKept`): a node writes nothing of another's but its inbox.

`EleMailProofs` proves `TypeOK`, `OneMailer` and `InMailKept` for any mailers,
mail, long mail included, and crash points, and `OutMailKept` if `"rename"` is no crash point, which
is finding 3. `OneMailer` carries the rest: the others are idle, so nothing
moves under the one mailer's hands. The invariant says, phase by phase, where the mail is:
`ScanInv` (a message is in the queue before it is marked), `InInv` (what DELE
marked is saved, or in `failed` or `crossed`; what precedes the loop variable is tossed), `OutInv` with
`Covers` (the articles in memory, those kept by the purge and the temporary file
stand for every article of the queue that is not done) and `Truthful` (an
article marked as tossed was taken by the server). Steps fall into those that
do not touch one direction of the mail (`OutQuiet`, `InQuiet`) and a lemma for
each group of the others.

`OnceWithoutFaults` needs another invariant on top, `OnceInv`. That nothing is
sent or filed twice rests on what says, at each moment, which mail is done. Of outbound
mail that is the queue file, but not while a mailer handles it (`Handling`): it sends
before it rewrites the file, so first its articles in memory and then the
temporary file are right (`OutOnce`). Of inbound mail, what is still on the server is new,
or about to be deleted there, and what is in the queue is new until the toss
passes it (`InOnce`), as long as `crossed` is empty. While nobody works nothing is left in between
(`Resting`). All this is said for `faults = 0` only: after a crash or a removal that
failed the queues do lie, and the next mailer sends again.

`JamBaseProofs` proves `PostedReadable`, `ReadersSeeWhole`, `MarkHitsTarget` and the
refinement `IsABoard`, for any old base, any number of readers, markers, posts
and marks, from `BaseAssumption` and `OnePoster`; and `MarksStick` if there is one
marker too. With two posters the first of these are false (finding 2), and two
markers can undo each other's marks: the code reads an attribute and writes it
back. `IInv` says what a call of `AppendMsg` knows (`PostInv`: the sizes it read
are the sizes there are, what it wrote is where it wrote it, its text is on no board
before the index record is), that a number once told is that of its
slot (`ToldInv`), that what a reader or a marker looked up is still so (`ReadInv`,
`MarkInv`), and that offsets point at something (`FilesInv`). The argument is
growth: a step of the poster only appends (`Grows`), so what was active, numbered
and readable remains so (`ActiveKept`, `NumberedKept`, `BodyKept`), and `FilesGrow`
states this as an action property. Of the searches the proofs need that they
return a slot they looked for; that a first or last one exists follows
from the order of the numbers being well-founded (`LeastNat`), without
induction. In the refinement the write of the index record is `Post`, that of the fixed
header `Tell`, and every other step stutters (`BoardStep`).

`FileServicesProofs` proves `TransfersAllowed`, `NumbersTrue` and `UploadsKept` for
any areas, files, callers, FTP clients, rights and numbers of calls, from the
assumptions of the five modules and `StartsAssumption` (the initial contents have their
types and the catalogued uploads their records). The first stands alone: `FtpInv`
says of each connection that a transfer belongs to who logged in and to an area
that account may use, although the areas were checked at the command and the data
flows later. The others are about numbers that outlive the read they
came from. `Inv` says for all areas but the `Bad` ones (those in `clash` or
`misnumbered`, where the code makes no promise): headers are headers, a tag and a
file to be sent have the number of the record with their name
(`TagsInv`, `MenusInv`), a call that has read the headers will write the right record
in place, append at the end, or write a list in which no upload is missing
(`JobsInv` with `CallOk`), and an upload has a live header unless
maintenance stands between emptying the file and filling it (`KeepInv`). `BadGrows`
connects the two history variables with what a step does to the numbers: if a
record moves or two calls meet, the area is bad from then on. Steps are of
three kinds. Quiet ones change no headers, and only the actor's own part is left to
show (`QuietStep`). In-place writes keep every other record and all names
(`WriteStep`). The results of maintenance are a selection, a
permutation or an extension of what was read: each keeps every live header
(`ResultsKeep`), for selections and permutations since as many places as there
are elements, all different, cover them all (`AllChosen`, by counting).

`LogonProofs` proves `TypeOK` and `FoundAsAsked` for any nodes and newcomers,
user bases, names that share CRCs, and numbers of calls and changes, from
`UserBaseAssumption` and `LogonAssumption`. `FoundAsAsked` is not inductive: a
new user arrives at the same finish without ever having been searched for.
`IInv` adds `AskedInv` (what is searched for is a name, never the empty one that
nobody answers to), `NewInv` (a new user has the name that was entered and is not
deleted, a script's `Write` included), `SeenInv` (what `Append` and `RebuildIndex`
read is no longer than the file is now) and `PutInv` (a write has its place).
`Frame` reduces a step to what it does to its own node and to the files;
`ScanLemma` and `IndexLemma` say what a search of the file returns and that an
index written over a longer one stays within the user base. Two newcomers may
append at once here: finding 4 breaks neither property.

`RecordsKeepTheirOwner` and `SignedUpOnce` are proved where finding 4 cannot
happen, with newcomers on one node only (`OneNewcomer`); `SignedUpOnceThm` assumes
also that no old user base has a name twice. `OwnInv` is the invariant: the record
number a node holds is that of the person in its `User`, unless that is nobody yet (`OwnLine`), a new user
has none before `Append` and `Append` knows the size of the file (`OwnForm`), a caller whom nobody
knows has that of the first record until a user is found or made for him (`OwnBlank`), what a
cancelled signup would restore is the first user (`OwnFirst`), and a name
that was not found is still missing while nobody else has changed a record (`OwnName`).
`UsersAreKept` says that every step leaves every record to its owner, or is the write of
a caller without one, who has the number of the first: other scripts
write to the record of their caller, `RebuildIndex` changes no record, and `Append` adds one at the
end. Other nodes then cannot disturb what a node knows (`OthersOwn`), and
`NamesStayApart` makes the absence of double names a consequence of `OwnName` at
the moment of `Append`.

`MessageServicesProofs` proves `AttachmentsApart`, `PointersKept`,
`NewsPosition` and `NewMailShown` for any areas, names, callers, connections, old
bases and numbers of commands, from the assumptions of the four modules: one node
per user (`MessageServicesAssumption`), and initial contents that have their types, no
files in the directories to come and no pointer beyond what counts as shown
(`StartsAssumption`). `IInv` has a part for each of the first three.
`AttachInv`: a directory that is not shared is one session's or one message's
(`OneOwner`), handed over by `Save`; a new one is nobody's (`NewFree`). Between listing the
files of a message and removing them others post, so the message on the
screen is followed to its slot (`Backed`); those with files were posted in this run
and have the number of their slot (`FilesInv`), so that `FindMsg` clears the bit
of the right one (`FindMsgSlot`). `PointersInv`: who is about to append a record
still has none (`BehindInv`), and the record of one user is found by no
other. `NewsInv`: messages only grow (`BaseGrows`), so the articles a
client holds remain the first of its group (`ArtsGrow`, from `SortedGrows`),
and what it posted can be found (`PostedInv`). Most steps touch none of this
(`Calm`, `Clean`); the others have a lemma each. Orders in `MessageAreas` are
defined by counting (`InOrder`), of which the provers can be told what they need
(`Ranks`), while they know nothing of `SelectSeq`.

`NewMailShown` needs more, `ReadInv`, and one hypothesis: no handle is the name
of another user (`HandlesApart`). The questions to a new user take any handle, and
`jamLastRead`, which goes by name or handle, would read the pointer of the user so
called. `Covered` says that a reader was shown all that he may read from one number
to another, those not yet posted included, so that nothing another node does can break it
(`CoveredKept`, `ReadKept`: messages are added at the end and keep their readers). `Scanning`
says it of a scan, from its first message to the one on the screen or before
the next it looks for, and that what it owes lies in its part; `NextActive` passes
only what is deleted or not his (`NextFacts`), and the end of the area is the end of
what it owes (`Scanned`). `BehindPointers` says it of every pointer, from the first
number on. So a pointer that a scan sets is behind what was shown, from the
pointer the scan began with and from its own part (`PointerGoes`). Setting pointers
must not bring an older one back: a new reader may put his record over one that came
while he looked for the end of the file (`lapped`), and `Late` says that this one is
the last of its user, whose pointer is then 0 (`PutPointer`).

`NodeConsoleProofs` proves `AccessKept` for any menus, scripts, texts, levels and
keys of the sysop. First comes what all of `Terminal` and the modules on it have in
common, the stack: every step leaves it, changes the call on top, calls something
from it or returns (`StackMove`, from one lemma per kind of call), and so the
session stays at the bottom with the menus next to it, and a call under another one
has begun (`StackInv`). A menu's frame is then out of the reach of all that it calls
(`EngineKept`). `AccessInv` adds that every entry of the table of hot keys is an item
for which some level in `seen` sufficed (`EnginesOpen`): the table is made of what is
open at that moment (`HotTableLemma`), and later levels only add to `seen`.

It also proves `HotKeyHonored` where hot texts run no scripts and neither does the text
a chat begins with (`HotTextsPlain`, which the constants of `terminal` satisfy). A
script in a hot text may show another one, and `DisplayHot` forgets the key when that
one begins, so something has to be assumed. The key is in three places, one
after the other: in `abort` until the hot text returns, then in what it returns
to the function that showed it, then in the choice (`HotInv`). That it is not lost
on the way, nor found by a pass of the menu that took none, needs to know who can run
while a key is under way. `QuietInv`: over a hot text, a chat or a menu's choice
no function, script or other hot text is called. What a script calls is then one
of its own lines, so `QaInv` is there too: each script under way has its record
of state, and that points to a line, whatever jumps, loops and includes there were.
`LbarInv` says the same of the item a light bar picked. `StepQuiet` is the sum of
these, `HotStill` the many steps that have nothing to do with hot keys, and there is a
lemma for each of the others (`HotBegins`, `HotTaken`, `HotReturns`, `HotFunction`,
`HotMenus`, `HotBoard`).

And it proves `KeysOnceInOrder`, for any strokes that are whole (`StrokesFormed`, which
the constants of `terminal` satisfy: a stroke is an Enter, bytes that begin neither an
Enter nor a command, or a telnet command with its option; the filter takes the byte
behind a command that has none, which may begin another). `AdjInv` (theorem
`CallsNest`) refines the stack: it lists which call may call which, from which place in
it; texts are under texts, at the code ^K!, to any depth. The keys that were read and not handed out form a row, the one that
`PeekKey` is about to put back before the buffer (`Row`); behind it come the bytes
on their way (`LineOf`), which are the end of what was typed (`FlowInv`). `RowInv` says that
what was handed out, the row and the line are in order, where the key of a node
counts for nothing and a key in `aside` may be passed. A step takes the first of the row,
puts node keys before it (`RowShift`), or reads a byte into it (`RowTake`). The last is
in order only if no key of the caller waits in the buffer while `GetKey` reads, and
that is not so when a chat inside an outer `GetKey` peeks: hence `AsideInv`. So far
nothing is assumed of the strokes, and `KeysOnce` says what follows.
That no byte of a command is a key is a matter of the filter's state: `FilterInv` relates it
to the first byte on the line (`AtByte`), where a command that a deadline cut, and what comes
behind it, may be taken for data (`Loose`, `AfterCut`), and says that the filter
waits for the rest of an Enter when that comes next. Over SSH, where the terminal itself
drops that rest, nothing may be read in between: there is no node window, so no chat
(`NoConsole`), and nothing but a node key can come before it (`EnterOpen`).

`NoKeyLost` (theorem `NoKeyEverLost`) needs, besides, that no stroke but an Enter has a byte
that ends a line (`StrokesApart`): a lone LF right behind an Enter is taken for the rest
of it, by the code's design. `KeptInv` says of each byte typed that it is on the line, in the
row, or excused: part of a command, handed out, the rest of an Enter, or dropped. `LineKeeps` and
`RowKeeps` follow the first of the line and of the row through each step; what
was excused stays so (`ExcusedStays`). The prompts that drop what was typed ahead must
drop only ends of lines: they peek, and call `GetKey` when they saw one. That `GetKey` returns what
they saw is `LooksInv` (it is the first of the buffer) with `TakesInv` (`GetKey` takes it from
there at once), unless it passes over the rest of an Enter first, which it meets in the buffer
only when that came late (`Late`); hence the last case of `NoKeyLost`.

Only model-checked: all liveness (out of the prover's reach), `SettingsRestored` and
`LoopsNest` of `NodeConsole`. The first needs hypotheses on the menus and scripts (an item that
runs by itself may toggle a setting); the second the results of sorting and
flattening sequences, which are defined by recursion on them.

## 5. Not modelled, and the plan

Not modelled, and why: screens, wording, drawing, parsing of configuration and
records, crc, MIME and text conversion, WebSocket frames are pure conversions of one
process's data. The full-screen editor works on one session's variables and
shares nothing but the terminal, which is modelled. Doors run programs that are not part of this code. The mirror's queue
drops what the console is too slow for; no other part reads it. `HasNewMail` with
its scan of high numbers decides only what a list of areas shows.

Left for later:

1. A process started with `-N-1`, which picks its node itself, in `NodeSession`.
2. A queue record of `EleMail` as two writes, and appends to the outbound queue
   that fail.
3. The attachments' branch of the upload in `FileSession`, instead of one step
   in `MailReader`.

Theorems worth proving next: the parts of `SettingsRestored`, on the stack's
invariants. No module declares a
`RECURSIVE` operator; what is computed by recursion on data (folds over a list
of records) is used in the proofs only through what its definition says of the
result.
