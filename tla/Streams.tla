------------------------------- MODULE Streams -------------------------------
(***************************************************************************)
(* What lies between the caller's keyboard and the terminal of a session   *)
(* (internal/comm): the connection, then either the telnet filter, which   *)
(* strips commands and folds the two bytes of an Enter into one, or the    *)
(* pump, which gives an SSH channel read deadlines.                        *)
(*                                                                         *)
(* A byte carries the stroke it belongs to and its place in it, so that    *)
(* the properties can tell what became of every stroke.  The session reads *)
(* one byte at a time; bytes reach it in portions of any size.             *)
(***************************************************************************)
EXTENDS Naturals, Sequences, FiniteSets

CONSTANTS Kinds,     \* the kinds of connection: "telnet", "ssh"
          Strokes,   \* Strokes[k]: what its caller may type, sequences of byte codes
          MaxTyped,  \* bound on the strokes of the caller
          Accepted   \* the options acceptTelnetOpt accepts

ASSUME StreamsAssumption ==
  /\ Kinds \subseteq {"telnet", "ssh"} /\ Kinds # {}
  /\ MaxTyped \in Nat
  /\ \A k \in Kinds : \A s \in Strokes[k] : s \in Seq(STRING) /\ s # <<>>

VARIABLES kind,     \* the kind of this caller's connection
          carrier,  \* the caller is still there
          typed,    \* the strokes typed so far
          wire,     \* bytes on their way
          rbuf,     \* bytes in the buffered reader, or in pumped.buf
          mid,      \* how far Telnet.Read is into a command
          mate,     \* Telnet.pendingCR
          offers,   \* the commands sent last, by option: usWill, saidWont, ...
          eof,      \* pumped.err
          asleep,   \* the reader waits for the condition of the pump
          cut       \* strokes whose command a read deadline cut in two

stream == <<kind, carrier, typed, wire, rbuf, mid, mate, offers, eof, asleep, cut>>

Sides == {"will", "wont", "do", "dont"}

\* An Enter's second byte, in both the telnet filter and the terminal.
Mates == {"LF", "NUL"}

Commands == [WILL |-> "will", WONT |-> "wont", DO |-> "do", DONT |-> "dont", SB |-> "sub"]

Bytes(code, n) == [i \in 1..Len(code) |-> [c |-> code[i], s |-> n, i |-> i]]

\* NewTelnet offers what it accepts, once.
StreamInit ==
  /\ kind \in Kinds
  /\ carrier = TRUE
  /\ typed = <<>>
  /\ wire = <<>>
  /\ rbuf = <<>>
  /\ mid = "data"
  /\ mate = FALSE
  /\ offers = IF kind = "telnet"
              THEN [will |-> Accepted, do |-> {}, wont |-> {}, dont |-> {}]
              ELSE [side \in Sides |-> {}]
  /\ eof = FALSE
  /\ asleep = FALSE
  /\ cut = {}

-----------------------------------------------------------------------------
\* The caller.

Type ==
  /\ carrier /\ Len(typed) < MaxTyped
  /\ \E code \in Strokes[kind] :
       /\ typed' = Append(typed, code)
       /\ wire' = wire \o Bytes(code, Len(typed) + 1)
  /\ UNCHANGED <<kind, carrier, rbuf, mid, mate, offers, eof, asleep, cut>>

\* The connection breaks, or the caller leaves.
DropCarrier ==
  /\ carrier
  /\ carrier' = FALSE
  /\ UNCHANGED <<kind, typed, wire, rbuf, mid, mate, offers, eof, asleep, cut>>

-----------------------------------------------------------------------------
\* The telnet filter.  Its reader runs dry before it asks for more, and what
\* comes may end anywhere, in the middle of a command or of an Enter.

Fill ==
  /\ kind = "telnet" /\ rbuf = <<>> /\ wire # <<>>
  /\ \E n \in 1..Len(wire) :
       /\ rbuf' = SubSeq(wire, 1, n)
       /\ wire' = SubSeq(wire, n + 1, Len(wire))
  /\ UNCHANGED <<kind, carrier, typed, mid, mate, offers, eof, asleep, cut>>

\* A byte of data, but for the second one of an Enter, or an escaped IAC.  An
\* Enter whose second byte is at hand takes it along.
IsData(b) == mid = "data" /\ b.c # "IAC" /\ ~(mate /\ b.c \in Mates)
IsEscaped(b) == mid = "command" /\ b.c = "IAC"

Yields == kind = "telnet" /\ rbuf # <<>> /\ (IsData(Head(rbuf)) \/ IsEscaped(Head(rbuf)))

Rest == IF /\ IsData(Head(rbuf)) /\ Head(rbuf).c = "CR"
           /\ Len(rbuf) > 1 /\ rbuf[2].c \in Mates
        THEN Tail(Tail(rbuf)) ELSE Tail(rbuf)

Yield ==
  /\ Yields
  /\ rbuf' = Rest
  /\ mate' = IF IsEscaped(Head(rbuf)) THEN mate
             ELSE Head(rbuf).c = "CR" /\ Len(rbuf) = 1
  /\ mid' = "data"
  /\ UNCHANGED <<kind, carrier, typed, wire, offers, eof, asleep, cut>>

DropMate ==
  /\ mid = "data" /\ mate /\ Head(rbuf).c \in Mates
  /\ mate' = FALSE
  /\ UNCHANGED <<mid, offers>>

\* Every other command, whether it has an option or not, takes the next byte.
Command ==
  /\ \/ mid = "data" /\ Head(rbuf).c = "IAC" /\ mid' = "command"
     \/ /\ mid = "command"
        /\ mid' = IF Head(rbuf).c \in DOMAIN Commands THEN Commands[Head(rbuf).c] ELSE "other"
     \/ mid = "other" /\ mid' = "data"
     \/ mid = "sub" /\ mid' = IF Head(rbuf).c = "IAC" THEN "subIAC" ELSE "sub"
     \/ mid = "subIAC" /\ mid' = IF Head(rbuf).c = "SE" THEN "data" ELSE "sub"
  /\ UNCHANGED <<mate, offers>>

\* A side of an option is said once, and forgotten when the opposite is said.
Say(side, opt) ==
  LET other == [will |-> "wont", wont |-> "will", do |-> "dont", dont |-> "do"][side]
  IN offers' = [offers EXCEPT ![side] = @ \cup {opt}, ![other] = @ \ {opt}]

Option ==
  /\ mid \in Sides
  /\ LET opt == Head(rbuf).c
         accept == opt \in Accepted
     IN Say([will |-> IF accept THEN "do" ELSE "dont", wont |-> "dont",
             do |-> IF accept THEN "will" ELSE "wont", dont |-> "wont"][mid], opt)
  /\ mid' = "data"
  /\ UNCHANGED mate

\* Telnet.Read goes on after a byte that is no key.
Skip ==
  /\ kind = "telnet" /\ rbuf # <<>> /\ ~Yields
  /\ DropMate \/ Command \/ Option
  /\ rbuf' = Tail(rbuf)
  /\ UNCHANGED <<kind, carrier, typed, wire, eof, asleep, cut>>

\* A deadline passes in Telnet.Read: it forgets the command it was in, so
\* that what follows is data.
Forget ==
  /\ mid' = "data"
  /\ cut' = IF mid = "data" \/ wire = <<>> \/ Head(wire).i = 1 THEN cut
            ELSE cut \cup {Head(wire).s}
  /\ asleep' = FALSE
  /\ UNCHANGED <<kind, carrier, typed, wire, rbuf, mate, offers, eof>>

-----------------------------------------------------------------------------
\* The pump: a goroutine reads the channel, the session its buffer.

PumpLoop ==
  /\ kind = "ssh" /\ ~eof
  /\ \/ /\ \E n \in 1..Len(wire) :
             /\ rbuf' = rbuf \o SubSeq(wire, 1, n)
             /\ wire' = SubSeq(wire, n + 1, Len(wire))
        /\ UNCHANGED eof
     \/ /\ wire = <<>> /\ ~carrier
        /\ eof' = TRUE
        /\ UNCHANGED <<wire, rbuf>>
  /\ asleep' = FALSE
  /\ UNCHANGED <<kind, carrier, typed, mid, mate, offers, cut>>

PumpTake ==
  /\ kind = "ssh" /\ ~asleep /\ rbuf # <<>>
  /\ rbuf' = Tail(rbuf)
  /\ UNCHANGED <<kind, carrier, typed, wire, mid, mate, offers, eof, asleep, cut>>

PumpSleep ==
  /\ kind = "ssh" /\ ~asleep /\ rbuf = <<>> /\ ~eof
  /\ asleep' = TRUE
  /\ UNCHANGED <<kind, carrier, typed, wire, rbuf, mid, mate, offers, eof, cut>>

\* Nothing more will ever come.
AtEnd == ~carrier /\ wire = <<>> /\ rbuf = <<>> /\ (kind = "ssh" => eof /\ ~asleep)
=============================================================================
