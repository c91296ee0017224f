------------------------------- MODULE NodePool -------------------------------
(***************************************************************************)
(* eleserv's callers and the pool of node numbers they share               *)
(* (internal/telsrv/server.go, internal/sshserv/server.go,                 *)
(* internal/online/useron.go FirstFree, cmd/eleserv/main.go).              *)
(*                                                                         *)
(* Every service runs one accept loop.  Plain telnet, telnets and WSS      *)
(* start a goroutine per connection that first prepares the stream and     *)
(* only then takes a node; the SSH loop takes the node itself and leaves   *)
(* the handshake to the goroutine.  FirstFree's scan and the map update    *)
(* happen under the pool's mutex, one step each, so that what the mutex is *)
(* for is visible.                                                         *)
(***************************************************************************)
EXTENDS Integers, FiniteSets

CONSTANTS Conns,          \* connections; a closed one may call again
          Service,        \* Service[c] is the service c connects to
          StartNodeWith,  \* TELNET.ELE's first node
          MaxSessions,    \* TELNET.ELE's session limit
          MaxNodes,       \* 255 in the code: the last node number there is
          None            \* the mutex is free

Services == {"TELNET", "TELNETS", "WSS", "SSH"}

ASSUME PoolAssumption ==
  /\ Service \in [Conns -> Services]
  /\ StartNodeWith \in Int
  /\ MaxSessions \in Int
  /\ MaxNodes \in Nat
  /\ None \notin Conns

VARIABLES listening,  \* the services whose accept loop runs
          phase,      \* phase[c]: where c's goroutine (or the SSH loop) is
          node,       \* node[c]: the scan cursor, then the node c holds
          mutex,      \* the goroutine that holds the pool's mutex
          inUse       \* the keys of pool.inUse

vars == <<listening, phase, node, mutex, inUse>>

Phases == {"closed", "prepare", "want", "scan", "found", "refused",
           "handshake", "session", "ended", "release", "drop"}

-----------------------------------------------------------------------------
\* The node range AcquireNode hands to FirstFree.

SessionLimit == IF MaxSessions <= 0 THEN 10 ELSE MaxSessions
FirstNode == IF StartNodeWith < 1 THEN 1 ELSE StartNodeWith

LastNode == IF FirstNode + SessionLimit - 1 > MaxNodes
              THEN MaxNodes ELSE FirstNode + SessionLimit - 1
Nodes == FirstNode .. LastNode

IsSSH(c) == Service[c] = "SSH"

\* Only telnets and WSS have something to prepare that can fail.
Handshakes(c) == Service[c] \in {"TELNETS", "WSS"}

\* The SSH accept loop is inside AcquireNode, or closing a refused caller.
SSHLoopBusy == \E c \in Conns :
  IsSSH(c) /\ phase[c] \in {"want", "scan", "found", "refused"}

Goto(c, p) == phase' = [phase EXCEPT ![c] = p]

Init ==
  /\ listening \in SUBSET Services
  /\ phase = [c \in Conns |-> "closed"]
  /\ node = [c \in Conns |-> 0]
  /\ mutex = None
  /\ inUse = {}

-----------------------------------------------------------------------------
\* The accept loops.

\* ln.Accept returns c: a goroutine prepares it, or the SSH loop goes for a node.
Accept(c) ==
  /\ phase[c] = "closed"
  /\ Service[c] \in listening
  /\ IsSSH(c) => ~SSHLoopBusy
  /\ Goto(c, IF IsSSH(c) THEN "want" ELSE "prepare")
  /\ UNCHANGED <<listening, node, mutex, inUse>>

\* ln.Accept fails: that listener returns for good, its callers stay.
AcceptFails(s) ==
  /\ s \in listening
  /\ s = "SSH" => ~SSHLoopBusy
  /\ listening' = listening \ {s}
  /\ UNCHANGED <<phase, node, mutex, inUse>>

\* prepare returned a stream: at once for telnet, after the handshake otherwise.
Prepared(c) ==
  /\ phase[c] = "prepare"
  /\ Goto(c, "want")
  /\ UNCHANGED <<listening, node, mutex, inUse>>

\* The TLS handshake or the WebSocket upgrade failed or took over 20 seconds.
PrepareFails(c) ==
  /\ phase[c] = "prepare"
  /\ Handshakes(c)
  /\ Goto(c, "closed")
  /\ UNCHANGED <<listening, node, mutex, inUse>>

-----------------------------------------------------------------------------
\* AcquireNode and FirstFree.

\* Mutant: AcquireNode without the mutex.
LockToAcquireUnlocked(c) ==
  /\ phase[c] = "want"
  /\ mutex' = c
  /\ node' = [node EXCEPT ![c] = FirstNode]
  /\ Goto(c, "scan")
  /\ UNCHANGED <<listening, inUse>>

\* Mutant: the scan starts behind the first node.
LockToAcquireSecond(c) ==
  /\ phase[c] = "want"
  /\ mutex = None
  /\ mutex' = c
  /\ node' = [node EXCEPT ![c] = FirstNode + 1]
  /\ Goto(c, "scan")
  /\ UNCHANGED <<listening, inUse>>

LockToAcquire(c) ==
  /\ phase[c] = "want"
  /\ mutex = None
  /\ mutex' = c
  /\ node' = [node EXCEPT ![c] = FirstNode]
  /\ Goto(c, "scan")
  /\ UNCHANGED <<listening, inUse>>

\* Mutant: FirstFree's loop does not advance over a node in use.
ScanNodeStuck(c) ==
  /\ phase[c] = "scan"
  /\ node[c] <= LastNode
  /\ node[c] \notin inUse
  /\ Goto(c, "found")
  /\ UNCHANGED <<listening, node, mutex, inUse>>

\* One turn of FirstFree's loop, below the end of the range.
ScanNode(c) ==
  /\ phase[c] = "scan"
  /\ node[c] <= LastNode
  /\ IF node[c] \in inUse
       THEN node' = [node EXCEPT ![c] = @ + 1] /\ UNCHANGED phase
       ELSE Goto(c, "found") /\ UNCHANGED node
  /\ UNCHANGED <<listening, mutex, inUse>>

\* FirstFree ran off the range: AcquireNode returns 0 and unlocks.
ScanEnds(c) ==
  /\ phase[c] = "scan"
  /\ node[c] > LastNode
  /\ node' = [node EXCEPT ![c] = 0]
  /\ mutex' = None
  /\ Goto(c, "refused")
  /\ UNCHANGED <<listening, inUse>>

\* AcquireNode marks the node and unlocks; an SSH caller still has its
\* handshake to do, any other one has its session.
MarkNode(c) ==
  /\ phase[c] = "found"
  /\ inUse' = inUse \union {node[c]}
  /\ mutex' = None
  /\ Goto(c, IF IsSSH(c) THEN "handshake" ELSE "session")
  /\ UNCHANGED <<listening, node>>

\* BUSY (telnet family) and the connection is closed.
CloseRefused(c) ==
  /\ phase[c] = "refused"
  /\ Goto(c, "closed")
  /\ UNCHANGED <<listening, node, mutex, inUse>>

-----------------------------------------------------------------------------
\* The session and the way back.

\* SSH: authenticated and a session channel opened, or an error.  Nothing
\* bounds the time this takes.
SSHHandshake(c) ==
  /\ phase[c] = "handshake"
  /\ \E p \in {"session", "ended"} : Goto(c, p)
  /\ UNCHANGED <<listening, node, mutex, inUse>>

\* RunOn returned, or the spawn failed.
SessionEnds(c) ==
  /\ phase[c] = "session"
  /\ Goto(c, "ended")
  /\ UNCHANGED <<listening, node, mutex, inUse>>

LockToRelease(c) ==
  /\ phase[c] = "ended"
  /\ mutex = None
  /\ mutex' = c
  /\ Goto(c, "release")
  /\ UNCHANGED <<listening, node, inUse>>

\* Mutant: the node is not deleted from the map.
ReleaseNodeLeaks(c) ==
  /\ phase[c] = "release"
  /\ node' = [node EXCEPT ![c] = 0]
  /\ mutex' = None
  /\ Goto(c, IF IsSSH(c) THEN "closed" ELSE "drop")
  /\ UNCHANGED <<listening, inUse>>

\* Mutant: the mutex is not unlocked.
ReleaseNodeLocked(c) ==
  /\ phase[c] = "release"
  /\ inUse' = inUse \ {node[c]}
  /\ node' = [node EXCEPT ![c] = 0]
  /\ Goto(c, IF IsSSH(c) THEN "closed" ELSE "drop")
  /\ UNCHANGED <<listening, mutex>>

\* ReleaseNode; the telnet goroutine still has its connection to close, the
\* SSH one closed it before.
ReleaseNode(c) ==
  /\ phase[c] = "release"
  /\ inUse' = inUse \ {node[c]}
  /\ node' = [node EXCEPT ![c] = 0]
  /\ mutex' = None
  /\ Goto(c, IF IsSSH(c) THEN "closed" ELSE "drop")
  /\ UNCHANGED listening

CloseConn(c) ==
  /\ phase[c] = "drop"
  /\ Goto(c, "closed")
  /\ UNCHANGED <<listening, node, mutex, inUse>>

-----------------------------------------------------------------------------
ConnStep(c) ==
  \/ Accept(c) \/ Prepared(c) \/ PrepareFails(c)
  \/ LockToAcquire(c) \/ ScanNode(c) \/ ScanEnds(c) \/ MarkNode(c)
  \/ CloseRefused(c) \/ SSHHandshake(c) \/ SessionEnds(c)
  \/ LockToRelease(c) \/ ReleaseNode(c) \/ CloseConn(c)

Next ==
  \/ \E c \in Conns : ConnStep(c)
  \/ \E s \in Services : AcceptFails(s)

Spec == Init /\ [][Next]_vars

\* A goroutine that can run does.  sync.Mutex hands the lock to a waiter that
\* has starved for a millisecond, hence strong fairness of the two Lock steps;
\* the handshake timeout bounds "prepare".  Nothing makes a caller call, finish
\* an SSH handshake or end its session.
Fairness == \A c \in Conns :
  /\ WF_vars(Prepared(c) \/ PrepareFails(c))
  /\ SF_vars(LockToAcquire(c))
  /\ WF_vars(ScanNode(c)) /\ WF_vars(ScanEnds(c)) /\ WF_vars(MarkNode(c))
  /\ WF_vars(CloseRefused(c))
  /\ SF_vars(LockToRelease(c))
  /\ WF_vars(ReleaseNode(c)) /\ WF_vars(CloseConn(c))

FairSpec == Spec /\ Fairness

-----------------------------------------------------------------------------
\* Properties.

\* The callers that hold a node.
Holding(c) == phase[c] \in {"handshake", "session", "ended", "release"}

\* The callers inside the mutex.
Inside(c) == phase[c] \in {"scan", "found", "release"}

\* Every variable has its type: the node and cursor stay within the range
\* (the cursor may step one past it) or are 0.
TypeOK ==
  /\ listening \subseteq Services
  /\ phase \in [Conns -> Phases]
  /\ node \in [Conns -> Nat]
  /\ mutex \in Conns \union {None}
  /\ inUse \subseteq Nodes

\* No two live callers are given the same node, whichever services they came
\* through (AcquireNode's mutex).
NodeExclusive == \A c, d \in Conns :
  (c # d /\ Holding(c) /\ Holding(d)) => node[c] # node[d]

\* pool.inUse holds the nodes of the live callers and nothing else: no path out
\* of a goroutine leaks a node, none frees a node twice (the deferred
\* ReleaseNode of listen and Listen).
PoolExact == inUse = {node[c] : c \in {d \in Conns : Holding(d)}}

\* All services together never run more sessions than TELNET.ELE's limit nor
\* reach a node above the last one there is.
SharedLimit ==
  /\ Cardinality({c \in Conns : Holding(c)}) <= SessionLimit
  /\ \A c \in Conns : Holding(c) => node[c] <= MaxNodes

\* The refinement: node numbers are granted and refused as NodeAlloc says, the
\* lowest free one first and BUSY only while all of them are taken.
OwnsBar == [c \in Conns |-> IF Holding(c) THEN node[c] ELSE 0]
RefusedBar == {c \in Conns : phase[c] = "refused"}

Alloc == INSTANCE NodeAlloc WITH owns <- OwnsBar, refused <- RefusedBar

Allocates == Alloc!AllocSpec

\* A caller that was accepted is eventually given a node, refused or dropped,
\* however many others compete for the mutex.
EveryCallAnswered == \A c \in Conns :
  phase[c] \in {"prepare", "want"}
    ~> phase[c] \in {"handshake", "session", "refused", "closed"}

\* Once a session is over its node is eventually free and its connection closed.
NodesComeBack == \A c \in Conns :
  phase[c] = "ended" ~> (phase[c] = "closed" /\ node[c] = 0)
=============================================================================
