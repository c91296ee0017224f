---------------------------- MODULE NodePoolProofs ----------------------------
(***************************************************************************)
(* For every set of callers and every TELNET.ELE: node numbers are never   *)
(* shared, pool.inUse is exact, the session limit holds across services,   *)
(* and NodePool implements NodeAlloc.                                      *)
(***************************************************************************)
EXTENDS NodePool, FiniteSetTheorems, TLAPS

\* The goroutine in a critical section is the one that owns the mutex.
MutexInv == \A c \in Conns : Inside(c) <=> mutex = c

\* FirstFree's loop: every node of the range below the cursor is taken.
ScanInv == \A c \in Conns : phase[c] \in {"scan", "found"} =>
  \A m \in Nodes : m < node[c] => m \in inUse

\* The cursor starts at the range's first node and only moves up.
CursorInv == \A c \in Conns : phase[c] \in {"scan", "found"} => node[c] >= FirstNode

\* The node found is in the range and still free: nobody else has the mutex.
FoundInv == \A c \in Conns : phase[c] = "found" => node[c] \in Nodes \ inUse

HeldInv == \A c \in Conns : Holding(c) => node[c] \in Nodes

IInv == /\ TypeOK /\ MutexInv /\ ScanInv /\ CursorInv /\ FoundInv
        /\ HeldInv /\ NodeExclusive /\ PoolExact

-----------------------------------------------------------------------------
\* The range is made of node numbers: 0 is never one of them.
LEMMA RangeLemma ==
  /\ FirstNode \in Nat \ {0}
  /\ LastNode \in Int
  /\ SessionLimit \in Nat \ {0}
  /\ LastNode - FirstNode + 1 <= SessionLimit
  /\ LastNode <= MaxNodes
  /\ Nodes \subseteq Nat \ {0}
BY PoolAssumption DEF FirstNode, LastNode, SessionLimit, Nodes

\* IInv holds before the first caller.
LEMMA InitIInv == Init => IInv
BY PoolAssumption DEF Init, IInv, TypeOK, Phases, Inside, Holding, MutexInv, ScanInv,
  CursorInv, FoundInv, HeldInv, NodeExclusive, PoolExact

-----------------------------------------------------------------------------
\* A step that moves one caller between two phases that are neither inside the
\* mutex nor holding a node, or between two holding ones outside it.
LEMMA MoveStep ==
  ASSUME IInv, NEW c \in Conns, NEW p \in Phases,
         Goto(c, p), UNCHANGED <<node, mutex, inUse>>,
         listening' \subseteq Services,
         ~Inside(c), p \notin {"scan", "found", "release"},
         Holding(c) <=> p \in {"handshake", "session", "ended", "release"}
  PROVE  IInv'
<1> USE DEF IInv
<1>1. TypeOK'
  BY DEF TypeOK, Goto
<1>2. \A d \in Conns : Holding(d)' <=> Holding(d)
  BY DEF TypeOK, Holding, Goto
<1>3. \A d \in Conns : Inside(d)' <=> Inside(d)
  BY DEF TypeOK, Inside, Goto
<1>4. MutexInv'
  BY <1>3 DEF MutexInv
<1>5. (ScanInv /\ CursorInv /\ FoundInv)'
  BY DEF ScanInv, CursorInv, FoundInv, TypeOK, Goto, Inside
<1>6. (HeldInv /\ NodeExclusive /\ PoolExact)'
  BY <1>2 DEF HeldInv, NodeExclusive, PoolExact
<1> QED BY <1>1, <1>4, <1>5, <1>6

LEMMA LockToAcquireStep ==
  ASSUME IInv, NEW c \in Conns, LockToAcquire(c)
  PROVE  IInv'
<1> USE DEF IInv
<1>1. TypeOK'
  BY RangeLemma DEF TypeOK, LockToAcquire, Goto, Phases
<1>2. \A d \in Conns : Holding(d)' <=> Holding(d)
  BY DEF TypeOK, Holding, LockToAcquire, Goto
<1>3. MutexInv'
  BY PoolAssumption DEF MutexInv, TypeOK, Inside, LockToAcquire, Goto
<1>4. \A m \in Nodes : ~(m < FirstNode)
  BY RangeLemma DEF Nodes
<1>5. (ScanInv /\ CursorInv /\ FoundInv)'
  BY <1>4, RangeLemma DEF ScanInv, CursorInv, FoundInv, TypeOK, LockToAcquire, Goto
<1>6. \A d \in Conns : Holding(d) => node'[d] = node[d]
  BY DEF TypeOK, Holding, LockToAcquire, Goto
<1>7. (HeldInv /\ NodeExclusive /\ PoolExact)'
  BY <1>2, <1>6 DEF HeldInv, NodeExclusive, PoolExact, LockToAcquire
<1> QED BY <1>1, <1>3, <1>5, <1>7

LEMMA ScanNodeStep ==
  ASSUME IInv, NEW c \in Conns, ScanNode(c)
  PROVE  IInv'
<1> USE DEF IInv
<1>1. TypeOK'
  BY DEF TypeOK, ScanNode, Goto, Phases
<1>2. \A d \in Conns : Holding(d)' <=> Holding(d)
  BY DEF TypeOK, Holding, ScanNode, Goto
<1>3. MutexInv'
  BY DEF MutexInv, TypeOK, Inside, ScanNode, Goto
<1>4. node[c] \in Nodes
  BY RangeLemma DEF TypeOK, CursorInv, ScanNode, Nodes
<1>5. CursorInv'
  BY RangeLemma DEF CursorInv, TypeOK, ScanNode, Goto
<1>6. FoundInv'
  BY <1>4 DEF FoundInv, TypeOK, ScanNode, Goto
<1>7. ScanInv'
  <2> SUFFICES ASSUME NEW d \in Conns, phase'[d] \in {"scan", "found"},
                      NEW m \in Nodes, m < node'[d]
               PROVE  m \in inUse'
    BY DEF ScanInv
  <2>1. CASE d # c
    BY <2>1 DEF ScanInv, TypeOK, ScanNode, Goto
  <2>2. CASE d = c /\ node[c] \notin inUse
    BY <2>2 DEF ScanInv, TypeOK, ScanNode, Goto
  <2>3. CASE d = c /\ node[c] \in inUse
    <3>1. node'[d] = node[c] + 1
      BY <2>3 DEF TypeOK, ScanNode
    <3>2. m \in Nat /\ node[c] \in Nat
      BY RangeLemma DEF TypeOK
    <3>3. m < node[c] \/ m = node[c]
      BY <3>1, <3>2
    <3> QED BY <2>3, <3>3 DEF ScanInv, ScanNode
  <2> QED BY <2>1, <2>2, <2>3
<1>8. \A d \in Conns : Holding(d) => node'[d] = node[d]
  BY DEF TypeOK, Holding, ScanNode, Goto
<1>9. (HeldInv /\ NodeExclusive /\ PoolExact)'
  BY <1>2, <1>8 DEF HeldInv, NodeExclusive, PoolExact, ScanNode
<1> QED BY <1>1, <1>3, <1>5, <1>6, <1>7, <1>9

LEMMA ScanEndsStep ==
  ASSUME IInv, NEW c \in Conns, ScanEnds(c)
  PROVE  IInv'
<1> USE DEF IInv
<1>1. TypeOK'
  BY DEF TypeOK, ScanEnds, Goto, Phases
<1>2. \A d \in Conns : Holding(d)' <=> Holding(d)
  BY DEF TypeOK, Holding, ScanEnds, Goto
<1>3. MutexInv'
  BY PoolAssumption DEF MutexInv, TypeOK, Inside, ScanEnds, Goto
<1>4. (ScanInv /\ CursorInv /\ FoundInv)'
  BY DEF ScanInv, CursorInv, FoundInv, TypeOK, ScanEnds, Goto
<1>5. \A d \in Conns : Holding(d) => node'[d] = node[d]
  BY DEF TypeOK, Holding, ScanEnds, Goto
<1>6. (HeldInv /\ NodeExclusive /\ PoolExact)'
  BY <1>2, <1>5 DEF HeldInv, NodeExclusive, PoolExact, ScanEnds
<1> QED BY <1>1, <1>3, <1>4, <1>6

LEMMA MarkNodeStep ==
  ASSUME IInv, NEW c \in Conns, MarkNode(c)
  PROVE  IInv'
<1> USE DEF IInv
<1>1. node[c] \in Nodes /\ node[c] \notin inUse
  BY DEF FoundInv, MarkNode
<1>2. TypeOK'
  BY <1>1 DEF TypeOK, MarkNode, Goto, Phases
<1>3. /\ ~Holding(c) /\ Holding(c)'
      /\ \A d \in Conns \ {c} : Holding(d)' <=> Holding(d)
  BY DEF TypeOK, Holding, MarkNode, Goto
<1>4. MutexInv'
  BY PoolAssumption DEF MutexInv, TypeOK, Inside, MarkNode, Goto
<1>5. \A d \in Conns : phase'[d] \notin {"scan", "found"}
  BY DEF MutexInv, Inside, TypeOK, MarkNode, Goto
<1>6. (ScanInv /\ CursorInv /\ FoundInv)'
  BY <1>5 DEF ScanInv, CursorInv, FoundInv
<1>7. HeldInv'
  BY <1>1, <1>3 DEF HeldInv, MarkNode
<1>8. \A d \in Conns : Holding(d) => node[d] # node[c]
  BY <1>1 DEF PoolExact
<1>9. NodeExclusive'
  BY <1>3, <1>8 DEF NodeExclusive, MarkNode
<1>10. PoolExact'
  BY <1>3 DEF PoolExact, MarkNode
<1> QED BY <1>2, <1>4, <1>6, <1>7, <1>9, <1>10

LEMMA LockToReleaseStep ==
  ASSUME IInv, NEW c \in Conns, LockToRelease(c)
  PROVE  IInv'
<1> USE DEF IInv
<1>1. TypeOK'
  BY DEF TypeOK, LockToRelease, Goto, Phases
<1>2. \A d \in Conns : Holding(d)' <=> Holding(d)
  BY DEF TypeOK, Holding, LockToRelease, Goto
<1>3. MutexInv'
  BY PoolAssumption DEF MutexInv, TypeOK, Inside, LockToRelease, Goto
<1>4. (ScanInv /\ CursorInv /\ FoundInv)'
  BY DEF ScanInv, CursorInv, FoundInv, TypeOK, LockToRelease, Goto
<1>5. (HeldInv /\ NodeExclusive /\ PoolExact)'
  BY <1>2 DEF HeldInv, NodeExclusive, PoolExact, LockToRelease
<1> QED BY <1>1, <1>3, <1>4, <1>5

LEMMA ReleaseNodeStep ==
  ASSUME IInv, NEW c \in Conns, ReleaseNode(c)
  PROVE  IInv'
<1> USE DEF IInv
<1>1. TypeOK'
  BY DEF TypeOK, ReleaseNode, Goto, Phases
<1>2. /\ Holding(c) /\ ~Holding(c)'
      /\ \A d \in Conns \ {c} : /\ Holding(d)' <=> Holding(d)
                                /\ node'[d] = node[d]
  BY DEF TypeOK, Holding, ReleaseNode, Goto
<1>3. MutexInv'
  BY PoolAssumption DEF MutexInv, TypeOK, Inside, ReleaseNode, Goto
<1>4. \A d \in Conns : phase'[d] \notin {"scan", "found"}
  BY DEF MutexInv, Inside, TypeOK, ReleaseNode, Goto
<1>5. (ScanInv /\ CursorInv /\ FoundInv)'
  BY <1>4 DEF ScanInv, CursorInv, FoundInv
<1>6. (HeldInv /\ NodeExclusive)'
  BY <1>2 DEF HeldInv, NodeExclusive
<1>7. \A d \in Conns \ {c} : Holding(d) => node[d] # node[c]
  BY <1>2 DEF NodeExclusive
<1>8. PoolExact'
  BY <1>2, <1>7 DEF PoolExact, ReleaseNode
<1> QED BY <1>1, <1>3, <1>5, <1>6, <1>8

-----------------------------------------------------------------------------
\* The steps that leave the pool and the mutex alone.
LEMMA QuietStep ==
  ASSUME IInv, NEW c \in Conns,
         \/ Accept(c) \/ Prepared(c) \/ PrepareFails(c) \/ CloseRefused(c)
         \/ SSHHandshake(c) \/ SessionEnds(c) \/ CloseConn(c)
  PROVE  IInv'
<1>1. UNCHANGED <<listening, node, mutex, inUse>> /\ listening' \subseteq Services
  BY DEF Accept, Prepared, PrepareFails, CloseRefused, SSHHandshake, SessionEnds,
    CloseConn, IInv, TypeOK
<1>2. ~Inside(c)
  BY DEF Accept, Prepared, PrepareFails, CloseRefused, SSHHandshake, SessionEnds,
    CloseConn, Inside
<1>3. CASE \/ Accept(c) \/ Prepared(c) \/ PrepareFails(c) \/ CloseRefused(c) \/ CloseConn(c)
  <2>1. PICK p \in {"want", "prepare", "closed"} : Goto(c, p)
    BY <1>3 DEF Accept, Prepared, PrepareFails, CloseRefused, CloseConn, Goto
  <2>2. ~Holding(c)
    BY <1>3 DEF Accept, Prepared, PrepareFails, CloseRefused, CloseConn, Holding
  <2> QED BY <1>1, <1>2, <2>1, <2>2, MoveStep DEF Phases
<1>4. CASE SSHHandshake(c) \/ SessionEnds(c)
  <2>1. PICK p \in {"session", "ended"} : Goto(c, p)
    BY <1>4 DEF SSHHandshake, SessionEnds
  <2>2. Holding(c)
    BY <1>4 DEF SSHHandshake, SessionEnds, Holding
  <2> QED BY <1>1, <1>2, <2>1, <2>2, MoveStep DEF Phases
<1> QED BY <1>3, <1>4

\* A step that changes none of the variables IInv is about but listening.
LEMMA StutterStep ==
  ASSUME IInv, UNCHANGED <<phase, node, mutex, inUse>>, listening' \subseteq Services
  PROVE  IInv'
BY DEF IInv, TypeOK, MutexInv, ScanInv, CursorInv, FoundInv, HeldInv, NodeExclusive,
  PoolExact, Inside, Holding

LEMMA NextIInv == IInv /\ [Next]_vars => IInv'
<1> SUFFICES ASSUME IInv, [Next]_vars PROVE IInv'
  OBVIOUS
<1>1. ASSUME NEW c \in Conns, ConnStep(c) PROVE IInv'
  BY <1>1, QuietStep, LockToAcquireStep, ScanNodeStep, ScanEndsStep, MarkNodeStep,
    LockToReleaseStep, ReleaseNodeStep DEF ConnStep
<1>2. ASSUME NEW s \in Services, AcceptFails(s) PROVE IInv'
  BY <1>2, StutterStep DEF AcceptFails, IInv, TypeOK
<1>3. CASE UNCHANGED vars
  BY <1>3, StutterStep DEF vars, IInv, TypeOK
<1> QED BY <1>1, <1>2, <1>3 DEF Next

\* IInv is inductive: the invariant the results below rest on.
THEOREM Inductive == Spec => []IInv
BY InitIInv, NextIInv, PTL DEF Spec

-----------------------------------------------------------------------------
\* Every variable keeps its type; the pool only ever holds nodes of the range.
THEOREM TypeInvariant == Spec => []TypeOK
<1>1. IInv => TypeOK
  BY DEF IInv
<1> QED BY <1>1, Inductive, PTL

\* However many callers race through however many services, no two of them get
\* the same node from AcquireNode.
THEOREM NodesAreExclusive == Spec => []NodeExclusive
<1>1. IInv => NodeExclusive
  BY DEF IInv
<1> QED BY <1>1, Inductive, PTL

\* pool.inUse is the set of nodes of the live callers: AcquireNode and the
\* deferred ReleaseNode never leak a node nor free one that is held.
THEOREM PoolIsExact == Spec => []PoolExact
<1>1. IInv => PoolExact
  BY DEF IInv
<1> QED BY <1>1, Inductive, PTL

\* The services together stay within TELNET.ELE's session limit and below the
\* last node there is.
THEOREM LimitIsShared == Spec => []SharedLimit
<1>1. IInv => SharedLimit
  <2> SUFFICES ASSUME IInv PROVE SharedLimit
    OBVIOUS
  <2> DEFINE H == {c \in Conns : Holding(c)}
             f == [c \in H |-> node[c]]
  <2>1. f \in Injection(H, Nodes)
    BY DEF IInv, HeldInv, NodeExclusive, Injection, IsInjective
  <2>2. /\ IsFiniteSet(Nodes)
        /\ Cardinality(Nodes) = IF FirstNode > LastNode THEN 0 ELSE LastNode - FirstNode + 1
    BY FS_Interval, RangeLemma DEF Nodes
  <2>3. Cardinality(H) <= Cardinality(Nodes) /\ IsFiniteSet(H)
    BY <2>1, <2>2, FS_Injection
  <2>4. Cardinality(Nodes) <= SessionLimit /\ Cardinality(Nodes) \in Nat
    BY <2>2, RangeLemma
  <2>5. Cardinality(H) \in Nat
    BY <2>3, FS_CardinalityType
  <2>6. Cardinality(H) <= SessionLimit
    BY <2>3, <2>4, <2>5, RangeLemma
  <2>7. \A n \in Nodes : n <= MaxNodes
    BY RangeLemma, PoolAssumption DEF Nodes
  <2>8. \A c \in Conns : Holding(c) => node[c] <= MaxNodes
    BY <2>7 DEF IInv, HeldInv
  <2> QED BY <2>6, <2>8 DEF SharedLimit
<1> QED BY <1>1, Inductive, PTL

-----------------------------------------------------------------------------
\* The nodes NodeAlloc sees as owned are the keys of pool.inUse.
LEMMA OwnedIsInUse ==
  ASSUME IInv
  PROVE  Alloc!Owned = inUse
<1>1. \A c \in Conns : Holding(c) => node[c] # 0
  BY RangeLemma DEF IInv, HeldInv
<1> QED BY <1>1 DEF Alloc!Owned, OwnsBar, IInv, PoolExact

\* A step that changes neither who holds a node nor who is refused.
LEMMA InvisibleStep ==
  ASSUME IInv, NEW c \in Conns, NEW p \in Phases, NEW q \in Phases,
         Goto(c, p) \/ UNCHANGED phase, phase[c] = q,
         Holding(c) <=> p \in {"handshake", "session", "ended", "release"},
         p # "refused", q # "refused",
         \A d \in Conns : Holding(d) => node'[d] = node[d]
  PROVE  UNCHANGED Alloc!allocVars
<1>1. \A d \in Conns : Holding(d)' <=> Holding(d)
  BY DEF IInv, TypeOK, Holding, Goto
<1>2. UNCHANGED OwnsBar
  BY <1>1 DEF OwnsBar
<1>3. UNCHANGED RefusedBar
  BY DEF RefusedBar, IInv, TypeOK, Goto
<1> QED BY <1>2, <1>3 DEF Alloc!allocVars

\* AcquireNode returning a node is NodeAlloc's Grant: the scan passed over
\* every lower node, and the mutex kept them taken.
LEMMA MarkIsGrant ==
  ASSUME IInv, NEW c \in Conns, MarkNode(c)
  PROVE  Alloc!Grant(c)
<1>1. node[c] \in Nodes /\ node[c] \notin inUse
  BY DEF IInv, FoundInv, MarkNode
<1>2. \A m \in Nodes : m < node[c] => m \in inUse
  BY DEF IInv, ScanInv, MarkNode
<1>3. Alloc!Waiting(c)
  BY DEF Alloc!Waiting, OwnsBar, RefusedBar, MarkNode, Holding
<1>4. OwnsBar' = [OwnsBar EXCEPT ![c] = node[c]]
  BY DEF OwnsBar, MarkNode, Goto, Holding, IInv, TypeOK
<1>5. UNCHANGED RefusedBar
  BY DEF RefusedBar, MarkNode, Goto, IInv, TypeOK
<1> QED BY <1>1, <1>2, <1>3, <1>4, <1>5, OwnedIsInUse DEF Alloc!Grant

\* AcquireNode returning 0 is NodeAlloc's Refuse: the whole range was taken.
LEMMA ScanEndsIsRefuse ==
  ASSUME IInv, NEW c \in Conns, ScanEnds(c)
  PROVE  Alloc!Refuse(c)
<1>1. \A m \in Nodes : m < node[c]
  BY RangeLemma DEF ScanEnds, Nodes, IInv, TypeOK
<1>2. Nodes \subseteq Alloc!Owned
  BY <1>1, OwnedIsInUse DEF IInv, ScanInv, ScanEnds
<1>3. Alloc!Waiting(c)
  BY DEF Alloc!Waiting, OwnsBar, RefusedBar, ScanEnds, Holding
<1>4. UNCHANGED OwnsBar
  BY DEF OwnsBar, ScanEnds, Goto, Holding, IInv, TypeOK
<1>5. RefusedBar' = RefusedBar \union {c}
  BY DEF RefusedBar, ScanEnds, Goto, IInv, TypeOK
<1> QED BY <1>2, <1>3, <1>4, <1>5 DEF Alloc!Refuse

LEMMA CloseIsLeave ==
  ASSUME IInv, NEW c \in Conns, CloseRefused(c)
  PROVE  Alloc!Leave(c)
<1>1. UNCHANGED OwnsBar
  BY DEF OwnsBar, CloseRefused, Goto, Holding, IInv, TypeOK
<1>2. c \in RefusedBar /\ RefusedBar' = RefusedBar \ {c}
  BY DEF RefusedBar, CloseRefused, Goto, IInv, TypeOK
<1> QED BY <1>1, <1>2 DEF Alloc!Leave

LEMMA ReleaseIsReturn ==
  ASSUME IInv, NEW c \in Conns, ReleaseNode(c)
  PROVE  Alloc!Return(c)
<1>1. OwnsBar[c] # 0
  BY RangeLemma DEF OwnsBar, ReleaseNode, Holding, IInv, HeldInv
<1>2. OwnsBar' = [OwnsBar EXCEPT ![c] = 0]
  BY DEF OwnsBar, ReleaseNode, Goto, Holding, IInv, TypeOK
<1>3. UNCHANGED RefusedBar
  BY DEF RefusedBar, ReleaseNode, Goto, IInv, TypeOK
<1> QED BY <1>1, <1>2, <1>3 DEF Alloc!Return

\* Every other step of a caller is invisible to NodeAlloc.
LEMMA QuietIsInvisible ==
  ASSUME IInv, NEW c \in Conns,
         \/ Accept(c) \/ Prepared(c) \/ PrepareFails(c) \/ LockToAcquire(c)
         \/ ScanNode(c) \/ SSHHandshake(c) \/ SessionEnds(c)
         \/ LockToRelease(c) \/ CloseConn(c)
  PROVE  UNCHANGED Alloc!allocVars
<1>1. CASE Accept(c) \/ Prepared(c) \/ PrepareFails(c) \/ CloseConn(c)
  <2>1. \E p \in {"want", "prepare", "closed"} : Goto(c, p)
    BY <1>1 DEF Accept, Prepared, PrepareFails, CloseConn, Goto
  <2>2. phase[c] \in {"closed", "prepare", "drop"} /\ UNCHANGED node
    BY <1>1 DEF Accept, Prepared, PrepareFails, CloseConn
  <2> QED BY <2>1, <2>2, InvisibleStep DEF Phases, Holding
<1>2. CASE LockToAcquire(c)
  <2>1. phase[c] = "want" /\ Goto(c, "scan")
    BY <1>2 DEF LockToAcquire
  <2>2. \A d \in Conns : Holding(d) => node'[d] = node[d]
    BY <1>2 DEF LockToAcquire, Holding, IInv, TypeOK
  <2> QED BY <2>1, <2>2, InvisibleStep DEF Phases, Holding
<1>3. CASE ScanNode(c)
  <2>1. phase[c] = "scan" /\ (Goto(c, "found") \/ UNCHANGED phase)
    BY <1>3 DEF ScanNode
  <2>2. \A d \in Conns : Holding(d) => node'[d] = node[d]
    BY <1>3 DEF ScanNode, Holding, IInv, TypeOK
  <2> QED BY <2>1, <2>2, InvisibleStep DEF Phases, Holding
<1>4. CASE SSHHandshake(c) \/ SessionEnds(c) \/ LockToRelease(c)
  <2>1. \E p \in {"session", "ended", "release"} : Goto(c, p)
    BY <1>4 DEF SSHHandshake, SessionEnds, LockToRelease
  <2>2. phase[c] \in {"handshake", "session", "ended"} /\ UNCHANGED node
    BY <1>4 DEF SSHHandshake, SessionEnds, LockToRelease
  <2> QED BY <2>1, <2>2, InvisibleStep DEF Phases, Holding
<1> QED BY <1>1, <1>2, <1>3, <1>4

LEMMA InitMaps == Init => Alloc!AllocInit
BY DEF Init, Alloc!AllocInit, OwnsBar, RefusedBar, Holding

LEMMA NextMaps == IInv /\ [Next]_vars => [Alloc!AllocNext]_(Alloc!allocVars)
<1> SUFFICES ASSUME IInv, [Next]_vars
             PROVE  Alloc!AllocNext \/ UNCHANGED Alloc!allocVars
  OBVIOUS
<1>1. ASSUME NEW c \in Conns, ConnStep(c)
      PROVE  Alloc!AllocNext \/ UNCHANGED Alloc!allocVars
  BY <1>1, MarkIsGrant, ScanEndsIsRefuse, CloseIsLeave, ReleaseIsReturn,
    QuietIsInvisible DEF ConnStep, Alloc!AllocNext
<1>2. CASE UNCHANGED <<phase, node>>
  BY <1>2 DEF Alloc!allocVars, OwnsBar, RefusedBar, Holding
<1> QED BY <1>1, <1>2 DEF Next, AcceptFails, vars

\* NodePool implements NodeAlloc: through the mutex, the scan and five kinds of
\* goroutine, callers get the lowest free node, and BUSY only when all are taken.
THEOREM Implements == Spec => Allocates
BY InitMaps, NextMaps, Inductive, PTL DEF Spec, Allocates, Alloc!AllocSpec
=============================================================================
