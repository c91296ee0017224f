------------------------------ MODULE NodeAlloc ------------------------------
(***************************************************************************)
(* What eleserv promises about node numbers, with no word about listeners, *)
(* goroutines or the pool's mutex: a caller is given the lowest node no    *)
(* other caller owns, is refused only while every node is owned, and gives *)
(* its node back once.  NodePool implements this.                          *)
(***************************************************************************)
EXTENDS Integers

CONSTANTS Conns,    \* the callers
          Nodes     \* the node numbers of the shared range

VARIABLES owns,     \* owns[c] is the node c owns, 0 for none
          refused   \* the callers being told the system is full

allocVars == <<owns, refused>>

Owned == {owns[c] : c \in Conns} \ {0}

AllocInit ==
  /\ owns = [c \in Conns |-> 0]
  /\ refused = {}

Waiting(c) == owns[c] = 0 /\ c \notin refused

Grant(c) ==
  /\ Waiting(c)
  /\ \E n \in Nodes :
       /\ n \notin Owned
       /\ \A m \in Nodes : m < n => m \in Owned
       /\ owns' = [owns EXCEPT ![c] = n]
  /\ UNCHANGED refused

Refuse(c) ==
  /\ Waiting(c)
  /\ Nodes \subseteq Owned
  /\ refused' = refused \union {c}
  /\ UNCHANGED owns

Leave(c) ==
  /\ c \in refused
  /\ refused' = refused \ {c}
  /\ UNCHANGED owns

Return(c) ==
  /\ owns[c] # 0
  /\ owns' = [owns EXCEPT ![c] = 0]
  /\ UNCHANGED refused

AllocNext == \E c \in Conns : Grant(c) \/ Refuse(c) \/ Leave(c) \/ Return(c)

AllocSpec == AllocInit /\ [][AllocNext]_allocVars
=============================================================================
