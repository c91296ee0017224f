------------------------------ MODULE MCNodePool ------------------------------
(***************************************************************************)
(* NodePool on two nodes and three callers: a WSS one, whose handshake may *)
(* fail, and two for the one SSH accept loop.  StartNodeWith and           *)
(* MaxSessions are unset, so that their defaults apply (nodes 1 .. 10),    *)
(* and MaxNodes cuts the range off at 2: the third caller finds it full.   *)
(***************************************************************************)
EXTENDS NodePool

CONSTANTS w1, s1, s2

MCConns == {w1, s1, s2}
MCService == [c \in MCConns |-> IF c = w1 THEN "WSS" ELSE "SSH"]
=============================================================================
