---------------------------- MODULE MCNodeSession ----------------------------
(***************************************************************************)
(* Instances of NodeSession: two nodes on a USERON.BBS that already has    *)
(* their records (MCNodeSession.cfg), and three nodes on a new USERON.BBS  *)
(* (MCUserOnShort.cfg).                                                    *)
(***************************************************************************)
EXTENDS NodeSession
=============================================================================
