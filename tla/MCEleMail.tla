------------------------------ MODULE MCEleMail -------------------------------
(***************************************************************************)
(* EleMail with two mailers, two outbound messages and two pieces of       *)
(* inbound mail, both longer than elemail reads: one that mailfwd.ctl      *)
(* leaves on the server, and one for a user after it.  MCEleMail.cfg lets  *)
(* a process die anywhere but between the removal of the queue file and    *)
(* the renaming of its replacement; MCMailCrash.cfg lets it die there too. *)
(***************************************************************************)
EXTENDS EleMail, TLC

CONSTANTS m1, m2

MCMailers == {m1, m2}
MCSymmetry == Permutations(MCMailers)

MCCrashAt == Steps \ {"idle", "rename"}
MCCrashAnywhere == Steps \ {"idle"}
=============================================================================
