------------------------------- MODULE MCLogon -------------------------------
(***************************************************************************)
(* Instances of Logon: two nodes on a user base with one user, who has or  *)
(* has not a password and whose name has the CRC of the other name there   *)
(* is.  In MCLogon.cfg only the callers of one node sign up, in            *)
(* MCAppend.cfg those of both.                                             *)
(***************************************************************************)
EXTENDS Logon

Record(name, pw) == [name |-> name, handle |-> name, pw |-> pw,
                     deleted |-> FALSE, calls |-> 0, born |-> name]

MCNames == {"sysop", "bob"}
MCCrcOf == [x \in MCNames \union {""} |-> IF x = "" THEN 0 ELSE 1]
MCBases == {<<Record("sysop", "secret")>>, <<Record("sysop", "")>>}
=============================================================================
