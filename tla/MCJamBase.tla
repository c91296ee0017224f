------------------------------ MODULE MCJamBase -------------------------------
(***************************************************************************)
(* JamBase with one poster, one marker and one reader (MCJamBase.cfg), and *)
(* with two posters (MCJamTwoPosters.cfg).  The bases to start from: none  *)
(* yet; one numbered from 5; one whose messages carry a hub's numbers, one *)
(* of which the third slot will have too; one with a deleted message and   *)
(* an index entry that points nowhere.                                     *)
(***************************************************************************)
EXTENDS JamBase

MCOldBases == {[base |-> 0, nums |-> <<>>],
               [base |-> 5, nums |-> <<5>>],
               [base |-> 1, nums |-> <<3, 7>>],
               [base |-> 1, nums |-> <<3, -1, 0>>]}
MCNewBase == {[base |-> 0, nums |-> <<>>]}
=============================================================================
