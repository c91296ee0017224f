----------------------------- MODULE MessageBoard -----------------------------
(***************************************************************************)
(* What a message base promises, with no word about its four files: a post *)
(* appears whole and at once at the end of the board, stays there, and the *)
(* number its poster is told names it for good.  JamBase implements this   *)
(* as long as one process posts at a time.                                 *)
(***************************************************************************)
EXTENDS Integers, Sequences

CONSTANT Bodies  \* what can be posted

VARIABLES first,  \* the number of the board's first place
          board,  \* board[i]: the message at the i-th place
          told    \* the numbers posters were told, with what they posted

boardVars == <<first, board, told>>

OnBoard == {board[i] : i \in DOMAIN board}

BoardInit ==
  /\ first \in Nat \ {0}
  /\ board \in Seq(Nat)
  /\ told = {}

Post(m) ==
  /\ m \notin OnBoard
  /\ board' = Append(board, m)
  /\ UNCHANGED <<first, told>>

Tell(i) ==
  /\ i \in DOMAIN board
  /\ told' = told \union {[num |-> first + i - 1, body |-> board[i]]}
  /\ UNCHANGED <<first, board>>

\* The history variable told keeps m's number and m together.
BoardNext ==
  \/ \E m \in Bodies : Post(m)
  \/ \E i \in DOMAIN board : Tell(i)

BoardSpec == BoardInit /\ [][BoardNext]_boardVars
=============================================================================
