------------------------- MODULE MCMessageServices -------------------------
(* Instances of the message services for TLC.                              *)
EXTENDS MessageServices

MCAreaList == <<"a1", "a2">>
MCBaseNum == [a \in Areas |-> IF a = "a1" THEN 3 ELSE 1]
MCNames == {"u", "v", "hu", "hv", "x", "client", "All", "none", "local", "i1", "i2", "d1", "d2"}
MCHandle == [u \in Users |-> IF u = "u" THEN "hu" ELSE "hv"]
All == [u \in Users |-> {"a1", "a2"}]
MCWritable == [u \in Users |-> IF u = "u" THEN {"a1", "a2"} ELSE {"a1"}]
MCSysop == [u \in Users |-> IF u = "v" THEN {"a2"} ELSE {}]
MCGroupsOf == [a \in Areas |-> IF a = "a1" THEN {1} ELSE {1, 2}]
MCUserOf == [n \in Nodes |-> IF n = "n1" THEN "u" ELSE "v"]
MCProfiles == [n \in Nodes |-> [area |-> "a1", group |-> 1, combined |-> <<"a2", "a1">>]]
MCKind == [a \in Areas |-> IF a = "a1" THEN "both" ELSE "public"]

M(num, from, to, private) == Message(num, "local", from, to, private)
Gone(m) == [m EXCEPT !.deleted = TRUE]
Rec(who, num) == [who |-> who, num |-> num]

\* a1 is numbered from 3; a2 holds the numbers a hub gave.
A1 == <<M(3, "x", "All", FALSE), Gone(M(4, "x", "All", FALSE)), M(0, "x", "v", TRUE), M(6, "x", "hu", TRUE)>>
A2 == <<M(5, "x", "All", FALSE), [M(2, "x", "u", FALSE) EXCEPT !.id = "i1"]>>
A2Local == <<M(1, "x", "u", FALSE)>>
Base(a1, a2, lr, l1, l2, t) ==
  [base |-> [a \in Areas |-> IF a = "a1" THEN a1 ELSE a2],
   jlr |-> [a \in Areas |-> IF a = "a1" THEN lr ELSE <<>>],
   left |-> [n \in Nodes |-> IF n = "n1" THEN l1 ELSE l2],
   talk |-> [c \in Conns |-> t], most |-> 8]

\* Commands of either node and of the news client: each mix lets some meet.
MCStarts == {Base(A1, A2Local, <<Rec("x", 5), Rec("u", 3)>>, 2, 0, 0), Base(A1, A2, <<Rec("hu", 3)>>, 1, 0, 1),
             Base(<<M(3, "x", "All", FALSE)>>, <<>>, <<>>, 1, 1, 0), Base(<<>>, A2, <<>>, 0, 1, 2),
             Base(<<>>, <<>>, <<>>, 3, 0, 0)}

\* What the proof that new messages are shown asks of the handles.
ASSUME MCHandlesAreNoNames == HandlesApart
=============================================================================
