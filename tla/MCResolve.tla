----------------------------- MODULE MCResolve ------------------------------
(* A small instance of Resolve for TLC.                                      *)
EXTENDS Resolve

CONSTANTS a1, a2, home, cafe, blocked1, blocked2, arpa

MCAsks      == {a1, a2}
MCQuestions == {<<blocked1, "A">>, <<blocked2, "A">>, <<blocked1, "AAAA">>}
\* Blocked names asked side by side; one name asked again and again across a
\* move; its IPv6 addresses, side by side, across a move.
MCWorkloads ==
    {[may |-> [a \in MCAsks |-> IF a = a1 THEN {<<blocked1, "A">>} ELSE {<<blocked2, "A">>}],
      timed |-> {}, moves |-> 0],
     [may |-> [a \in MCAsks |-> IF a = a1 THEN {<<blocked1, "A">>} ELSE {}],
      timed |-> {a1}, moves |-> 1],
     [may |-> [a \in MCAsks |-> {<<blocked1, "AAAA">>}],
      timed |-> {a1}, moves |-> 1]}
MCServed    == {a2}
MCEmpty     == {<<blocked1, "AAAA">>}
MCLies      == [q \in MCQuestions |-> IF q[2] = "A" THEN {"uniform"} ELSE {"sinkhole"}]
MCProbes    == {blocked1, blocked2}
MCRungs     == <<"plain", "enc">>
MCNets      == {home, cafe}
=============================================================================
