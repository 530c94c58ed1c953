---------------------------- MODULE MCDepartment ----------------------------
(* A department of two roles that must have one and two workers, with room *)
(* for one more, and two calls in flight.                                  *)
EXTENDS Department

CONSTANTS dev, qa, g1

MCWorkerTypes == <<dev, qa>>
MCMinCount == [r \in Role |-> IF r = qa THEN 2 ELSE 1]
MCMatches == [g \in Goal |-> IF g = g1 THEN {qa} ELSE Role]
=============================================================================
