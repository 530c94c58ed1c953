----------------------------- MODULE MCKnowledge -----------------------------
(* Two items of the newcomers' field, one above and one below what a leaver *)
(* hands over, and room for one in a retrieval.                             *)
EXTENDS Knowledge

CONSTANTS k1, k2, field, department

MCDomain == [k \in {k1, k2} |-> field]
MCConfidence == [k \in {k1, k2} |-> IF k = k1 THEN 90 ELSE 60]
=============================================================================
