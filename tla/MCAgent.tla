------------------------------ MODULE MCAgent ------------------------------
(* An agent that declares a registered and an unregistered tool, with      *)
(* sources of two sizes and two relevances for its context.                *)
EXTENDS Agent

CONSTANTS mail, gone, web, e1, e2

MCResults == LET S(e, r, n) == [sourceId |-> e, relevance |-> r, tokens |-> n]
             IN  {<<S(e1, 2, 3)>>, <<S(e2, 1, 1)>>, <<S(e1, 1, 2), S(e2, 1, 2)>>,
                  <<S(e1, 2, 2), S(e2, 1, 1)>>, <<S(e1, 1, 2), S(e2, 2, 1)>>}
=============================================================================
