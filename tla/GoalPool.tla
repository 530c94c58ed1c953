------------------------------ MODULE GoalPool ------------------------------
(***************************************************************************)
(* What a department promises to whoever hands it goals, whatever its      *)
(* calls do to one another: a goal it was given waits or has been taken,   *)
(* by one worker or by several, each of a role that serves it; it leaves   *)
(* the queue only to somebody who takes it, and whoever has taken it has   *)
(* it for good.  A worker keeps the role it was hired for.                 *)
(***************************************************************************)
CONSTANTS Goal, Role, Worker,
          Matches,  \* goal -> the roles that serve it
          None      \* the role of whoever has not been hired

VARIABLES received,  \* goals the department was given
          waiting,   \* those in its queue
          takers,    \* goal -> workers that have taken it
          role       \* worker -> what it was hired as

vars == <<received, waiting, takers, role>>

Init == /\ received = {} /\ waiting = {}
        /\ takers = [g \in Goal |-> {}] /\ role = [w \in Worker |-> None]

Takes(w, g) == /\ role[w] \in Matches[g]
               /\ takers' = [takers EXCEPT ![g] = @ \cup {w}]

\* A goal comes in: somebody takes it at once, or it waits.
Arrive(g) == /\ g \notin received /\ received' = received \cup {g}
             /\ \/ (\E w \in Worker : Takes(w, g)) /\ UNCHANGED waiting
                \/ waiting' = waiting \cup {g} /\ UNCHANGED takers
             /\ UNCHANGED role

\* A goal is handed over, from the queue or once more.
HandOver(g) == /\ g \in received /\ \E w \in Worker : Takes(w, g)
               /\ waiting' \in {waiting, waiting \ {g}}
               /\ UNCHANGED <<received, role>>

Hire(w) == /\ role[w] = None
           /\ \E r \in Role : role' = [role EXCEPT ![w] = r]
           /\ UNCHANGED <<received, waiting, takers>>

Next == (\E g \in Goal : Arrive(g) \/ HandOver(g)) \/ \E w \in Worker : Hire(w)

Spec == Init /\ [][Next]_vars
=============================================================================
