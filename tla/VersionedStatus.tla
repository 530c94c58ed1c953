--------------------------- MODULE VersionedStatus ---------------------------
(***************************************************************************)
(* What the repository of missions promises to whoever reads them: however *)
(* many writers load and save a mission, its status moves as if they took  *)
(* turns.  It is created once; after that each change of the status is one *)
(* transition of the table and counts one version, and a change that does  *)
(* not move the status does not show.                                      *)
(***************************************************************************)
EXTENDS MissionAggregate

VARIABLES status,   \* of the stored mission, or "NONE"
          version   \* of the stored mission, 0 while there is none

vars == <<status, version>>

Init == status = "NONE" /\ version = 0

Create == status = "NONE" /\ status' = "PENDING" /\ UNCHANGED version

Transition == /\ status \in Status
              /\ \E to \in Status : canTransition(status, to) /\ status' = to
              /\ version' = version + 1

Next == Create \/ Transition

Spec == Init /\ [][Next]_vars
=============================================================================
