---------------------------- MODULE MCEscalation ----------------------------
(* One worker under each manager there is. *)
EXTENDS Escalation

CONSTANT w1
=============================================================================
