------------------------------ MODULE MCCompany ------------------------------
(* Two departments, one of which the CEO addresses along with one that does *)
(* not exist.                                                               *)
EXTENDS Company

CONSTANTS engineering, research, product

MCDepartments == <<engineering, research>>
MCMinStaff == [d \in Dept |-> IF d = engineering THEN 1 ELSE 0]
MCTargets == <<product, engineering>>
=============================================================================
