--------------------------- MODULE MCPlanificador ---------------------------
(***************************************************************************)
(* Small instances of Planificador for TLC.                                *)
(***************************************************************************)
EXTENDS Planificador, TLC

CONSTANTS q1, q2, q3, w1, w2

\* The first query is the least urgent, the last two tie.
PrioridadesMixtas == [q \in Queries |-> IF q = q1 THEN 2 ELSE 1]
PrioridadesIguales == [q \in Queries |-> 0]

Simetria == Permutations(Workers)
=============================================================================
