------------------------------ MODULE MCSesion ------------------------------
(***************************************************************************)
(* An instance of Sesion: query 1 is the more urgent, so query 0 may be    *)
(* asked to leave for it.  Query 0 has results and an END; the script of   *)
(* query 1 has no END, or nothing else.                                    *)
(***************************************************************************)
EXTENDS Sesion

PrioridadesSesion == [q \in Queries |-> IF q = 0 THEN 1 ELSE 0]

DosGuiones(a, b) == [q \in Queries |-> IF q = 0 THEN a ELSE b]
GuionesSesion ==
  {DosGuiones(<<"READ", "READ", "END">>, <<"OTRA">>),
   DosGuiones(<<"READ", "END">>, <<"END">>)}

\* The same two situations in one pair, for the liveness properties.
GuionesAvisos == {DosGuiones(<<"READ", "END">>, <<"OTRA">>)}
=============================================================================
