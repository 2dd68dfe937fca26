------------------------------ MODULE Servicio ------------------------------
(***************************************************************************)
(* What the Master promises to a Query Control: the results of the READs   *)
(* of its own script, in their order and with none missing, then one       *)
(* notice that the query ended; or, if the Worker that runs it goes away,  *)
(* what was read before and one notice that it was cancelled.              *)
(***************************************************************************)
EXTENDS Naturals, Sequences

CONSTANTS
  Queries,
  Datos         \* what a READ may return

VARIABLES
  lecturas,     \* lecturas[q]: the results the script of q reads, in order
  pedidas,      \* the queries submitted
  entregado,    \* entregado[q]: what was forwarded to the Query Control of q
  aviso         \* aviso[q]: the notices of its end

vars == <<lecturas, pedidas, entregado, aviso>>

Init ==
  /\ lecturas \in [Queries -> Seq(Datos)]
  /\ pedidas = {}
  /\ entregado = [q \in Queries |-> <<>>]
  /\ aviso = [q \in Queries |-> <<>>]

Pedir(q) ==
  /\ q \notin pedidas /\ pedidas' = pedidas \cup {q}
  /\ UNCHANGED <<lecturas, entregado, aviso>>

EnCurso(q) == q \in pedidas /\ aviso[q] = <<>>

Entregar(q) ==
  /\ EnCurso(q) /\ Len(entregado[q]) < Len(lecturas[q])
  /\ entregado' = [entregado EXCEPT ![q] =
                     Append(@, lecturas[q][Len(@) + 1])]
  /\ UNCHANGED <<lecturas, pedidas, aviso>>

Finalizar(q) ==
  /\ EnCurso(q) /\ entregado[q] = lecturas[q]
  /\ aviso' = [aviso EXCEPT ![q] = <<"fin">>]
  /\ UNCHANGED <<lecturas, pedidas, entregado>>

Cancelar(q) ==
  /\ EnCurso(q)
  /\ aviso' = [aviso EXCEPT ![q] = <<"cancelada">>]
  /\ UNCHANGED <<lecturas, pedidas, entregado>>

Next == \E q \in Queries : Pedir(q) \/ Entregar(q) \/ Finalizar(q) \/ Cancelar(q)

Spec == Init /\ [][Next]_vars
=============================================================================
