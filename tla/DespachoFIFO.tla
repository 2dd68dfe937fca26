---------------------------- MODULE DespachoFIFO ----------------------------
(***************************************************************************)
(* What the Master promises under ALGORITMO_PLANIFICACION=FIFO while its   *)
(* Workers stay up, with neither threads nor semaphores: queries wait in   *)
(* one line, the first of the line goes to a connected Worker that runs    *)
(* nothing, and every query that starts is ended once.                     *)
(***************************************************************************)
EXTENDS Naturals, Sequences

CONSTANTS Queries, Workers, Nada

VARIABLES
  espera,       \* the line
  disponibles,  \* the Workers that are connected
  ejecuta,      \* the query each Worker runs
  terminadas    \* the queries that ended

varsDespacho == <<espera, disponibles, ejecuta, terminadas>>

Init ==
  /\ espera = <<>> /\ disponibles = {} /\ terminadas = {}
  /\ ejecuta = [w \in Workers |-> Nada]

Conocidas == {espera[i] : i \in 1..Len(espera)} \cup terminadas
             \cup {ejecuta[w] : w \in Workers}

Llegar(q) ==
  /\ q \notin Conocidas
  /\ espera' = Append(espera, q)
  /\ UNCHANGED <<disponibles, ejecuta, terminadas>>

Conectar(w) ==
  /\ w \notin disponibles
  /\ disponibles' = disponibles \cup {w}
  /\ UNCHANGED <<espera, ejecuta, terminadas>>

Despachar(w) ==
  /\ w \in disponibles /\ ejecuta[w] = Nada /\ espera # <<>>
  /\ ejecuta' = [ejecuta EXCEPT ![w] = Head(espera)]
  /\ espera' = Tail(espera)
  /\ UNCHANGED <<disponibles, terminadas>>

Terminar(w) ==
  /\ ejecuta[w] # Nada
  /\ terminadas' = terminadas \cup {ejecuta[w]}
  /\ ejecuta' = [ejecuta EXCEPT ![w] = Nada]
  /\ UNCHANGED <<espera, disponibles>>

Next == \/ \E q \in Queries : Llegar(q)
        \/ \E w \in Workers : Conectar(w) \/ Despachar(w) \/ Terminar(w)

Spec == Init /\ [][Next]_varsDespacho

\* A line with a Worker to serve it moves; a query that runs ends.
SpecJusta ==
  /\ Spec
  /\ WF_varsDespacho(\E w \in Workers : Despachar(w))
  /\ \A w \in Workers : WF_varsDespacho(Terminar(w))
=============================================================================
