------------------------------- MODULE Sesion -------------------------------
(***************************************************************************)
(* A session of the whole system, as it is seen on the sockets: the Query  *)
(* Control (query_control.c), the threads of the Master that talk to it    *)
(* and to the Workers (master.c, master_planificacion.c), the loop of each *)
(* Worker (worker.c, instrucciones.c) and, from StorageConexiones, what    *)
(* lets a Worker start.                                                    *)
(*                                                                         *)
(* A stream is a sequence of words: an operation code, a size, a length,   *)
(* an int, and one word for each text.  A package is sent by one send, so  *)
(* its words arrive together; who reads them decides what each one means.  *)
(* The interleavings inside a client thread and those of the semaphores    *)
(* are in Planificador: here a turn of a client thread is one step, and a  *)
(* turn of the planner is two, the assignment and the send.                *)
(***************************************************************************)
EXTENDS StorageConexiones, Integers, Sequences

CONSTANTS
  Queries,         \* qids, 0, 1, ..: a Query Control submits one query
  Guiones,         \* the scripts the paths may name, one per query
  Algoritmo,       \* ALGORITMO_PLANIFICACION; TIEMPO_AGING is 0
  Prioridad,       \* Prioridad[q]: 0 is the most urgent
  LecturasFallan,  \* whether Storage may refuse a READ
  Mortales         \* bound: the Workers that may die while they serve

Lineas == {"READ", "OTRA", "END"}   \* OTRA tells the Master nothing

ASSUME SupuestosSesion ==
  /\ IsFiniteSet(Queries) /\ Queries = 0..(Cardinality(Queries) - 1)
  /\ Nadie \notin Queries
  /\ Workers \subseteq Nat /\ Workers \cap Queries = {}
  /\ Guiones \subseteq [Queries -> Seq(Lineas) \ {<<>>}] /\ Prioridad \in [Queries -> Nat]
  /\ Algoritmo \in {"FIFO", "PRIORIDADES"} /\ LecturasFallan \in BOOLEAN
  /\ Mortales \subseteq Workers

VARIABLES
  guion,           \* guion[q]: the script its path names
  cola,            \* colaReadyFIFO
  conectados,      \* listaWorkersConectados; the thread of each is in its loop
  ejecutando,      \* worker->ejecutando; a Worker is libre when it is NULL
  qPlan, wPlan,    \* the query and the Worker the planner holds, or Nadie
  hiloQ,           \* hiloQ[q]: where the thread of q is in verificar_desalojo
  mejor, peor, workerPeor,  \* its locals there
  qc,              \* qc[q]: the Query Control process
  fase,            \* fase[w]: where the Worker process is
  qActual, linea,  \* the query whose script it runs, its next line
  desalojado, query_cancelada,    \* the flags of the Worker
  aWorker, aMaster, aQC,          \* the streams: to w, from w, to the client of q
  cortado,         \* the clients whose socket the Master has closed
  reenviadas, avisos  \* history: what the Master sent to the client of q

varsPlan     == <<qPlan, wPlan>>
varsMaster   == <<cola, conectados, ejecutando, varsPlan>>
varsDesalojo == <<hiloQ, mejor, peor, workerPeor>>
varsWorker   == <<fase, qActual, linea, desalojado, query_cancelada>>
varsCliente  == <<qc, aQC, reenviadas, avisos>>

vars == <<varsStorage, guion, varsMaster, varsDesalojo, varsWorker,
          varsCliente, aWorker, aMaster, cortado>>

PasosQC     == {"fuera", "espera", "finalizada", "cerrada"}
PasosHiloQ  == {"fuera", "mirar", "buscar", "pedir", "loop"}
PasosWorker == {"arranque", "escucha", "ejecuta", "perdido", "fuera"}

Init ==
  /\ InitStorage
  /\ guion \in Guiones
  /\ cola = <<>> /\ conectados = {}
  /\ ejecutando = [w \in Workers |-> Nadie] /\ qPlan = Nadie /\ wPlan = Nadie
  /\ hiloQ = [q \in Queries |-> "fuera"]
  /\ mejor = [q \in Queries |-> Nadie] /\ peor = [q \in Queries |-> Nadie]
  /\ workerPeor = [q \in Queries |-> Nadie]
  /\ qc = [q \in Queries |-> "fuera"]
  /\ fase = [w \in Workers |-> "arranque"]
  /\ qActual = [w \in Workers |-> Nadie] /\ linea = [w \in Workers |-> 0]
  /\ desalojado = [w \in Workers |-> FALSE]
  /\ query_cancelada = [w \in Workers |-> FALSE]
  /\ aWorker = [w \in Workers |-> <<>>] /\ aMaster = [w \in Workers |-> <<>>]
  /\ aQC = [q \in Queries |-> <<>>]
  /\ cortado = {}
  /\ reenviadas = [q \in Queries |-> <<>>] /\ avisos = [q \in Queries |-> <<>>]

-----------------------------------------------------------------------------
(***************************************************************************)
(* Words and packages: protocolo.h and hello.c.                            *)
(***************************************************************************)
OP_MENSAJE            == 0
OP_ENVIAR_PATH        == 1
OP_DESALOJAR_QUERY    == 301
OP_QUERY_DESALOJADA   == 302
OP_QUERY_DESCONECTADA == 304
OP_FIN_QUERY          == 500
OP_RESP_READ_OK       == 1020
OP_RESP_READ_ERR      == 1021

TEXTO == 1000000              \* a path, a File:Tag or a message
Dato(q, n) == TEXTO + 100 * (q + 1) + n   \* what line n of the script of q read

\* crear_paquete, agregar_a_paquete, serializar_paquete: the code, the size in
\* bytes, and each field behind its length.
Paquete(op, campos) ==
  <<op, 8 * Len(campos)>> \o
  [i \in 1..(2 * Len(campos)) |-> IF i % 2 = 1 THEN 4 ELSE campos[i \div 2]]

\* recibir_paquete on a stream whose code was read: what a package of n fields
\* looks like, its fields, and the stream behind it.  (Fault: the last field
\* is left behind.)
EsPaquete(s, n) ==
  /\ Len(s) > 2 * n /\ s[1] = 8 * n
  /\ \A i \in 1..n : s[2 * i] = 4
Campo(s, i) == s[2 * i + 1]
TrasPaqueteCorto(s, n) == SubSeq(s, 2 * n, Len(s))
TrasPaquete(s, n)      == SubSeq(s, 2 * n + 2, Len(s))

\* recibir_operacion: -1 when the other end is closed and all was read.
recibir_operacion(s) == IF s = <<>> THEN -1 ELSE Head(s)

-----------------------------------------------------------------------------
(***************************************************************************)
(* The Master and its Query Controls.                                      *)
(***************************************************************************)

\* list_add and, under PRIORIDADES, list_sort of a sorted list: q is the newest
\* and goes behind those that are not less urgent.
Antes(q) == Cardinality({i \in 1..Len(cola) : Prioridad[cola[i]] =< Prioridad[q]})
Insertar(q) ==
  IF Algoritmo = "FIFO" THEN Append(cola, q)
  ELSE SubSeq(cola, 1, Antes(q)) \o <<q>> \o SubSeq(cola, Antes(q) + 1, Len(cola))

\* A Query Control connects and submits; its thread creates the query with the
\* next qid, puts it in READY and, under PRIORIDADES, calls verificar_desalojo.
LlegaQuery(q) ==
  /\ qc[q] = "fuera" /\ \A p \in 0..(q - 1) : qc[p] # "fuera"
  /\ qc' = [qc EXCEPT ![q] = "espera"]
  /\ cola' = Insertar(q)
  /\ hiloQ' = [hiloQ EXCEPT ![q] =
                 IF Algoritmo = "PRIORIDADES" THEN "mirar" ELSE "loop"]
  /\ UNCHANGED <<varsStorage, guion, conectados, ejecutando, varsPlan, mejor,
                 peor, workerPeor, varsWorker, aQC, reenviadas, avisos, aWorker,
                 aMaster, cortado>>

\* verificar_desalojo, cut where its locks are released: the best of READY,
\* the worst that runs and its Worker, the order.
MirarMejor(q) ==
  /\ hiloQ[q] = "mirar"
  /\ hiloQ' = [hiloQ EXCEPT ![q] = IF cola = <<>> THEN "loop" ELSE "buscar"]
  /\ mejor' = [mejor EXCEPT ![q] = IF cola = <<>> THEN Nadie ELSE Head(cola)]
  /\ UNCHANGED <<varsStorage, guion, varsMaster, peor, workerPeor, varsWorker,
                 varsCliente, aWorker, aMaster, cortado>>

Ocupados == {w \in conectados : ejecutando[w] # Nadie}

\* (Fault: it does not see that no query runs.)
PeorDe(q, sinPeor) ==
  /\ hiloQ[q] = "buscar"
  /\ IF Ocupados = {} THEN /\ hiloQ' = [hiloQ EXCEPT ![q] = sinPeor]
                           /\ mejor' = [mejor EXCEPT ![q] = Nadie]
                           /\ UNCHANGED <<peor, workerPeor>>
     ELSE \E w \in Ocupados :
            /\ \A v \in Ocupados :
                 Prioridad[ejecutando[v]] =< Prioridad[ejecutando[w]]
            /\ hiloQ' = [hiloQ EXCEPT ![q] = "pedir"]
            /\ peor' = [peor EXCEPT ![q] = ejecutando[w]]
            /\ workerPeor' = [workerPeor EXCEPT ![q] = w]
            /\ UNCHANGED mejor
  /\ UNCHANGED <<varsStorage, guion, varsMaster, varsWorker, varsCliente,
                 aWorker, aMaster, cortado>>
PeorSinMirar(q) == PeorDe(q, "pedir")
buscar_peor_query_en_ejecucion(q) == PeorDe(q, "loop")

\* What is sent to a Worker that is gone, or whose socket is closed, is lost.
Alcanza(w)     == w \notin cortado /\ fase[w] # "fuera"
AlWorker(w, s) == aWorker' = [aWorker EXCEPT ![w] = IF Alcanza(w) THEN @ \o s ELSE @]

\* The queries it compares may have ended since, and the Worker may run
\* another.
PedirDesalojo(q) ==
  /\ hiloQ[q] = "pedir"
  /\ IF Prioridad[mejor[q]] < Prioridad[peor[q]]
     THEN AlWorker(workerPeor[q], Paquete(OP_DESALOJAR_QUERY, <<peor[q]>>))
     ELSE UNCHANGED aWorker
  /\ hiloQ' = [hiloQ EXCEPT ![q] = "loop"]
  /\ mejor' = [mejor EXCEPT ![q] = Nadie] /\ peor' = [peor EXCEPT ![q] = Nadie]
  /\ workerPeor' = [workerPeor EXCEPT ![q] = Nadie]
  /\ UNCHANGED <<varsStorage, guion, varsMaster, varsWorker, varsCliente,
                 aMaster, cortado>>

PasoHiloQ(q) ==
  MirarMejor(q) \/ buscar_peor_query_en_ejecucion(q) \/ PedirDesalojo(q)

\* The planner gives the first of READY to a free Worker ...  (Fault: it is
\* looked at, not removed.)
DejarEnCola(s)  == s
QuitarDeCola(s) == Tail(s)
Asignar(w) ==
  /\ qPlan = Nadie
  /\ cola # <<>> /\ w \in conectados /\ ejecutando[w] = Nadie
  /\ qPlan' = Head(cola) /\ wPlan' = w
  /\ cola' = QuitarDeCola(cola)
  /\ ejecutando' = [ejecutando EXCEPT ![w] = Head(cola)]
  /\ UNCHANGED <<varsStorage, guion, conectados, varsDesalojo, varsWorker,
                 varsCliente, aWorker, aMaster, cortado>>

\* ... and sends it its path, whatever became of both since: the pc is 0, as
\* OP_QUERY_DESALOJADA never comes (OrdenViejaNoAlcanza).  To a Worker that
\* died and was not seen to, the send may succeed and be lost.
EnviarPath ==
  /\ qPlan # Nadie /\ wPlan \notin cortado
  /\ AlWorker(wPlan, Paquete(OP_ENVIAR_PATH, <<qPlan, 0, TEXTO>>))
  /\ qPlan' = Nadie /\ wPlan' = Nadie
  /\ UNCHANGED <<varsStorage, guion, cola, conectados, ejecutando, varsDesalojo,
                 varsWorker, varsCliente, aMaster, cortado>>

\* Or the send fails, and the query goes back to the head of READY, though it
\* stays with the Worker if that is still listed, and may have been cancelled
\* and freed with it if it is not.
EnvioFallido ==
  /\ qPlan # Nadie /\ ~Alcanza(wPlan)
  /\ cola' = <<qPlan>> \o cola
  /\ qPlan' = Nadie /\ wPlan' = Nadie
  /\ UNCHANGED <<varsStorage, guion, conectados, ejecutando, varsDesalojo,
                 varsWorker, varsCliente, aWorker, aMaster, cortado>>

planificador_fifo == (\E w \in Workers : Asignar(w)) \/ EnviarPath \/ EnvioFallido

-----------------------------------------------------------------------------
(***************************************************************************)
(* The Master and its Workers: the loop of atender_cliente.                *)
(***************************************************************************)

\* Once it has the block size a Worker opens its connection to the Master,
\* which lists it.
ConectarMaster(w) ==
  /\ fase[w] = "arranque" /\ enlace[w] = "conectado"
  /\ fase' = [fase EXCEPT ![w] = "escucha"]
  /\ conectados' = conectados \cup {w}
  /\ UNCHANGED <<varsStorage, guion, cola, ejecutando, varsPlan, varsDesalojo,
                 qActual, linea, desalojado, query_cancelada, varsCliente,
                 aWorker, aMaster, cortado>>

\* What is sent to a Query Control that is gone is lost.  Once the query has
\* ended its socketQuery is -1, and nothing is sent.  (Fault: it keeps the
\* number of the descriptor it closed.)
SinBorrarSocket(q) == TRUE
SocketAbierto(q)   == q \notin cortado
AlCliente(q, s) == aQC' = [aQC EXCEPT ![q] = IF qc[q] = "espera" THEN @ \o s ELSE @]

\* enviar_fin_query: the notice, and the connection is closed.  The query is
\* freed; who still holds it reads it as it was.
enviar_fin_query(q, motivo) ==
  IF SocketAbierto(q)
  THEN /\ AlCliente(q, Paquete(OP_FIN_QUERY, <<TEXTO>>))
       /\ avisos' = [avisos EXCEPT ![q] = Append(@, motivo)]
  ELSE UNCHANGED <<aQC, avisos>>

\* OP_RESP_READ_OK: its third field goes to the Query Control, as OP_MENSAJE,
\* while the Worker has a query; the package is consumed in any case.
RecibirLectura(w) ==
  LET s == Tail(aMaster[w])   q == ejecutando[w] IN
  /\ w \in conectados /\ recibir_operacion(aMaster[w]) = OP_RESP_READ_OK
  /\ EsPaquete(s, 3)
  /\ aMaster' = [aMaster EXCEPT ![w] = TrasPaquete(s, 3)]
  /\ IF q # Nadie /\ SocketAbierto(q)
     THEN /\ AlCliente(q, Paquete(OP_MENSAJE, <<Campo(s, 3)>>))
          /\ reenviadas' = [reenviadas EXCEPT ![q] = Append(@, Campo(s, 3))]
     ELSE UNCHANGED <<aQC, reenviadas>>
  /\ UNCHANGED <<varsStorage, guion, varsMaster, varsDesalojo, varsWorker, qc,
                 avisos, aWorker, cortado>>

\* OP_FIN_QUERY: heeded if it names the query the Worker has.
registrar_worker_libre(w) == ejecutando' = [ejecutando EXCEPT ![w] = Nadie]
RecibirFin(w) ==
  LET s == Tail(aMaster[w])   q == ejecutando[w] IN
  /\ w \in conectados /\ recibir_operacion(aMaster[w]) = OP_FIN_QUERY
  /\ EsPaquete(s, 1)
  /\ aMaster' = [aMaster EXCEPT ![w] = TrasPaquete(s, 1)]
  /\ IF q # Nadie /\ q = Campo(s, 1)
     THEN /\ registrar_worker_libre(w)
          /\ enviar_fin_query(q, "fin") /\ cortado' = cortado \cup {q}
     ELSE UNCHANGED <<ejecutando, aQC, avisos, cortado>>
  /\ UNCHANGED <<varsStorage, guion, cola, conectados, varsPlan, varsDesalojo,
                 varsWorker, qc, reenviadas, aWorker>>

\* Any other code, OP_RESP_READ_ERR among them: only the code is consumed.
RecibirDesconocida(w) ==
  /\ w \in conectados /\ recibir_operacion(aMaster[w]) > 0
  /\ Head(aMaster[w]) \notin {OP_RESP_READ_OK, OP_FIN_QUERY, OP_QUERY_DESALOJADA}
  /\ aMaster' = [aMaster EXCEPT ![w] = Tail(@)]
  /\ UNCHANGED <<varsStorage, guion, varsMaster, varsDesalojo, varsWorker,
                 varsCliente, aWorker, cortado>>

\* A code that is not positive, or the end of the stream: the Worker is gone
\* for the Master, its query is cancelled and its socket closed.  (Fault: its
\* Query Control is not told.)
SinCancelar(q) == UNCHANGED <<aQC, avisos>>
Cancelar(q)    == enviar_fin_query(q, "cancelada")
manejar_desconexion_worker(w) ==
  /\ w \in conectados /\ recibir_operacion(aMaster[w]) =< 0
  /\ aMaster[w] = <<>> => fase[w] = "fuera"
  /\ conectados' = conectados \ {w}
  /\ ejecutando' = [ejecutando EXCEPT ![w] = Nadie]
  /\ aMaster' = [aMaster EXCEPT ![w] = <<>>]
  /\ IF ejecutando[w] = Nadie
     THEN cortado' = cortado \cup {w} /\ UNCHANGED <<aQC, avisos>>
     ELSE /\ Cancelar(ejecutando[w])
          /\ cortado' = cortado \cup {w, ejecutando[w]}
  /\ UNCHANGED <<varsStorage, guion, cola, varsPlan, varsDesalojo, varsWorker,
                 qc, reenviadas, aWorker>>

AtenderWorker(w) ==
  \/ RecibirLectura(w) \/ RecibirFin(w) \/ RecibirDesconocida(w)
  \/ manejar_desconexion_worker(w)

-----------------------------------------------------------------------------
(***************************************************************************)
(* The Worker process: the loop of main and procesar_query.                *)
(***************************************************************************)

Escucha(w, codigos) ==
  fase[w] = "escucha" /\ aWorker[w] # <<>> /\ recibir_operacion(aWorker[w]) \in codigos

\* OP_ENVIAR_PATH: the flags are cleared and the script starts.  On anything
\* but its three fields list_get returns NULL or the stream loses its words.
\* (Fault: the flags are not cleared.)
SinBajarBanderas(w) == UNCHANGED <<desalojado, query_cancelada>>
BajarBanderas(w) ==
  /\ desalojado' = [desalojado EXCEPT ![w] = FALSE]
  /\ query_cancelada' = [query_cancelada EXCEPT ![w] = FALSE]
\* procesar_query skips the lines before pc; none when pc is 0.  (Fault: it
\* skips one more.)
SaltearDeMas(pc) == IF pc > 0 THEN pc + 1 ELSE 2
PrimeraLinea(pc) == IF pc > 0 THEN pc ELSE 1
RecibirQuery(w) ==
  LET s == Tail(aWorker[w]) IN
  /\ Escucha(w, {OP_ENVIAR_PATH}) /\ s # <<>>
  /\ IF EsPaquete(s, 3)
     THEN /\ BajarBanderas(w)
          /\ qActual' = [qActual EXCEPT ![w] = Campo(s, 1)]
          /\ linea' = [linea EXCEPT ![w] = PrimeraLinea(Campo(s, 2))]
          /\ fase' = [fase EXCEPT ![w] = "ejecuta"]
          /\ aWorker' = [aWorker EXCEPT ![w] = TrasPaquete(s, 3)]
     ELSE /\ fase' = [fase EXCEPT ![w] = "perdido"]
          /\ UNCHANGED <<qActual, linea, desalojado, query_cancelada, aWorker>>
  /\ UNCHANGED <<varsStorage, guion, varsMaster, varsDesalojo, varsCliente,
                 aMaster, cortado>>

\* OP_DESALOJAR_QUERY and OP_QUERY_DESCONECTADA: a flag, and one int is read,
\* though what comes is a package.
RecibirOrden(w) ==
  /\ Escucha(w, {OP_DESALOJAR_QUERY, OP_QUERY_DESCONECTADA})
  /\ Len(aWorker[w]) > 1
  /\ desalojado' = [desalojado EXCEPT ![w] =
                      @ \/ Head(aWorker[w]) = OP_DESALOJAR_QUERY]
  /\ query_cancelada' = [query_cancelada EXCEPT ![w] =
                      @ \/ Head(aWorker[w]) = OP_QUERY_DESCONECTADA]
  /\ aWorker' = [aWorker EXCEPT ![w] = Tail(Tail(@))]
  /\ UNCHANGED <<varsStorage, guion, varsMaster, varsDesalojo, fase, qActual,
                 linea, varsCliente, aMaster, cortado>>

\* default: the word is dropped.  OP_REANUDAR_QUERY (303) is never sent; only
\* the qid of a 304th query could be read as one (QidsBajos), and that is out.
RecibirInesperado(w) ==
  /\ fase[w] = "escucha" /\ aWorker[w] # <<>>
  /\ Head(aWorker[w]) \notin {OP_ENVIAR_PATH, OP_DESALOJAR_QUERY, OP_QUERY_DESCONECTADA}
  /\ aWorker' = [aWorker EXCEPT ![w] = Tail(@)]
  /\ UNCHANGED <<varsStorage, guion, varsMaster, varsDesalojo, varsWorker,
                 varsCliente, aMaster, cortado>>

\* The process ends, and the kernel closes its connections.
Salir(w) ==
  /\ CerrarEnlace(w)
  /\ fase' = [fase EXCEPT ![w] = "fuera"]
  /\ qActual' = [qActual EXCEPT ![w] = Nadie]
  /\ linea' = [linea EXCEPT ![w] = 0]
  /\ aWorker' = [aWorker EXCEPT ![w] = <<>>]
  /\ desalojado' = [desalojado EXCEPT ![w] = FALSE]
  /\ query_cancelada' = [query_cancelada EXCEPT ![w] = FALSE]
  /\ UNCHANGED <<guion, varsMaster, varsDesalojo, varsCliente, aMaster, cortado>>

\* case -1: the Master closed, and what it sent before was read.
RecibirCierre(w) ==
  /\ fase[w] = "escucha" /\ aWorker[w] = <<>> /\ w \in cortado
  /\ Salir(w)

\* It gives up while it starts, dies of a package it misread or of writing to
\* a socket the Master closed, or at any other time.
Morir(w) ==
  /\ \/ fase[w] \in {"arranque", "perdido"}
     \/ fase[w] = "ejecuta" /\ w \in cortado
     \/ fase[w] \in {"escucha", "ejecuta"} /\ w \in Mortales
  /\ Salir(w)

\* What an instruction of the script may send to the Master.
Emite(w, instruccion) ==
  CASE instruccion = "READ" ->
         {Paquete(OP_RESP_READ_OK, <<TEXTO, 4, Dato(qActual[w], linea[w])>>)}
         \cup (IF LecturasFallan THEN {Paquete(OP_RESP_READ_ERR, <<>>)} ELSE {})
    [] instruccion = "END" -> {Paquete(OP_FIN_QUERY, <<qActual[w]>>)}
    [] OTHER -> {<<>>}

\* What is sent to a Master that closed the connection is lost.
AlMaster(w, s) ==
  aMaster' = [aMaster EXCEPT ![w] = IF w \in cortado THEN @ ELSE @ \o s]

\* One line of procesar_query: the instruction, then the flag of preemption (pc
\* is a size_t, two words), then the next line or the end of the file, with an
\* END in it or not.  A cancelled query stops before its next line.
ciclo_instruccion(w) ==
  LET script == guion[qActual[w]]
      ultima == query_cancelada[w] \/ linea[w] = Len(script) IN
  /\ fase[w] = "ejecuta"
  /\ IF query_cancelada[w] THEN UNCHANGED aMaster
     ELSE \E s \in Emite(w, script[linea[w]]) :
            AlMaster(w, IF desalojado[w]
                        THEN s \o <<OP_QUERY_DESALOJADA, 20, 4, qActual[w],
                                    8, linea[w] + 1, 0>>
                        ELSE s)
  /\ fase' = [fase EXCEPT ![w] = IF ultima THEN "escucha" ELSE @]
  /\ qActual' = [qActual EXCEPT ![w] = IF ultima THEN Nadie ELSE @]
  /\ linea' = [linea EXCEPT ![w] = IF ultima THEN 0 ELSE @ + 1]
  /\ UNCHANGED <<varsStorage, guion, varsMaster, varsDesalojo, desalojado,
                 query_cancelada, varsCliente, aWorker, cortado>>

PasoWorker(w) ==
  \/ RecibirQuery(w) \/ RecibirOrden(w) \/ RecibirInesperado(w)
  \/ RecibirCierre(w) \/ ciclo_instruccion(w)

-----------------------------------------------------------------------------
(***************************************************************************)
(* The Query Control.                                                      *)
(***************************************************************************)

\* One turn of its loop.  OP_MENSAJE is 0, and the loop takes a code that is
\* not positive for the end of the connection.
LeerQC(q) ==
  LET op == recibir_operacion(aQC[q]) IN
  /\ qc[q] = "espera" /\ (aQC[q] # <<>> \/ q \in cortado)
  /\ qc' = [qc EXCEPT ![q] = IF op = OP_FIN_QUERY THEN "finalizada" ELSE
                             IF op =< 0 THEN "cerrada" ELSE "espera"]
  /\ aQC' = [aQC EXCEPT ![q] = IF op = OP_FIN_QUERY \/ op =< 0 THEN <<>> ELSE Tail(@)]
  /\ UNCHANGED <<varsStorage, guion, varsMaster, varsDesalojo, varsWorker,
                 reenviadas, avisos, aWorker, aMaster, cortado>>

-----------------------------------------------------------------------------
varsResto == <<guion, varsMaster, varsDesalojo, varsWorker, varsCliente,
               aWorker, aMaster, cortado>>

\* A Worker starts; they are numbered in the order they do.
ArrancarWorker(w) ==
  /\ \A v \in Workers : v < w => enlace[v] # "sin_conectar"
  /\ PedirTamBloque(w) /\ UNCHANGED varsResto
PasoStorage(w) == PasoHilo(w) /\ UNCHANGED varsResto

Next ==
  \/ \E w \in Workers :
       \/ ArrancarWorker(w) \/ PasoStorage(w) \/ ConectarMaster(w) \/ Morir(w)
       \/ AtenderWorker(w) \/ PasoWorker(w)
  \/ planificador_fifo
  \/ \E q \in Queries : LlegaQuery(q) \/ PasoHiloQ(q) \/ LeerQC(q)

\* The threads that serve a Worker, its process and the planner keep running.
\* Nothing is assumed of arrivals, of the start of a Worker or its death, nor of
\* the Query Controls and their threads, which no Worker waits for.
Justicia ==
  /\ \A w \in Workers : /\ WF_vars(PasoStorage(w)) /\ WF_vars(AtenderWorker(w))
                        /\ WF_vars(PasoWorker(w))
  /\ WF_vars(planificador_fifo)

Spec == Init /\ [][Next]_vars /\ Justicia

-----------------------------------------------------------------------------
(***************************************************************************)
(* What the Master promises to its clients: Servicio.                      *)
(***************************************************************************)

\* The READs of q up to line n, and what they read: the i-th is behind the
\* lines up to which there are fewer than i.
Leidas(q, n)  == Cardinality({m \in 1..n : guion[q][m] = "READ"})
LecturasDe(q) ==
  [i \in 1..Leidas(q, Len(guion[q])) |->
     Dato(q, 1 + Cardinality({n \in DOMAIN guion[q] : Leidas(q, n) < i}))]

S == INSTANCE Servicio WITH
       Datos     <- Nat,
       lecturas  <- [q \in Queries |-> LecturasDe(q)],
       pedidas   <- {q \in Queries : qc[q] # "fuera"},
       entregado <- reenviadas,
       aviso     <- avisos

-----------------------------------------------------------------------------
(* Properties. *)

TypeOK ==
  /\ TypeOKStorage
  /\ guion \in Guiones /\ cola \in Seq(Queries)
  /\ conectados \subseteq Workers /\ cortado \subseteq Workers \cup Queries
  /\ ejecutando \in [Workers -> Queries \cup {Nadie}]
  /\ qPlan \in Queries \cup {Nadie} /\ wPlan \in Workers \cup {Nadie}
  /\ qPlan # Nadie <=> wPlan # Nadie
  /\ qActual \in [Workers -> Queries \cup {Nadie}] /\ linea \in [Workers -> Nat]
  /\ hiloQ \in [Queries -> PasosHiloQ] /\ qc \in [Queries -> PasosQC]
  /\ fase \in [Workers -> PasosWorker]
  /\ \A q \in Queries :
       /\ mejor[q] # Nadie <=> hiloQ[q] \in {"buscar", "pedir"}
       /\ peor[q] # Nadie <=> hiloQ[q] = "pedir"
       /\ workerPeor[q] # Nadie <=> hiloQ[q] = "pedir"

\* The Master and a Worker it holds agree on the query that runs, from the
\* turn that starts it until its END (RecibirQuery, Asignar, RecibirFin);
\* and no query runs on two Workers.
MismaQuery ==
  \A w \in Workers : fase[w] = "ejecuta" =>
    /\ w \in conectados /\ (\E n \in linea[w]..Len(guion[qActual[w]]) :
                              guion[qActual[w]][n] = "END")
         => ejecutando[w] = qActual[w]
    /\ \A v \in Workers \ {w} : qActual[v] # qActual[w]

\* An order to leave that is read after its query ended (worker.c:256) does
\* not reach the next one: no query runs with a flag up.
OrdenViejaNoAlcanza ==
  \A w \in Workers : fase[w] = "ejecuta" => ~desalojado[w] /\ ~query_cancelada[w]

\* The words that are read as a code without being one: the size 0 of an
\* OP_RESP_READ_ERR at the Master, and at the Worker the length and the qid
\* of an OP_DESALOJAR_QUERY.
RestosConocidos ==
  \A w \in Workers :
    /\ aMaster[w] # <<>> =>
         Head(aMaster[w]) \in {OP_RESP_READ_OK, OP_RESP_READ_ERR, OP_FIN_QUERY, 0}
    /\ fase[w] = "escucha" /\ aWorker[w] # <<>> =>
         Head(aWorker[w]) \in {OP_ENVIAR_PATH, OP_DESALOJAR_QUERY, 4} \cup Queries

\* What is forwarded to each Query Control is what its own script read, in
\* order, then one notice; a cancelled query gets a prefix and one notice,
\* also when the planner puts it back in READY and it runs again.
ImplementaServicio == S!Spec

\* A Worker that can take another query: listed, its stream understood, and
\* not held by a script with no END.
Sirve(w) ==
  /\ w \in conectados /\ fase[w] \in {"escucha", "ejecuta"}
  /\ ejecutando[w] # Nadie => \E n \in DOMAIN guion[ejecutando[w]] :
                               guion[ejecutando[w]][n] = "END"

\* If from some moment on there is always such a Worker, every query whose
\* script has an END gets its notice, in spite of the Workers that are cut
\* (master.c:441), lost or held by a script with no END (instrucciones.c:220).
TodasAvisadas ==
  \A q \in Queries :
    <>[](\E w \in Workers : Sirve(w)) =>
      (qc[q] # "fuera" /\ (\E n \in DOMAIN guion[q] : guion[q][n] = "END")
         ~> avisos[q] # <<>>)

\* master_query.c:180, "Query %d movida a EXIT y removida de listas": a query
\* whose client was told its end is not waiting in READY.  A Worker that dies
\* between an assignment and its send breaks it (README.md): no run checks it.
FinalizadaNoVuelve ==
  \A q \in Queries : avisos[q] # <<>> => \A i \in 1..Len(cola) : cola[i] # q

\* query_control.c:69, "Conexión cerrada por el Master": a Query Control says
\* so only when the Master closed its connection.
CierreEsCierre == \A q \in Queries : qc[q] = "cerrada" => q \in cortado
=============================================================================
