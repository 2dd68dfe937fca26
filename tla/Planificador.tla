---------------------------- MODULE Planificador ----------------------------
(***************************************************************************)
(* The scheduler of the Master: master/src/master_planificacion.c and the  *)
(* parts of master/src/master.c that feed it.                              *)
(*                                                                         *)
(* Threads: the planner (planificador_fifo), the aging thread              *)
(* (aging_ready), one client thread (atender_cliente) per Query Control    *)
(* and one per Worker.  They share the READY queue, the list of connected  *)
(* Workers, the queries they point to and two counting semaphores.  A      *)
(* section under one mutex is one step; an access without a mutex, and     *)
(* every semaphore operation, is a step of its own.                        *)
(*                                                                         *)
(* A member of Workers is the address of a t_worker: it is freed when the  *)
(* connection ends and malloc may hand it out again, so a pointer the      *)
(* planner kept across the free is a pointer to the next connection.  A    *)
(* member of Queries is one t_query, never reused.                         *)
(*                                                                         *)
(* verificar_desalojo only sends a message; its steps are in Sesion.       *)
(* The SIGPIPE that a write to a reset socket raises ends the Master, that *)
(* is, the behaviour; sending is modelled by its other outcomes.           *)
(***************************************************************************)
EXTENDS Naturals, Sequences, FiniteSets

CONSTANTS
  Queries,           \* queries that may be submitted, one Query Control each
  Workers,           \* addresses of t_worker blocks
  Nada,              \* NULL
  Algoritmo,         \* ALGORITMO_PLANIFICACION
  ConAging,          \* TIEMPO_AGING > 0
  PrioridadInicial,  \* the priority each query is submitted with
  WorkersDesalojan,  \* the Workers answer OP_QUERY_DESALOJADA
  MaxPc,             \* bound on the pc a preempted query reports
  MaxCaidas          \* bound on the Worker processes that die

ASSUME SupuestosPlanificador ==
  /\ IsFiniteSet(Queries) /\ IsFiniteSet(Workers)
  /\ Nada \notin Queries /\ Nada \notin Workers
  /\ Algoritmo \in {"FIFO", "PRIORIDADES"}
  /\ ConAging \in BOOLEAN /\ WorkersDesalojan \in BOOLEAN
  /\ PrioridadInicial \in [Queries -> Nat]
  /\ MaxPc \in Nat /\ MaxCaidas \in Nat

VARIABLES
  \* the READY queue and the semaphores
  cola, semQueries, semWorkers,
  \* the fields of each t_query
  estado, workerAsignado, prioridad, qid, pc, nextQid,
  \* listaWorkersConectados and the fields of each t_worker
  conectados, libre, ejecutando,
  \* where each thread is, and the pointers it holds in local variables
  plan, qPlan, wPlan, hiloQ, hiloW, local,
  \* the Worker processes: alive, and the queries sent to each
  vivo, canal,
  \* history: how often enviar_fin_query ran on a query; Workers that died
  fines, caidas

varsCola    == <<cola, semQueries>>
varsQuery   == <<estado, workerAsignado, prioridad, qid, pc, nextQid>>
varsWorker  == <<conectados, libre, ejecutando>>
varsPlan    == <<plan, qPlan, wPlan>>
varsProceso == <<vivo, canal, caidas>>
varsHilos   == <<hiloQ, hiloW, local>>

vars == <<varsCola, semWorkers, varsQuery, varsWorker, varsPlan, varsHilos,
          varsProceso, fines>>

PasosQuery  == {"fuera", "creada", "encolada", "atendida", "cerrada"}
PasosWorker == {"fuera", "alta", "loop", "caida",
                "fin_libre", "fin_post", "fin_enviar",
                "des_libre", "des_post", "des_encolar", "des_postq"}
PasosPlan   == {"esperaQuery", "esperaWorker", "sacar", "buscar", "asignar",
                "enviar", "reencolar", "postQuery", "postWorker"}

Init ==
  /\ cola = <<>> /\ semQueries = 0 /\ semWorkers = 0
  /\ estado = [q \in Queries |-> "NUEVA"]
  /\ workerAsignado = [q \in Queries |-> Nada]
  /\ prioridad = PrioridadInicial
  /\ qid = [q \in Queries |-> 0] /\ nextQid = 0
  /\ pc = [q \in Queries |-> 0]
  /\ conectados = {}
  /\ libre = [w \in Workers |-> FALSE]
  /\ ejecutando = [w \in Workers |-> Nada]
  /\ plan = "esperaQuery" /\ qPlan = Nada /\ wPlan = Nada
  /\ hiloQ = [q \in Queries |-> "fuera"]
  /\ hiloW = [w \in Workers |-> "fuera"]
  /\ local = [w \in Workers |-> Nada]
  /\ vivo = [w \in Workers |-> FALSE]
  /\ canal = [w \in Workers |-> <<>>]
  /\ fines = [q \in Queries |-> 0]
  /\ caidas = 0

-----------------------------------------------------------------------------
(***************************************************************************)
(* The READY queue.                                                        *)
(***************************************************************************)

\* a is more urgent than b under the priorities p: the smaller number, then
\* the older query.  (Fault: the newer query wins a tie.)
MasNuevaPrimero(p, a, b) ==
  p[a] < p[b] \/ (p[a] = p[b] /\ qid[a] > qid[b])
comparar_prioridad(p, a, b) ==
  p[a] < p[b] \/ (p[a] = p[b] /\ qid[a] < qid[b])

\* t lists the elements of s, each as often as s does.
EsPermutacion(s, t) ==
  \A q \in Queries : Cardinality({i \in 1..Len(s) : s[i] = q})
                   = Cardinality({i \in 1..Len(t) : t[i] = q})

Ordenada(s, p) ==
  \A i, j \in 1..Len(s) : i < j => ~comparar_prioridad(p, s[j], s[i])

\* What list_sort may leave of s (one list: qids differ).
Ordenaciones(s, p) ==
  {t \in [1..Len(s) -> Queries] : EsPermutacion(s, t) /\ Ordenada(t, p)}

\* sem_post on each semaphore; the Sin... and Doble... forms below are faults
\* the runs are shown to notice: a post forgotten, a post made twice.
SinPostQueries == UNCHANGED semQueries
sem_post_queries == semQueries' = semQueries + 1

SinPostWorkers   == UNCHANGED semWorkers
DoblePostWorkers == semWorkers' = semWorkers + 2
sem_post_workers == semWorkers' = semWorkers + 1

\* The section of agregar_query_ready_fifo under mutexColaReady.  (Faults: no
\* sort; an insertion at the front.)
EncolarSinOrdenar(q) == cola' = Append(cola, q)
EncolarAlFrente(q)   == cola' = <<q>> \o cola
Encolar(q) ==
  IF Algoritmo = "PRIORIDADES"
  THEN cola' \in Ordenaciones(Append(cola, q), prioridad)
  ELSE cola' = Append(cola, q)

\* One round of aging_ready: every waiting query gains urgency and the queue
\* is sorted again, all under mutexColaReady.
Envejecer ==
  /\ ConAging /\ Algoritmo = "PRIORIDADES"
  /\ \E q \in Queries : prioridad[q] > 0 /\ \E i \in 1..Len(cola) : cola[i] = q
  /\ prioridad' = [q \in Queries |->
       IF prioridad[q] > 0 /\ \E i \in 1..Len(cola) : cola[i] = q
       THEN prioridad[q] - 1 ELSE prioridad[q]]
  /\ cola' \in Ordenaciones(cola, prioridad')
  /\ UNCHANGED <<semQueries, semWorkers, estado, workerAsignado, qid, pc,
                 nextQid, varsWorker, varsPlan, varsHilos, varsProceso, fines>>

-----------------------------------------------------------------------------
(***************************************************************************)
(* The client thread of a Query Control.                                   *)
(***************************************************************************)

PasoQuery(q, de, a) == hiloQ[q] = de /\ hiloQ' = [hiloQ EXCEPT ![q] = a]

\* Handshake: crear_query.
CrearQuery(q) ==
  /\ PasoQuery(q, "fuera", "creada")
  /\ qid' = [qid EXCEPT ![q] = nextQid]
  /\ nextQid' = nextQid + 1
  /\ estado' = [estado EXCEPT ![q] = "READY"]
  /\ UNCHANGED <<varsCola, semWorkers, workerAsignado, prioridad, pc,
                 varsWorker, varsPlan, hiloW, local, varsProceso, fines>>

EncolarNueva(q) ==
  /\ PasoQuery(q, "creada", "encolada")
  /\ Encolar(q)
  /\ UNCHANGED <<semQueries, semWorkers, varsQuery, varsWorker, varsPlan,
                 hiloW, local, varsProceso, fines>>

AvisarNueva(q) ==
  /\ PasoQuery(q, "encolada", "atendida")
  /\ sem_post_queries
  /\ UNCHANGED <<cola, semWorkers, varsQuery, varsWorker, varsPlan,
                 hiloW, local, varsProceso, fines>>

\* manejar_desconexion_qc looks the query up in three lists nobody creates,
\* finds nothing and returns: the query stays where it is.
DesconectarQC(q) ==
  /\ PasoQuery(q, "atendida", "cerrada")
  /\ UNCHANGED <<varsCola, semWorkers, varsQuery, varsWorker, varsPlan,
                 hiloW, local, varsProceso, fines>>

-----------------------------------------------------------------------------
(***************************************************************************)
(* The client thread of a Worker.                                          *)
(***************************************************************************)

PasoWorker(w, de, a) == hiloW[w] = de /\ hiloW' = [hiloW EXCEPT ![w] = a]

\* Handshake: a new t_worker, free, joins the list ...
ConectarWorker(w) ==
  /\ PasoWorker(w, "fuera", "alta")
  /\ conectados' = conectados \cup {w}
  /\ libre' = [libre EXCEPT ![w] = TRUE]
  /\ ejecutando' = [ejecutando EXCEPT ![w] = Nada]
  /\ vivo' = [vivo EXCEPT ![w] = TRUE]
  /\ canal' = [canal EXCEPT ![w] = <<>>]
  /\ UNCHANGED <<varsCola, semWorkers, varsQuery, varsPlan, hiloQ, local,
                 caidas, fines>>

\* ... and is announced to the planner.
AnunciarWorker(w) ==
  /\ PasoWorker(w, "alta", "loop")
  /\ sem_post_workers
  /\ UNCHANGED <<varsCola, varsQuery, varsWorker, varsPlan, hiloQ, local,
                 varsProceso, fines>>

\* OP_FIN_QUERY arrives for the query the Worker process is running.  The
\* handler compares it with worker->ejecutando and drops it on a mismatch.
RecibirFin(w) ==
  /\ vivo[w] /\ canal[w] # <<>> /\ hiloW[w] = "loop"
  /\ canal' = [canal EXCEPT ![w] = Tail(@)]
  /\ \/ /\ ejecutando[w] = Head(canal[w])
        /\ ejecutando' = [ejecutando EXCEPT ![w] = Nada]
        /\ local' = [local EXCEPT ![w] = Head(canal[w])]
        /\ PasoWorker(w, "loop", "fin_libre")
     \/ /\ ejecutando[w] # Head(canal[w])
        /\ UNCHANGED <<ejecutando, local, hiloW>>
  /\ UNCHANGED <<varsCola, semWorkers, varsQuery, conectados, libre, varsPlan,
                 hiloQ, vivo, caidas, fines>>

\* OP_QUERY_DESALOJADA: the query returns with the pc it stopped at.
RecibirDesalojada(w) ==
  /\ WorkersDesalojan
  /\ vivo[w] /\ canal[w] # <<>> /\ hiloW[w] = "loop"
  /\ canal' = [canal EXCEPT ![w] = Tail(@)]
  /\ LET q == Head(canal[w]) IN
     \/ /\ ejecutando[w] = q
        /\ pc[q] < MaxPc
        /\ \E p \in pc[q]+1..MaxPc : pc' = [pc EXCEPT ![q] = p]
        /\ estado' = [estado EXCEPT ![q] = "READY"]
        /\ workerAsignado' = [workerAsignado EXCEPT ![q] = Nada]
        /\ ejecutando' = [ejecutando EXCEPT ![w] = Nada]
        /\ local' = [local EXCEPT ![w] = q]
        /\ PasoWorker(w, "loop", "des_libre")
     \/ /\ ejecutando[w] # q
        /\ UNCHANGED <<pc, estado, workerAsignado, ejecutando, local, hiloW>>
  /\ UNCHANGED <<varsCola, semWorkers, prioridad, qid, nextQid, conectados,
                 libre, varsPlan, hiloQ, vivo, caidas, fines>>

\* registrar_worker_libre, called by both handlers: first the fields ...
MarcarLibre(w) ==
  /\ \/ PasoWorker(w, "fin_libre", "fin_post")
     \/ PasoWorker(w, "des_libre", "des_post")
  /\ libre' = [libre EXCEPT ![w] = TRUE]
  /\ ejecutando' = [ejecutando EXCEPT ![w] = Nada]
  /\ UNCHANGED <<varsCola, semWorkers, varsQuery, conectados, varsPlan, hiloQ,
                 local, varsProceso, fines>>

\* ... then the semaphore.
AvisarLibre(w) ==
  /\ \/ PasoWorker(w, "fin_post", "fin_enviar")
     \/ PasoWorker(w, "des_post", "des_encolar")
  /\ sem_post_workers
  /\ UNCHANGED <<varsCola, varsQuery, varsWorker, varsPlan, hiloQ, local,
                 varsProceso, fines>>

\* enviar_fin_query: the Query Control is told, the t_query is freed.
enviar_fin_query(q) ==
  /\ estado' = [estado EXCEPT ![q] = "EXIT"]
  /\ fines' = [fines EXCEPT ![q] = @ + 1]

TerminarQuery(w) ==
  /\ PasoWorker(w, "fin_enviar", "loop")
  /\ enviar_fin_query(local[w])
  /\ local' = [local EXCEPT ![w] = Nada]
  /\ UNCHANGED <<varsCola, semWorkers, workerAsignado, prioridad, qid, pc,
                 nextQid, varsWorker, varsPlan, hiloQ, varsProceso>>

ReencolarDesalojada(w) ==
  /\ PasoWorker(w, "des_encolar", "des_postq")
  /\ Encolar(local[w])
  /\ local' = [local EXCEPT ![w] = Nada]
  /\ UNCHANGED <<semQueries, semWorkers, varsQuery, varsWorker, varsPlan,
                 hiloQ, varsProceso, fines>>

AvisarDesalojada(w) ==
  /\ PasoWorker(w, "des_postq", "loop")
  /\ sem_post_queries
  /\ UNCHANGED <<cola, semWorkers, varsQuery, varsWorker, varsPlan, hiloQ,
                 local, varsProceso, fines>>

\* The Worker process dies, at any time.
CaerWorker(w) ==
  /\ vivo[w] /\ caidas < MaxCaidas
  /\ vivo' = [vivo EXCEPT ![w] = FALSE]
  /\ caidas' = caidas + 1
  /\ UNCHANGED <<varsCola, semWorkers, varsQuery, varsWorker, varsPlan,
                 varsHilos, canal, fines>>

\* Its thread reads the end of the stream; recibir_operacion closes the fd.
NotarCaida(w) ==
  /\ ~vivo[w] /\ PasoWorker(w, "loop", "caida")
  /\ UNCHANGED <<varsCola, semWorkers, varsQuery, varsWorker, varsPlan, hiloQ,
                 local, varsProceso, fines>>

\* manejar_desconexion_worker, under mutexWorkersConectados, and the free.
manejar_desconexion_worker(w) ==
  /\ PasoWorker(w, "caida", "fuera")
  /\ conectados' = conectados \ {w}
  /\ \/ /\ ejecutando[w] # Nada
        /\ workerAsignado' = [workerAsignado EXCEPT ![ejecutando[w]] = Nada]
        /\ enviar_fin_query(ejecutando[w])
     \/ /\ ejecutando[w] = Nada
        /\ UNCHANGED <<workerAsignado, estado, fines>>
  /\ UNCHANGED <<varsCola, semWorkers, prioridad, qid, pc, nextQid, libre,
                 ejecutando, varsPlan, hiloQ, local, varsProceso>>

-----------------------------------------------------------------------------
(***************************************************************************)
(* The planner thread: planificador_fifo.                                  *)
(***************************************************************************)

PasoPlan(de, a) == plan = de /\ plan' = a

Libres == {w \in conectados : libre[w]}

\* (Fault: a sem_wait that does not wait.)
sem_trywait_queries == semQueries' = semQueries - 1
sem_wait_queries    == semQueries > 0 /\ semQueries' = semQueries - 1

EsperarQuery ==
  /\ PasoPlan("esperaQuery", "esperaWorker")
  /\ sem_wait_queries
  /\ UNCHANGED <<cola, semWorkers, varsQuery, varsWorker, qPlan, wPlan,
                 varsHilos, varsProceso, fines>>

EsperarWorker ==
  /\ PasoPlan("esperaWorker", "sacar")
  /\ semWorkers > 0 /\ semWorkers' = semWorkers - 1
  /\ UNCHANGED <<varsCola, varsQuery, varsWorker, qPlan, wPlan, varsHilos,
                 varsProceso, fines>>

\* list_remove of the head.  (Fault: list_get, which leaves it in the queue.)
MirarPrimera   == qPlan' = Head(cola) /\ UNCHANGED cola
QuitarPrimera  == qPlan' = Head(cola) /\ cola' = Tail(cola)

\* Takes the head of the queue; an empty queue gives both tokens back.
SacarQuery ==
  /\ \/ cola = <<>> /\ PasoPlan("sacar", "postQuery") /\ UNCHANGED <<cola, qPlan>>
     \/ cola # <<>> /\ PasoPlan("sacar", "buscar")
        /\ QuitarPrimera
  /\ UNCHANGED <<semQueries, semWorkers, varsQuery, varsWorker, wPlan,
                 varsHilos, varsProceso, fines>>

\* (Fault: the Worker taken is not marked busy.)
TomarSinMarcar(w) == wPlan' = w /\ UNCHANGED libre
Tomar(w) == wPlan' = w /\ libre' = [libre EXCEPT ![w] = FALSE]

\* Which free Worker is taken depends on the order of the list: any of them.
obtener_worker_libre ==
  /\ \/ /\ PasoPlan("buscar", "asignar")
        /\ \E w \in Libres : Tomar(w)
     \/ /\ PasoPlan("buscar", "reencolar")
        /\ Libres = {} /\ UNCHANGED <<wPlan, libre>>
  /\ UNCHANGED <<varsCola, semWorkers, varsQuery, conectados, ejecutando,
                 qPlan, varsHilos, varsProceso, fines>>

\* The three assignments before the send, made without any mutex.  Only the
\* last one, to worker->ejecutando, is visible to another thread.
AsignarQuery ==
  /\ PasoPlan("asignar", "enviar")
  /\ estado' = [estado EXCEPT ![qPlan] = "EXEC"]
  /\ workerAsignado' = [workerAsignado EXCEPT ![qPlan] = wPlan]
  /\ ejecutando' = [ejecutando EXCEPT ![wPlan] = qPlan]
  /\ UNCHANGED <<varsCola, semWorkers, prioridad, qid, pc, nextQid, conectados,
                 libre, qPlan, wPlan, varsHilos, varsProceso, fines>>

\* Whether what is written to the Worker's socket can reach its process.
Alcanzable(w) == vivo[w] /\ hiloW[w] # "caida"

\* A write to a process that is gone is lost in the kernel or fails; when it
\* fails the query goes back to the front of the queue.
EnviarQuery ==
  /\ \/ /\ PasoPlan("enviar", "esperaQuery")
        /\ qPlan' = Nada /\ wPlan' = Nada
        /\ \/ Alcanzable(wPlan)
              /\ canal' = [canal EXCEPT ![wPlan] = Append(@, qPlan)]
           \/ ~Alcanzable(wPlan) /\ UNCHANGED canal
     \/ /\ PasoPlan("enviar", "reencolar")
        /\ ~Alcanzable(wPlan)
        /\ UNCHANGED <<qPlan, wPlan, canal>>
  /\ UNCHANGED <<varsCola, semWorkers, varsQuery, varsWorker, varsHilos, vivo,
                 caidas, fines>>

\* list_add_in_index(cola, 0, query).  (Fault: only the tokens are given back.)
OlvidarQuery    == UNCHANGED cola
VolverAlFrente  == cola' = <<qPlan>> \o cola

Reencolar ==
  /\ PasoPlan("reencolar", "postQuery")
  /\ VolverAlFrente
  /\ qPlan' = Nada
  /\ UNCHANGED <<semQueries, semWorkers, varsQuery, varsWorker, wPlan,
                 varsHilos, varsProceso, fines>>

DevolverQuery ==
  /\ PasoPlan("postQuery", "postWorker")
  /\ sem_post_queries
  /\ UNCHANGED <<cola, semWorkers, varsQuery, varsWorker, qPlan, wPlan,
                 varsHilos, varsProceso, fines>>

DevolverWorker ==
  /\ PasoPlan("postWorker", "esperaQuery")
  /\ sem_post_workers
  /\ wPlan' = Nada
  /\ UNCHANGED <<varsCola, varsQuery, varsWorker, qPlan, varsHilos,
                 varsProceso, fines>>

-----------------------------------------------------------------------------

PasoPlanificador ==
  \/ EsperarQuery \/ EsperarWorker \/ SacarQuery \/ obtener_worker_libre
  \/ AsignarQuery \/ EnviarQuery \/ Reencolar \/ DevolverQuery
  \/ DevolverWorker

\* Steps the Master's client threads take on their own.
PasoHiloQuery(q)  == EncolarNueva(q) \/ AvisarNueva(q)
PasoHiloWorker(w) ==
  \/ AnunciarWorker(w) \/ MarcarLibre(w) \/ AvisarLibre(w)
  \/ TerminarQuery(w) \/ ReencolarDesalojada(w) \/ AvisarDesalojada(w)
  \/ NotarCaida(w) \/ manejar_desconexion_worker(w)

\* What the other processes do.
Entorno ==
  \/ \E q \in Queries : CrearQuery(q) \/ DesconectarQC(q)
  \/ \E w \in Workers : ConectarWorker(w) \/ RecibirFin(w)
                        \/ RecibirDesalojada(w) \/ CaerWorker(w)

Next ==
  \/ PasoPlanificador
  \/ \E q \in Queries : PasoHiloQuery(q)
  \/ \E w \in Workers : PasoHiloWorker(w)
  \/ Envejecer
  \/ Entorno

Spec == Init /\ [][Next]_vars

(***************************************************************************)
(* The scheduler threads never stop for good; a Worker process that stays  *)
(* alive reaches END and reports it.                                       *)
(***************************************************************************)
Justicia ==
  /\ WF_vars(PasoPlanificador)
  /\ \A q \in Queries : WF_vars(PasoHiloQuery(q))
  /\ \A w \in Workers : WF_vars(PasoHiloWorker(w)) /\ WF_vars(RecibirFin(w))

SpecJusta == Spec /\ Justicia

-----------------------------------------------------------------------------
(***************************************************************************)
(* Properties.                                                             *)
(***************************************************************************)

\* Every variable holds a value of its type.
TypeOK ==
  /\ cola \in Seq(Queries) /\ semQueries \in Nat /\ semWorkers \in Nat
  /\ estado \in [Queries -> {"NUEVA", "READY", "EXEC", "EXIT"}]
  /\ workerAsignado \in [Queries -> Workers \cup {Nada}]
  /\ prioridad \in [Queries -> Nat] /\ qid \in [Queries -> Nat]
  /\ pc \in [Queries -> 0..MaxPc] /\ nextQid \in Nat
  /\ conectados \in SUBSET Workers /\ libre \in [Workers -> BOOLEAN]
  /\ ejecutando \in [Workers -> Queries \cup {Nada}]
  /\ plan \in PasosPlan
  /\ qPlan \in Queries \cup {Nada} /\ wPlan \in Workers \cup {Nada}
  /\ hiloQ \in [Queries -> PasosQuery] /\ hiloW \in [Workers -> PasosWorker]
  /\ local \in [Workers -> Queries \cup {Nada}]
  /\ vivo \in [Workers -> BOOLEAN] /\ canal \in [Workers -> Seq(Queries)]
  /\ fines \in [Queries -> Nat] /\ caidas \in Nat

\* Queries in the queue whose sem_post is still to come.
SinAvisar     == {q \in Queries : hiloQ[q] = "encolada"}
DesalojadasSinAvisar == {w \in Workers : hiloW[w] = "des_postq"}
TokenQueryPlan == IF plan \in {"esperaWorker", "sacar", "postQuery"} THEN 1 ELSE 0

\* semQueriesPendientes, the posts under way and the token the planner holds
\* count exactly the queries in the READY queue, Worker crashes included: no
\* query is ever forgotten in the queue.
TokensDeQueries ==
  semQueries + Cardinality(SinAvisar) + Cardinality(DesalojadasSinAvisar)
    + TokenQueryPlan = Len(cola)

\* The planner never finds the queue empty: the branch "En caso raro" of
\* master_planificacion.c:186 is dead code.
ColaNuncaVacia == plan = "sacar" => cola # <<>>

\* Workers already free (or about to be) whose sem_post is still to come.
LibresSinAvisar == {w \in Workers : hiloW[w] \in {"alta", "fin_post", "des_post"}}
TokenWorkerPlan ==
  IF plan \in {"sacar", "buscar", "reencolar", "postQuery", "postWorker"}
  THEN 1 ELSE 0
TokensWorker == semWorkers + Cardinality(LibresSinAvisar) + TokenWorkerPlan

\* No wakeup is lost: every free Worker has a token in semWorkersDisponibles,
\* in a post under way or in the planner's hand, whatever Workers crash.
NingunLibreOlvidado == Cardinality(Libres) <= TokensWorker

\* Until a Worker is lost the count is exact.
TokensDeWorkers == caidas = 0 => Cardinality(Libres) = TokensWorker

\* Until a Worker is lost the planner finds a free one whenever it looks: the
\* branch "condicion rara" of master_planificacion.c:199 is not taken, so no
\* query is put back in front of a more urgent one.
SiempreHayWorker == caidas = 0 /\ plan = "buscar" => Libres # {}

\* Everything that holds q: places of the queue, the planner, a Worker's
\* record, the handler of OP_FIN_QUERY or OP_QUERY_DESALOJADA.
Lugares(q) ==
  {<<"cola", i>> : i \in {j \in 1..Len(cola) : cola[j] = q}}
  \cup (IF qPlan = q /\ plan # "enviar" THEN {<<"plan", 0>>} ELSE {})
  \cup {<<"worker", w>> : w \in {v \in Workers : ejecutando[v] = q}}
  \cup {<<"hilo", w>> : w \in {v \in Workers : local[v] = q}}

\* No query is lost and none is in two places: from the moment it is enqueued
\* until enviar_fin_query exactly one structure holds it, and none after.
UnSoloLugar ==
  caidas = 0 => \A q \in Queries :
    /\ Cardinality(Lugares(q)) = IF hiloQ[q] \in {"encolada", "atendida", "cerrada"}
                                    /\ fines[q] = 0 THEN 1 ELSE 0
    /\ fines[q] <= 1

\* worker->ejecutando, query->workerAsignado, the states and what was sent to
\* the process agree: an answer of the process always finds its own query.
AsignacionCoherente ==
  caidas = 0 => \A w \in Workers :
    /\ ejecutando[w] # Nada =>
         /\ ~libre[w] /\ estado[ejecutando[w]] = "EXEC"
         /\ workerAsignado[ejecutando[w]] = w
    /\ canal[w] # <<>> => canal[w] = <<ejecutando[w]>>
    /\ ejecutando[w] # Nada /\ canal[w] = <<>> => plan = "enviar" /\ wPlan = w

\* Under PRIORIDADES the READY queue is sorted, its head the most urgent, as
\* long as nothing was put back at the front.
ColaOrdenada ==
  caidas = 0 /\ Algoritmo = "PRIORIDADES" => Ordenada(cola, prioridad)

\* A query the planner takes is at least as old as every waiting query whose
\* priority has reached 0: aging ends in first come, first served, so a stream
\* of urgent newcomers cannot hold a query back for ever.
AgingSinInanicion ==
  [][ \A q \in Queries :
        /\ caidas = 0 /\ Algoritmo = "PRIORIDADES"
        /\ plan = "sacar" /\ plan' = "buscar"
        /\ \E i \in 1..Len(cola) : cola[i] = q /\ prioridad[q] = 0
        => qid[qPlan'] <= qid[q] ]_vars

\* Every submitted query is finished exactly as the Query Control expects,
\* when no Worker dies and one connects.
TodaQueryTermina ==
  \A q \in Queries : (hiloQ[q] = "creada" /\ conectados # {})
                        ~> (fines[q] = 1 /\ estado[q] = "EXIT")

(***************************************************************************)
(* The abstract queue this module implements under FIFO while no Worker    *)
(* dies: a query the planner holds is still the first of the queue.        *)
(***************************************************************************)
EnMano == plan \in {"buscar", "asignar", "reencolar"} /\ qPlan # Nada

Despacho == INSTANCE DespachoFIFO WITH
  espera     <- IF EnMano THEN <<qPlan>> \o cola ELSE cola,
  disponibles <- conectados,
  ejecuta    <- ejecutando,
  terminadas <- {q \in Queries : fines[q] > 0 \/ \E w \in Workers : local[w] = q}

\* Queries are run in the order in which they were enqueued, each once, on a
\* connected Worker that is running nothing else; and each is run and ended.
ImplementaFIFO == Despacho!SpecJusta
=============================================================================
