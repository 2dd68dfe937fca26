----------------------- MODULE PlanificadorSanoProofs -----------------------
(***************************************************************************)
(* What holds of the Master's scheduler until the first Worker is lost,    *)
(* for any number of queries and Workers: the records, the threads and the *)
(* READY queue agree, so each query is in one place, each Worker runs what *)
(* the Master believes it runs, and the queue stays sorted.                *)
(*                                                                         *)
(* Salud is the invariant all of it follows from.  Its parts need each     *)
(* other: a Worker is freed only by the thread that cleared its record     *)
(* (HilosSanos), which it does on an answer that the channel carries only  *)
(* for the query of the record (Envios), which is nowhere else (Unicos).   *)
(***************************************************************************)
EXTENDS PlanificadorProofs

EnCola(s, q) == \E i \in 1..Len(s) : s[i] = q
SinRepetidos(s) == \A i, j \in 1..Len(s) : s[i] = s[j] => i = j
EnPlan(q) == qPlan = q /\ plan # "enviar"

Enviadas == {"encolada", "atendida", "cerrada"}
ConLocal == {"fin_libre", "fin_post", "fin_enviar",
             "des_libre", "des_post", "des_encolar"}
\* Where a Worker's thread has no record, or has one it is about to free.
Cerrando == {"fuera", "fin_libre", "des_libre"}

\* The record of a Worker agrees with where its thread is.
HilosSanos ==
  \A w \in Workers :
    /\ hiloW[w] # "caida"
    /\ vivo[w] <=> hiloW[w] # "fuera"
    /\ w \in conectados <=> hiloW[w] # "fuera"
    /\ local[w] # Nada <=> hiloW[w] \in ConLocal
    /\ libre[w] => ejecutando[w] = Nada
    /\ libre[w] \/ ejecutando[w] # Nada => hiloW[w] \notin Cerrando

\* The planner takes no error branch, and the Worker it took is its own.
PlanSano ==
  /\ plan \notin {"reencolar", "postQuery", "postWorker"}
  /\ qPlan # Nada <=> plan \in {"buscar", "asignar", "enviar"}
  /\ plan = "asignar" => /\ ~libre[wPlan] /\ ejecutando[wPlan] = Nada
                         /\ hiloW[wPlan] \notin Cerrando
  /\ plan = "enviar" => ejecutando[wPlan] = qPlan

\* A Worker process has been sent the query of its record, once.
Envios ==
  \A w \in Workers :
    /\ canal[w] = IF ejecutando[w] = Nada \/ (plan = "enviar" /\ wPlan = w)
                  THEN <<>> ELSE <<ejecutando[w]>>
    /\ ejecutando[w] # Nada => /\ estado[ejecutando[w]] = "EXEC"
                               /\ workerAsignado[ejecutando[w]] = w

\* No query is in two places.
Unicos ==
  /\ SinRepetidos(cola)
  /\ \A q \in Queries :
       /\ EnCola(cola, q) => ~EnPlan(q)
       /\ EnCola(cola, q) \/ EnPlan(q) =>
            \A w \in Workers : ejecutando[w] # q /\ local[w] # q
       /\ \A v, w \in Workers : local[v] = q =>
            ejecutando[w] # q /\ (local[w] = q => v = w)

\* A query is in some place from the moment it is enqueued until it is ended.
Presentes ==
  \A q \in Queries :
    /\ fines[q] <= 1
    /\ (EnCola(cola, q) \/ EnPlan(q)
        \/ \E w \in Workers : ejecutando[w] = q \/ local[w] = q)
       <=> (hiloQ[q] \in Enviadas /\ fines[q] = 0)
    /\ hiloQ[q] \notin Enviadas => fines[q] = 0

Salud == HilosSanos /\ PlanSano /\ Envios /\ Unicos /\ Presentes
Sano  == caidas = 0 => Salud

-----------------------------------------------------------------------------
(***************************************************************************)
(* What a step without a death may be.                                     *)
(***************************************************************************)

\* The variables a Query Control's thread leaves alone.
LEMMA AjenoAQuery ==
  ASSUME NEW q, PasoHiloQuery(q) \/ CrearQuery(q) \/ DesconectarQC(q)
  PROVE  UNCHANGED <<semWorkers, workerAsignado, prioridad, pc, varsWorker, varsPlan,
                     hiloW, local, varsProceso, fines>>
  BY DEF PasoHiloQuery, EncolarNueva, AvisarNueva, CrearQuery, DesconectarQC,
         varsQuery, varsWorker, varsPlan, varsProceso

\* The variables the planner leaves alone.
LEMMA AjenoAlPlan ==
  ASSUME PasoPlanificador
  PROVE  UNCHANGED <<prioridad, qid, pc, nextQid, conectados, varsHilos, vivo,
                     caidas, fines>>
  BY DEF PasoPlanificador, EsperarQuery, EsperarWorker, SacarQuery,
         obtener_worker_libre, AsignarQuery, EnviarQuery, Reencolar,
         DevolverQuery, DevolverWorker, varsQuery, varsWorker, varsProceso

\* Without deaths no thread of a Worker cleans up after one.
LEMMA SinLimpieza ==
  ASSUME HilosSanos, NEW w \in Workers
  PROVE  ~NotarCaida(w) /\ ~manejar_desconexion_worker(w)
  BY DEF HilosSanos, NotarCaida, manejar_desconexion_worker, PasoWorker

\* An answer of a Worker process is about the query of its record: the handler
\* never drops one, and nothing else is on the way.
LEMMA RespuestaPropia ==
  ASSUME Tipos, Envios, NEW w \in Workers, canal[w] # <<>>
  PROVE  /\ ejecutando[w] \in Queries /\ Head(canal[w]) = ejecutando[w]
         /\ Tail(canal[w]) = <<>> /\ ~(plan = "enviar" /\ wPlan = w)
<1>1. /\ ejecutando[w] # Nada /\ canal[w] = <<ejecutando[w]>>
      /\ ~(plan = "enviar" /\ wPlan = w)
  BY DEF Envios
<1>2. QED
  BY <1>1 DEF Tipos, TypeOK

LEMMA Respuesta ==
  ASSUME Tipos, HilosSanos, Envios, NEW w \in Workers,
         RecibirFin(w) \/ RecibirDesalojada(w)
  PROVE  /\ hiloW[w] = "loop" /\ local[w] = Nada /\ ~libre[w]
         /\ ejecutando[w] \in Queries /\ ~(plan = "enviar" /\ wPlan = w)
         /\ ejecutando' = [ejecutando EXCEPT ![w] = Nada]
         /\ local' = [local EXCEPT ![w] = ejecutando[w]]
         /\ canal' = [canal EXCEPT ![w] = <<>>]
         /\ \/ hiloW' = [hiloW EXCEPT ![w] = "fin_libre"]
           \/ hiloW' = [hiloW EXCEPT ![w] = "des_libre"]
         /\ UNCHANGED <<cola, semQueries, semWorkers, prioridad, qid, nextQid,
                        conectados, libre, varsPlan, hiloQ, vivo, caidas, fines>>
<1>1. canal[w] # <<>> /\ hiloW[w] = "loop"
  BY DEF RecibirFin, RecibirDesalojada
<1>2. /\ ejecutando[w] \in Queries /\ Head(canal[w]) = ejecutando[w]
      /\ Tail(canal[w]) = <<>> /\ ~(plan = "enviar" /\ wPlan = w)
  BY <1>1, RespuestaPropia
<1>3. local[w] = Nada /\ ~libre[w]
  BY <1>1, <1>2, SupuestosPlanificador DEF HilosSanos, ConLocal
<1>4. QED
  BY <1>1, <1>2, <1>3 DEF RecibirFin, RecibirDesalojada, PasoWorker, varsCola, varsQuery

-----------------------------------------------------------------------------

LEMMA HilosPlanificador ==
  ASSUME Tipos, HilosSanos, PlanSano, PasoPlanificador
  PROVE  HilosSanos'
<1> USE DEF Tipos, TypeOK, PasoPlan, varsWorker, varsProceso, varsHilos
<1>1. UNCHANGED <<hiloW, vivo, conectados, local>>
  BY AjenoAlPlan
<1>2. CASE obtener_worker_libre
  BY <1>1, <1>2 DEF obtener_worker_libre, Tomar, Libres, HilosSanos
<1>3. CASE AsignarQuery
  BY <1>1, <1>3 DEF AsignarQuery, HilosSanos, PlanSano, Punteros
<1>4. CASE EsperarQuery \/ EsperarWorker \/ SacarQuery \/ EnviarQuery
           \/ Reencolar \/ DevolverQuery \/ DevolverWorker
  <2>1. UNCHANGED <<libre, ejecutando>>
    BY <1>4 DEF EsperarQuery, EsperarWorker, SacarQuery, EnviarQuery,
                Reencolar, DevolverQuery, DevolverWorker
  <2>2. QED
    BY <1>1, <2>1 DEF HilosSanos
<1>5. QED
  BY <1>2, <1>3, <1>4 DEF PasoPlanificador

LEMMA HilosWorker ==
  ASSUME Tipos, HilosSanos, Envios, NEW w \in Workers,
         PasoHiloWorker(w) \/ ConectarWorker(w) \/ RecibirFin(w) \/ RecibirDesalojada(w)
  PROVE  HilosSanos'
<1>0. CASE RecibirFin(w) \/ RecibirDesalojada(w)
  <2>1. /\ hiloW[w] = "loop" /\ ~libre[w] /\ ejecutando[w] # Nada
        /\ ejecutando' = [ejecutando EXCEPT ![w] = Nada]
        /\ local' = [local EXCEPT ![w] = ejecutando[w]]
        /\ \/ hiloW' = [hiloW EXCEPT ![w] = "fin_libre"]
           \/ hiloW' = [hiloW EXCEPT ![w] = "des_libre"]
        /\ UNCHANGED <<conectados, libre, vivo>>
    BY <1>0, Respuesta, SupuestosPlanificador
  <2>2. QED
    BY <2>1, SMTT(30)
       DEF Tipos, TypeOK, HilosSanos, ConLocal, Cerrando
<1> USE DEF Tipos, TypeOK, HilosSanos, PasoWorker, ConLocal, Cerrando,
            varsWorker, varsProceso
<1>1. CASE AnunciarWorker(w)
  BY <1>1 DEF AnunciarWorker
<1>2. CASE MarcarLibre(w)
  BY <1>2, SMTT(30) DEF MarcarLibre
<1>3. CASE AvisarLibre(w)
  BY <1>3, SMTT(30) DEF AvisarLibre
<1>4. CASE TerminarQuery(w)
  BY <1>4 DEF TerminarQuery
<1>5. CASE ReencolarDesalojada(w)
  BY <1>5 DEF ReencolarDesalojada
<1>6. CASE AvisarDesalojada(w)
  BY <1>6 DEF AvisarDesalojada
<1>7. CASE ConectarWorker(w)
  BY <1>7 DEF ConectarWorker
<1>8. QED
  BY <1>1, <1>2, <1>3, <1>4, <1>5, <1>6, <1>7, <1>0, SinLimpieza
     DEF PasoHiloWorker

LEMMA HilosPaso ==
  ASSUME Tipos, HilosSanos, PlanSano, Envios, [Next]_vars, caidas' = caidas
  PROVE  HilosSanos'
<1>1. CASE UNCHANGED vars
  BY <1>1 DEF vars, varsHilos, varsWorker, varsProceso, HilosSanos
<1>2. CASE \/ Envejecer
           \/ \E q \in Queries : PasoHiloQuery(q) \/ CrearQuery(q) \/ DesconectarQC(q)
  <2>1. UNCHANGED <<varsWorker, hiloW, local, varsProceso>>
    BY <1>2, AjenoAQuery DEF Envejecer, varsHilos
  <2>2. QED
    BY <2>1 DEF varsWorker, varsProceso, HilosSanos
<1>3. CASE \E w \in Workers : CaerWorker(w)
  BY <1>3 DEF CaerWorker, Tipos, TypeOK
<1>4. QED
  BY <1>1, <1>2, <1>3, HilosPlanificador, HilosWorker DEF Next, Entorno

-----------------------------------------------------------------------------

LEMMA PlanPlanificador ==
  ASSUME Tipos, ColaNuncaVacia, HilosSanos, PlanSano, Libres # {} \/ plan # "buscar",
         PasoPlanificador
  PROVE  PlanSano'
<1> USE SupuestosPlanificador DEF Tipos, TypeOK, Punteros, PasoPlan, PlanSano, varsHilos
<1>1. hiloW' = hiloW
  BY AjenoAlPlan
<1>2. CASE EsperarQuery
  BY <1>2 DEF EsperarQuery
<1>3. CASE EsperarWorker
  BY <1>3 DEF EsperarWorker
<1>4. CASE SacarQuery
  <2>1. cola # <<>> /\ plan' = "buscar" /\ qPlan' = Head(cola)
    BY <1>4 DEF SacarQuery, ColaNuncaVacia, QuitarPrimera
  <2>2. Head(cola) \in Queries
    BY <2>1, HeadTailProperties
  <2>3. QED
    BY <2>1, <2>2
<1>5. CASE obtener_worker_libre
  <2>1. PICK w \in Libres : Tomar(w) /\ plan' = "asignar" /\ plan = "buscar"
    BY <1>5 DEF obtener_worker_libre
  <2>2. w \in Workers /\ libre[w] /\ ejecutando[w] = Nada /\ hiloW[w] \notin Cerrando
    BY <2>1 DEF Libres, HilosSanos
  <2>3. QED
    BY <1>1, <1>5, <2>1, <2>2 DEF obtener_worker_libre, Tomar
<1>6. CASE AsignarQuery
  BY <1>6 DEF AsignarQuery
<1>7. CASE EnviarQuery
  <2>1. Alcanzable(wPlan)
    BY <1>7 DEF EnviarQuery, Alcanzable, HilosSanos, Cerrando
  <2>2. QED
    BY <1>7, <2>1 DEF EnviarQuery
<1>8. QED
  BY <1>2, <1>3, <1>4, <1>5, <1>6, <1>7
     DEF PasoPlanificador, Reencolar, DevolverQuery, DevolverWorker

LEMMA PlanWorker ==
  ASSUME Tipos, HilosSanos, PlanSano, Envios, NEW w \in Workers,
         PasoHiloWorker(w) \/ ConectarWorker(w) \/ RecibirFin(w) \/ RecibirDesalojada(w)
  PROVE  PlanSano'
<1>0. CASE RecibirFin(w) \/ RecibirDesalojada(w)
  <2>1. /\ ejecutando[w] # Nada /\ ~(plan = "enviar" /\ wPlan = w)
        /\ ejecutando' = [ejecutando EXCEPT ![w] = Nada]
        /\ \/ hiloW' = [hiloW EXCEPT ![w] = "fin_libre"]
           \/ hiloW' = [hiloW EXCEPT ![w] = "des_libre"]
        /\ UNCHANGED <<libre, plan, qPlan, wPlan>>
    BY <1>0, Respuesta, SupuestosPlanificador DEF varsPlan
  <2>2. plan \in {"asignar", "enviar"} => wPlan # w
    BY <2>1 DEF PlanSano
  <2>3. QED
    BY <2>1, <2>2
       DEF Tipos, TypeOK, Punteros, PlanSano, Cerrando
<1> USE DEF Tipos, TypeOK, Punteros, PlanSano, PasoWorker, Cerrando,
            varsWorker, varsPlan
<1>1. CASE ConectarWorker(w)
  BY <1>1, SupuestosPlanificador DEF ConectarWorker, HilosSanos
<1>2. CASE MarcarLibre(w)
  <2>1. hiloW[w] \in Cerrando /\ ejecutando[w] = Nada
    BY <1>2 DEF MarcarLibre, HilosSanos
  <2>2. plan \in {"asignar", "enviar"} => wPlan # w
    BY <2>1, SupuestosPlanificador
  <2>3. QED
    BY <1>2, <2>1, <2>2 DEF MarcarLibre
<1>3. CASE AnunciarWorker(w) \/ AvisarLibre(w) \/ TerminarQuery(w)
           \/ ReencolarDesalojada(w) \/ AvisarDesalojada(w)
  BY <1>3, SMTT(30)
     DEF AnunciarWorker, AvisarLibre, TerminarQuery, ReencolarDesalojada,
         AvisarDesalojada
<1>4. QED
  BY <1>1, <1>2, <1>3, <1>0, SinLimpieza DEF PasoHiloWorker

LEMMA PlanPaso ==
  ASSUME Tipos, ColaNuncaVacia, HilosSanos, PlanSano, Envios,
         Libres # {} \/ plan # "buscar", [Next]_vars, caidas' = caidas
  PROVE  PlanSano'
<1>1. CASE UNCHANGED vars
  BY <1>1 DEF vars, varsHilos, varsWorker, varsPlan, PlanSano
<1>2. CASE \/ Envejecer
           \/ \E q \in Queries : PasoHiloQuery(q) \/ CrearQuery(q) \/ DesconectarQC(q)
  <2>1. UNCHANGED <<varsWorker, hiloW, varsPlan>>
    BY <1>2, AjenoAQuery DEF Envejecer, varsHilos
  <2>2. QED
    BY <2>1 DEF varsWorker, varsPlan, PlanSano
<1>3. CASE \E w \in Workers : CaerWorker(w)
  BY <1>3 DEF CaerWorker, Tipos, TypeOK
<1>4. QED
  BY <1>1, <1>2, <1>3, PlanPlanificador, PlanWorker DEF Next, Entorno
-----------------------------------------------------------------------------

LEMMA EnviosPlanificador ==
  ASSUME Tipos, HilosSanos, PlanSano, Envios, Unicos, PasoPlanificador
  PROVE  Envios'
<1> USE SupuestosPlanificador DEF Tipos, TypeOK, Punteros, PasoPlan, Envios,
        varsQuery, varsWorker, varsPlan, varsProceso
<1>1. CASE AsignarQuery
  <2>1. /\ qPlan \in Queries /\ wPlan \in Workers /\ plan = "asignar"
        /\ ejecutando[wPlan] = Nada /\ EnPlan(qPlan)
    BY <1>1 DEF AsignarQuery, PlanSano, EnPlan
  <2>2. \A w \in Workers : ejecutando[w] # qPlan
    BY <2>1 DEF Unicos
  <2>3. QED
    BY <1>1, <2>1, <2>2 DEF AsignarQuery
<1>2. CASE EnviarQuery
  <2>1. /\ qPlan \in Queries /\ wPlan \in Workers /\ plan = "enviar"
        /\ ejecutando[wPlan] = qPlan
    BY <1>2 DEF EnviarQuery, PlanSano
  <2>2. Alcanzable(wPlan)
    BY <2>1 DEF Alcanzable, HilosSanos, Cerrando
  <2>3. /\ canal[wPlan] = <<>> /\ canal' = [canal EXCEPT ![wPlan] = Append(@, qPlan)]
        /\ plan' = "esperaQuery"
    BY <1>2, <2>1, <2>2 DEF EnviarQuery
  <2>4. Append(canal[wPlan], qPlan) = <<qPlan>>
    BY <2>1, <2>3
  <2>5. QED
    BY <1>2, <2>1, <2>3, <2>4 DEF EnviarQuery
<1>3. CASE EsperarQuery \/ EsperarWorker \/ SacarQuery \/ obtener_worker_libre
  BY <1>3 DEF EsperarQuery, EsperarWorker, SacarQuery, obtener_worker_libre
<1>4. CASE Reencolar \/ DevolverQuery \/ DevolverWorker
  BY <1>4 DEF Reencolar, DevolverQuery, DevolverWorker, PlanSano
<1>5. QED
  BY <1>1, <1>2, <1>3, <1>4 DEF PasoPlanificador

LEMMA EnviosWorker ==
  ASSUME Tipos, HilosSanos, Envios, Unicos, NEW w \in Workers,
         PasoHiloWorker(w) \/ ConectarWorker(w) \/ RecibirFin(w) \/ RecibirDesalojada(w)
  PROVE  Envios'
<1>0. CASE RecibirFin(w) \/ RecibirDesalojada(w)
  <2>1. /\ ejecutando[w] \in Queries /\ ~(plan = "enviar" /\ wPlan = w)
        /\ ejecutando' = [ejecutando EXCEPT ![w] = Nada]
        /\ canal' = [canal EXCEPT ![w] = <<>>]
        /\ UNCHANGED <<plan, wPlan>>
    BY <1>0, Respuesta DEF varsPlan
  <2>2. \A v \in Workers \ {w} : ejecutando[v] # ejecutando[w]
    BY <2>1, SupuestosPlanificador DEF Envios
  <2>3. \A q \in Queries \ {ejecutando[w]} :
          estado'[q] = estado[q] /\ workerAsignado'[q] = workerAsignado[q]
    <3>1. canal[w] # <<>>
      BY <1>0 DEF RecibirFin, RecibirDesalojada
    <3>2. Head(canal[w]) = ejecutando[w]
      BY <3>1, RespuestaPropia
    <3>3. QED
      BY <1>0, <3>2 DEF RecibirFin, RecibirDesalojada, varsQuery, Tipos, TypeOK
  <2>4. ASSUME NEW v \in Workers \ {w}
        PROVE  /\ ejecutando'[v] = ejecutando[v] /\ canal'[v] = canal[v]
               /\ ejecutando[v] # Nada => ejecutando[v] \in Queries \ {ejecutando[w]}
    BY <2>1, <2>2 DEF Tipos, TypeOK
  <2>5. ejecutando'[w] = Nada /\ canal'[w] = <<>>
    BY <2>1 DEF Tipos, TypeOK
  <2>6. QED
    BY <2>1, <2>3, <2>4, <2>5 DEF Envios
<1> USE SupuestosPlanificador DEF Tipos, TypeOK, Envios, PasoWorker,
        varsQuery, varsWorker, varsPlan, varsProceso
<1>1. CASE TerminarQuery(w)
  <2>1. local[w] \in Queries
    BY <1>1 DEF TerminarQuery, Punteros
  <2>2. \A v \in Workers : ejecutando[v] # local[w]
    BY <2>1 DEF Unicos
  <2>3. QED
    BY <1>1, <2>1, <2>2 DEF TerminarQuery, enviar_fin_query
<1>2. CASE ConectarWorker(w)
  <2>1. ejecutando[w] = Nada
    BY <1>2 DEF ConectarWorker, HilosSanos, Cerrando
  <2>2. ejecutando' = ejecutando /\ canal' = canal
    BY <1>2, <2>1 DEF ConectarWorker
  <2>3. QED
    BY <1>2, <2>2 DEF ConectarWorker
<1>3. CASE MarcarLibre(w)
  <2>1. ejecutando[w] = Nada
    BY <1>3 DEF MarcarLibre, HilosSanos, Cerrando
  <2>2. QED
    BY <1>3, <2>1 DEF MarcarLibre
<1>4. CASE AnunciarWorker(w) \/ AvisarLibre(w) \/ ReencolarDesalojada(w)
           \/ AvisarDesalojada(w)
  <2>1. UNCHANGED <<estado, workerAsignado, ejecutando, canal, plan, wPlan>>
    BY <1>4 DEF AnunciarWorker, AvisarLibre, ReencolarDesalojada, AvisarDesalojada
  <2>2. QED
    BY <2>1
<1>5. QED
  BY <1>0, <1>1, <1>2, <1>3, <1>4, SinLimpieza DEF PasoHiloWorker

LEMMA EnviosPaso ==
  ASSUME Tipos, HilosSanos, PlanSano, Envios, Unicos, Presentes, [Next]_vars,
         caidas' = caidas
  PROVE  Envios'
<1>1. CASE UNCHANGED vars
  BY <1>1 DEF vars, varsQuery, varsWorker, varsPlan, varsProceso, Envios
<1>2. CASE \E q \in Queries : CrearQuery(q)
  <2>1. PICK q \in Queries : CrearQuery(q)
    BY <1>2
  <2>2. \A w \in Workers : ejecutando[w] # q
    BY <2>1 DEF CrearQuery, PasoQuery, Presentes, Enviadas
  <2>3. QED
    BY <2>1, <2>2 DEF CrearQuery, varsWorker, varsPlan, varsProceso, Envios, Tipos, TypeOK
<1>3. CASE \/ Envejecer
           \/ \E q \in Queries : PasoHiloQuery(q) \/ DesconectarQC(q)
  <2>1. UNCHANGED <<estado, workerAsignado, varsWorker, varsPlan, varsProceso>>
    BY <1>3 DEF Envejecer, PasoHiloQuery, EncolarNueva, AvisarNueva, DesconectarQC, varsQuery
  <2>2. QED
    BY <2>1 DEF varsWorker, varsPlan, varsProceso, Envios
<1>4. CASE \E w \in Workers : CaerWorker(w)
  BY <1>4 DEF CaerWorker, Tipos, TypeOK
<1>5. QED
  BY <1>1, <1>2, <1>3, <1>4, EnviosPlanificador, EnviosWorker DEF Next, Entorno
-----------------------------------------------------------------------------
(***************************************************************************)
(* Which queries are in a queue, and where each query is.                  *)
(***************************************************************************)

LEMMA AgregarAlFinal ==
  ASSUME NEW s \in Seq(Queries), NEW x \in Queries
  PROVE  /\ \A q : EnCola(Append(s, x), q) <=> EnCola(s, q) \/ q = x
         /\ SinRepetidos(s) /\ ~EnCola(s, x) => SinRepetidos(Append(s, x))
<1>1. /\ Len(s) \in Nat /\ Len(Append(s, x)) = Len(s) + 1
      /\ \A i \in 1..Len(s) : Append(s, x)[i] = s[i]
      /\ Append(s, x)[Len(s) + 1] = x
  BY AppendProperties, LenProperties
<1>2. 1..Len(s) + 1 = 1..Len(s) \cup {Len(s) + 1}
  BY <1>1
<1>3. QED
  BY <1>1, <1>2 DEF EnCola, SinRepetidos

LEMMA QuitarDelFrente ==
  ASSUME NEW s \in Seq(Queries), s # <<>>
  PROVE  /\ Head(s) \in Queries /\ Tail(s) \in Seq(Queries)
         /\ \A q : EnCola(s, q) <=> q = Head(s) \/ EnCola(Tail(s), q)
         /\ SinRepetidos(s) => SinRepetidos(Tail(s)) /\ ~EnCola(Tail(s), Head(s))
<1>1. /\ Head(s) \in Queries /\ Tail(s) \in Seq(Queries) /\ Head(s) = s[1]
      /\ Len(s) \in Nat \ {0} /\ Len(Tail(s)) = Len(s) - 1
      /\ \A i \in 1..Len(Tail(s)) : Tail(s)[i] = s[i + 1]
  BY HeadTailProperties, LenProperties, EmptySeq
<1>2. ASSUME NEW i \in 1..Len(Tail(s)) PROVE i + 1 \in 2..Len(s)
  BY <1>1
<1>3. ASSUME NEW i \in 2..Len(s)
      PROVE  i - 1 \in 1..Len(Tail(s)) /\ s[i] = Tail(s)[i - 1]
  <2>1. i - 1 \in 1..Len(Tail(s)) /\ (i - 1) + 1 = i
    BY <1>1
  <2>2. QED
    BY <1>1, <2>1
<1>4. 1..Len(s) = {1} \cup 2..Len(s) /\ 1 \in 1..Len(s)
  BY <1>1
<1>5. \A q : EnCola(s, q) <=> q = Head(s) \/ EnCola(Tail(s), q)
  <2>1. ASSUME NEW q, EnCola(s, q), q # Head(s) PROVE EnCola(Tail(s), q)
    <3>1. PICK i \in 2..Len(s) : s[i] = q
      BY <2>1, <1>1, <1>4 DEF EnCola
    <3>2. QED
      BY <1>3, <3>1 DEF EnCola
  <2>2. ASSUME NEW q, EnCola(Tail(s), q) PROVE EnCola(s, q)
    <3>1. PICK i \in 1..Len(Tail(s)) : Tail(s)[i] = q
      BY <2>2 DEF EnCola
    <3>2. i + 1 \in 1..Len(s) /\ s[i + 1] = q
      BY <1>1, <1>2, <1>4, <3>1
    <3>3. QED
      BY <3>2 DEF EnCola
  <2>3. EnCola(s, Head(s))
    BY <1>1, <1>4 DEF EnCola
  <2>4. QED
    BY <2>1, <2>2, <2>3
<1>6. ASSUME SinRepetidos(s) PROVE SinRepetidos(Tail(s)) /\ ~EnCola(Tail(s), Head(s))
  <2>1. ASSUME NEW i \in 1..Len(Tail(s)), NEW j \in 1..Len(Tail(s)),
               Tail(s)[i] = Tail(s)[j]
        PROVE  i = j
    <3>1. /\ i + 1 \in 1..Len(s) /\ j + 1 \in 1..Len(s) /\ s[i + 1] = s[j + 1]
          /\ i \in Nat /\ j \in Nat
      BY <1>1, <1>2, <1>4, <2>1
    <3>2. i + 1 = j + 1
      BY <1>6, <3>1 DEF SinRepetidos
    <3>3. QED
      BY <3>1, <3>2
  <2>2. ASSUME NEW i \in 1..Len(Tail(s)), Tail(s)[i] = Head(s) PROVE FALSE
    <3>1. i + 1 \in 1..Len(s) /\ s[i + 1] = s[1] /\ i \in Nat \ {0}
      BY <1>1, <1>2, <1>4, <2>2
    <3>2. i + 1 = 1
      BY <1>4, <1>6, <3>1 DEF SinRepetidos
    <3>3. QED
      BY <3>1, <3>2
  <2>3. QED
    BY <2>1, <2>2 DEF SinRepetidos, EnCola
<1>7. QED
  BY <1>1, <1>5, <1>6

\* list_sort neither loses nor repeats a query.
LEMMA OrdenarConserva ==
  ASSUME NEW s \in Seq(Queries), SinRepetidos(s), NEW p, NEW t \in Ordenaciones(s, p)
  PROVE  /\ SinRepetidos(t)
         /\ \A q \in Queries : EnCola(t, q) <=> EnCola(s, q)
<1> DEFINE Donde(u, q) == {i \in 1..Len(u) : u[i] = q}
<1>1. /\ t \in Seq(Queries) /\ Len(t) = Len(s) /\ Len(s) \in Nat
      /\ \A i \in 1..Len(t) : t[i] \in Queries
  BY OrdenacionesTipo, LenProperties, ElementOfSeq
<1>2. \A q \in Queries : Cardinality(Donde(s, q)) = Cardinality(Donde(t, q))
  BY DEF Ordenaciones, EsPermutacion
<1>3. ASSUME NEW q \in Queries
      PROVE  IsFiniteSet(Donde(s, q)) /\ IsFiniteSet(Donde(t, q))
  <2>1. IsFiniteSet(1..Len(s)) /\ IsFiniteSet(1..Len(t))
    BY <1>1, FS_Interval
  <2>2. QED
    BY <2>1, FS_Subset
<1>4. ASSUME NEW q \in Queries, EnCola(s, q)
      PROVE  \E i : Donde(t, q) = {i}
  <2>1. PICK i \in 1..Len(s) : s[i] = q
    BY <1>4 DEF EnCola
  <2>2. Donde(s, q) = {i}
    BY <2>1 DEF SinRepetidos
  <2>3. Cardinality(Donde(t, q)) = 1
    BY <1>2, <2>2, FS_Singleton
  <2>4. QED
    BY <1>3, <2>3, FS_Singleton
<1>5. ASSUME NEW q \in Queries, ~EnCola(s, q)
      PROVE  Donde(t, q) = {}
  <2>1. Donde(s, q) = {}
    BY <1>5 DEF EnCola
  <2>2. Cardinality(Donde(t, q)) = 0
    BY <1>2, <2>1, FS_EmptySet
  <2>3. QED
    BY <1>3, <2>2, FS_EmptySet
<1>6. \A q \in Queries : EnCola(t, q) <=> EnCola(s, q)
  BY <1>4, <1>5 DEF EnCola
<1>7. ASSUME NEW i \in 1..Len(t), NEW j \in 1..Len(t), t[i] = t[j] PROVE i = j
  <2>1. t[i] \in Queries /\ EnCola(t, t[i])
    BY <1>1 DEF EnCola
  <2>2. PICK k : Donde(t, t[i]) = {k}
    BY <1>4, <1>6, <2>1
  <2>3. i \in Donde(t, t[i]) /\ j \in Donde(t, t[i])
    BY <1>7
  <2>4. QED
    BY <2>2, <2>3
<1>8. QED
  BY <1>6, <1>7 DEF SinRepetidos

LEMMA EncolarUna ==
  ASSUME cola \in Seq(Queries), SinRepetidos(cola), NEW q \in Queries,
         ~EnCola(cola, q), Encolar(q)
  PROVE  /\ SinRepetidos(cola')
         /\ \A x \in Queries : EnCola(cola', x) <=> EnCola(cola, x) \/ x = q
<1>1. /\ Append(cola, q) \in Seq(Queries) /\ SinRepetidos(Append(cola, q))
      /\ \A x : EnCola(Append(cola, q), x) <=> EnCola(cola, x) \/ x = q
  BY AgregarAlFinal, AppendProperties
<1>2. CASE Algoritmo = "PRIORIDADES"
  BY <1>1, <1>2, OrdenarConserva DEF Encolar
<1>3. CASE Algoritmo # "PRIORIDADES"
  BY <1>1, <1>3 DEF Encolar
<1>4. QED
  BY <1>2, <1>3
-----------------------------------------------------------------------------

\* A step that moves no query.
LEMMA NadieSeMueve ==
  ASSUME Unicos, Presentes, SinRepetidos(cola'),
         \A q \in Queries : /\ EnCola(cola', q) <=> EnCola(cola, q)
                            /\ EnPlan(q)' <=> EnPlan(q)
                            /\ hiloQ'[q] \in Enviadas <=> hiloQ[q] \in Enviadas,
         UNCHANGED <<ejecutando, local, fines>>
  PROVE  Unicos' /\ Presentes'
<1>1. Unicos'
  BY DEF Unicos
<1>2. Presentes'
  BY DEF Presentes
<1>3. QED
  BY <1>1, <1>2

LEMMA LugaresPlanificador ==
  ASSUME Tipos, ColaNuncaVacia, HilosSanos, PlanSano, Unicos, Presentes,
         PasoPlanificador
  PROVE  Unicos' /\ Presentes'
<1>1. UNCHANGED <<hiloQ, local, fines>>
  BY AjenoAlPlan DEF varsHilos
<1>2. CASE SacarQuery
  <2>1. /\ cola # <<>> /\ plan = "sacar" /\ plan' = "buscar" /\ qPlan = Nada
        /\ qPlan' = Head(cola) /\ cola' = Tail(cola) /\ ejecutando' = ejecutando
    BY <1>2 DEF SacarQuery, PasoPlan, ColaNuncaVacia, QuitarPrimera, PlanSano, varsWorker
  <2>2. /\ Head(cola) \in Queries /\ SinRepetidos(cola') /\ ~EnCola(cola', Head(cola))
        /\ \A q : EnCola(cola, q) <=> q = Head(cola) \/ EnCola(cola', q)
    BY <2>1, QuitarDelFrente DEF Tipos, TypeOK, Unicos
  <2>3. \A q \in Queries : ~EnPlan(q) /\ (EnPlan(q)' <=> q = Head(cola))
    BY <2>1, SupuestosPlanificador DEF EnPlan
  <2>4. Unicos'
    BY <1>1, <2>1, <2>2, <2>3 DEF Unicos
  <2>5. Presentes'
    BY <1>1, <2>1, <2>2, <2>3 DEF Presentes
  <2>6. QED
    BY <2>4, <2>5
<1>3. CASE AsignarQuery
  <2>1. /\ plan = "asignar" /\ plan' = "enviar" /\ qPlan \in Queries /\ wPlan \in Workers
        /\ ejecutando' = [ejecutando EXCEPT ![wPlan] = qPlan] /\ cola' = cola
        /\ ejecutando[wPlan] = Nada
    BY <1>3 DEF AsignarQuery, PasoPlan, PlanSano, Tipos, Punteros, varsCola
  <2>2. \A q \in Queries : (EnPlan(q) <=> q = qPlan) /\ ~EnPlan(q)'
    BY <2>1 DEF EnPlan
  <2>3. \A w \in Workers :
          ejecutando'[w] = IF w = wPlan THEN qPlan ELSE ejecutando[w]
    BY <2>1 DEF Tipos, TypeOK
  <2>4. Unicos'
    BY <1>1, <2>1, <2>2, <2>3 DEF Unicos
  <2>5. ASSUME NEW q \in Queries
        PROVE  EnPlan(q) \/ (\E w \in Workers : ejecutando[w] = q \/ local[w] = q)
                 <=> \E w \in Workers : ejecutando'[w] = q \/ local'[w] = q
    BY <1>1, <2>1, <2>2, <2>3, SupuestosPlanificador
  <2>6. Presentes'
    BY <1>1, <2>1, <2>2, <2>5 DEF Presentes
  <2>7. QED
    BY <2>4, <2>6
<1>4. CASE EsperarQuery \/ EsperarWorker \/ obtener_worker_libre \/ EnviarQuery
  <2>1. UNCHANGED <<cola, ejecutando>>
    BY <1>4 DEF EsperarQuery, EsperarWorker, obtener_worker_libre, EnviarQuery,
                varsCola, varsWorker
  <2>2. \A q \in Queries : EnPlan(q)' <=> EnPlan(q)
    BY <1>4, SupuestosPlanificador DEF EsperarQuery, EsperarWorker,
       obtener_worker_libre, EnviarQuery, PasoPlan, PlanSano, EnPlan, Alcanzable,
       HilosSanos, Cerrando, Tipos, Punteros
  <2>3. SinRepetidos(cola')
    BY <2>1 DEF Unicos
  <2>4. QED
    BY <1>1, <2>1, <2>2, <2>3, NadieSeMueve
<1>5. CASE Reencolar \/ DevolverQuery \/ DevolverWorker
  BY <1>5 DEF Reencolar, DevolverQuery, DevolverWorker, PasoPlan, PlanSano
<1>6. QED
  BY <1>2, <1>3, <1>4, <1>5 DEF PasoPlanificador

LEMMA LugaresHiloQuery ==
  ASSUME Tipos, Unicos, Presentes, NEW q \in Queries,
         PasoHiloQuery(q) \/ CrearQuery(q) \/ DesconectarQC(q)
  PROVE  Unicos' /\ Presentes'
<1>1. UNCHANGED <<ejecutando, local, fines, plan, qPlan>>
  BY AjenoAQuery DEF varsWorker, varsPlan
<1>2. \A x \in Queries : EnPlan(x)' <=> EnPlan(x)
  BY <1>1 DEF EnPlan
<1>3. CASE EncolarNueva(q)
  <2>1. /\ hiloQ[q] = "creada" /\ hiloQ' = [hiloQ EXCEPT ![q] = "encolada"]
        /\ Encolar(q)
    BY <1>3 DEF EncolarNueva, PasoQuery
  <2>2. /\ ~EnCola(cola, q) /\ ~EnPlan(q) /\ fines[q] = 0
        /\ \A w \in Workers : ejecutando[w] # q /\ local[w] # q
    BY <2>1 DEF Presentes, Enviadas
  <2>3. /\ SinRepetidos(cola')
        /\ \A x \in Queries : EnCola(cola', x) <=> EnCola(cola, x) \/ x = q
    BY <2>1, <2>2, EncolarUna DEF Tipos, TypeOK, Unicos
  <2>4. \A x \in Queries : hiloQ'[x] \in Enviadas <=> hiloQ[x] \in Enviadas \/ x = q
    BY <2>1 DEF Enviadas, Tipos, TypeOK
  <2>5. Unicos'
    BY <1>1, <1>2, <2>2, <2>3 DEF Unicos
  <2>6. Presentes'
    BY <1>1, <1>2, <2>2, <2>3, <2>4 DEF Presentes
  <2>7. QED
    BY <2>5, <2>6
<1>4. CASE AvisarNueva(q) \/ CrearQuery(q) \/ DesconectarQC(q)
  <2>1. cola' = cola
    BY <1>4 DEF AvisarNueva, CrearQuery, DesconectarQC, varsCola
  <2>2. \A x \in Queries : hiloQ'[x] \in Enviadas <=> hiloQ[x] \in Enviadas
    BY <1>4 DEF AvisarNueva, CrearQuery, DesconectarQC, PasoQuery, Enviadas, Tipos, TypeOK
  <2>3. SinRepetidos(cola')
    BY <2>1 DEF Unicos
  <2>4. QED
    BY <1>1, <1>2, <2>1, <2>2, <2>3, NadieSeMueve
<1>5. QED
  BY <1>3, <1>4 DEF PasoHiloQuery

LEMMA LugaresWorker ==
  ASSUME Tipos, HilosSanos, Envios, Unicos, Presentes, NEW w \in Workers,
         PasoHiloWorker(w) \/ ConectarWorker(w) \/ RecibirFin(w) \/ RecibirDesalojada(w)
  PROVE  Unicos' /\ Presentes'
<1>1. UNCHANGED <<plan, qPlan, hiloQ>>
  BY DEF PasoHiloWorker, AnunciarWorker, MarcarLibre, AvisarLibre, TerminarQuery,
         ReencolarDesalojada, AvisarDesalojada, NotarCaida, varsPlan, varsHilos,
         manejar_desconexion_worker, ConectarWorker, RecibirFin, RecibirDesalojada
<1>2. \A q \in Queries : EnPlan(q)' <=> EnPlan(q)
  BY <1>1 DEF EnPlan
<1>3. CASE RecibirFin(w) \/ RecibirDesalojada(w)
  <2>1. /\ ejecutando[w] \in Queries /\ local[w] = Nada
        /\ ejecutando' = [ejecutando EXCEPT ![w] = Nada]
        /\ local' = [local EXCEPT ![w] = ejecutando[w]]
        /\ UNCHANGED <<cola, fines>>
    BY <1>3, Respuesta
  <2>2. /\ \A v \in Workers : ejecutando'[v] = IF v = w THEN Nada ELSE ejecutando[v]
        /\ \A v \in Workers : local'[v] = IF v = w THEN ejecutando[w] ELSE local[v]
    BY <2>1 DEF Tipos, TypeOK
  <2>3. \A v \in Workers : v # w => ejecutando[v] # ejecutando[w]
    <3>1. ejecutando[w] # Nada
      BY <2>1, SupuestosPlanificador
    <3>2. \A v \in Workers :
            ejecutando[v] # Nada => workerAsignado[ejecutando[v]] = v
      BY DEF Envios
    <3> QED BY <3>1, <3>2
  <2>4. Unicos'
    BY <1>2, <2>1, <2>2, <2>3, SupuestosPlanificador DEF Unicos
  <2>5. ASSUME NEW q \in Queries
        PROVE  (\E v \in Workers : ejecutando'[v] = q \/ local'[v] = q)
                 <=> \E v \in Workers : ejecutando[v] = q \/ local[v] = q
    BY <2>1, <2>2, SupuestosPlanificador
  <2>6. Presentes'
    BY <1>1, <1>2, <2>1, <2>5 DEF Presentes
  <2>7. QED
    BY <2>4, <2>6
<1>4. CASE TerminarQuery(w) \/ ReencolarDesalojada(w)
  <2>1. /\ local[w] \in Queries /\ local' = [local EXCEPT ![w] = Nada]
        /\ ejecutando' = ejecutando
    BY <1>4 DEF TerminarQuery, ReencolarDesalojada, PasoWorker, varsWorker, Tipos, Punteros
  <2>2. \A v \in Workers : local'[v] = IF v = w THEN Nada ELSE local[v]
    BY <2>1 DEF Tipos, TypeOK
  <2>3. /\ ~EnCola(cola, local[w]) /\ ~EnPlan(local[w])
        /\ \A v \in Workers : /\ ejecutando[v] # local[w]
                              /\ v # w => local[v] # local[w]
    BY <2>1 DEF Unicos
  <2>4. hiloQ[local[w]] \in Enviadas /\ fines[local[w]] = 0
    BY <2>1 DEF Presentes
  <2>5. ASSUME NEW q \in Queries
        PROVE  (\E v \in Workers : ejecutando'[v] = q \/ local'[v] = q)
                 <=> q # local[w] /\ \E v \in Workers : ejecutando[v] = q \/ local[v] = q
    BY <2>1, <2>2, <2>3, SupuestosPlanificador
  <2>6. CASE TerminarQuery(w)
    <3>1. cola' = cola /\ fines' = [fines EXCEPT ![local[w]] = @ + 1]
      BY <2>6 DEF TerminarQuery, enviar_fin_query, varsCola
    <3>2. \A q \in Queries : fines'[q] = IF q = local[w] THEN 1 ELSE fines[q]
      BY <2>1, <2>4, <3>1 DEF Tipos, TypeOK
    <3>3. Unicos'
      BY <1>2, <2>1, <2>2, <3>1, SupuestosPlanificador DEF Unicos
    <3>4. Presentes'
      BY <1>1, <1>2, <2>1, <2>3, <2>4, <2>5, <3>1, <3>2 DEF Presentes
    <3>5. QED
      BY <3>3, <3>4
  <2>7. CASE ReencolarDesalojada(w)
    <3>1. fines' = fines /\ Encolar(local[w])
      BY <2>7 DEF ReencolarDesalojada
    <3>2. /\ SinRepetidos(cola')
          /\ \A x \in Queries : EnCola(cola', x) <=> EnCola(cola, x) \/ x = local[w]
      BY <2>1, <2>3, <3>1, EncolarUna DEF Tipos, TypeOK, Unicos
    <3>3. Unicos'
      BY <1>2, <2>1, <2>2, <2>3, <3>2, SupuestosPlanificador DEF Unicos
    <3>4. Presentes'
      BY <1>1, <1>2, <2>1, <2>3, <2>4, <2>5, <3>1, <3>2 DEF Presentes
    <3>5. QED
      BY <3>3, <3>4
  <2>8. QED
    BY <1>4, <2>6, <2>7
<1>5. CASE AnunciarWorker(w) \/ MarcarLibre(w) \/ AvisarLibre(w)
           \/ AvisarDesalojada(w) \/ ConectarWorker(w)
  <2>1. UNCHANGED <<cola, local, fines>>
    BY <1>5 DEF AnunciarWorker, MarcarLibre, AvisarLibre, AvisarDesalojada,
                ConectarWorker, varsCola
  <2>2. ejecutando' = ejecutando
    BY <1>5 DEF AnunciarWorker, MarcarLibre, AvisarLibre, AvisarDesalojada,
       ConectarWorker, PasoWorker, HilosSanos, Cerrando, varsWorker, Tipos, TypeOK
  <2>3. SinRepetidos(cola')
    BY <2>1 DEF Unicos
  <2>4. QED
    BY <1>1, <1>2, <2>1, <2>2, <2>3, NadieSeMueve
<1>6. QED
  BY <1>3, <1>4, <1>5, SinLimpieza DEF PasoHiloWorker

LEMMA LugaresPaso ==
  ASSUME Tipos, ColaNuncaVacia, Salud, [Next]_vars, caidas' = caidas
  PROVE  Unicos' /\ Presentes'
<1> USE DEF Salud
<1>1. CASE UNCHANGED vars
  <2>1. UNCHANGED <<cola, plan, qPlan, hiloQ, ejecutando, local, fines>>
    BY <1>1 DEF vars, varsCola, varsPlan, varsHilos, varsWorker
  <2>2. QED
    BY <2>1 DEF Unicos, Presentes, EnPlan
<1>2. CASE Envejecer
  <2>1. UNCHANGED <<plan, qPlan, hiloQ, ejecutando, local, fines>>
    BY <1>2 DEF Envejecer, varsPlan, varsHilos, varsWorker
  <2>2. /\ SinRepetidos(cola')
        /\ \A q \in Queries : EnCola(cola', q) <=> EnCola(cola, q)
    BY <1>2, OrdenarConserva DEF Envejecer, Unicos, Tipos, TypeOK
  <2>3. QED
    BY <2>1, <2>2, NadieSeMueve DEF EnPlan
<1>3. CASE \E w \in Workers : CaerWorker(w)
  BY <1>3 DEF CaerWorker, Tipos, TypeOK
<1>4. QED
  BY <1>1, <1>2, <1>3, LugaresPlanificador, LugaresHiloQuery, LugaresWorker
     DEF Next, Entorno
-----------------------------------------------------------------------------
(***************************************************************************)
(* The tokens of the Workers, exactly.                                     *)
(***************************************************************************)

\* A send cannot fail: the Worker the planner took is connected.
LEMMA EnvioLlega ==
  ASSUME Tipos, HilosSanos, PlanSano, EnviarQuery
  PROVE  Alcanzable(wPlan) /\ plan = "enviar" /\ plan' = "esperaQuery"
<1>1. plan = "enviar" /\ wPlan \in Workers /\ ejecutando[wPlan] # Nada
  BY SupuestosPlanificador DEF EnviarQuery, PasoPlan, PlanSano, Tipos, Punteros
<1>2. Alcanzable(wPlan)
  BY <1>1 DEF Alcanzable, HilosSanos, Cerrando
<1>3. QED
  BY <1>1, <1>2 DEF EnviarQuery, PasoPlan

LEMMA TokensPlanificador ==
  ASSUME Tipos, HilosSanos, PlanSano, Cardinality(Libres) = TokensWorker, PasoPlanificador
  PROVE  Cardinality(Libres') = TokensWorker'
<1>1. hiloW' = hiloW /\ conectados' = conectados
  BY AjenoAlPlan DEF varsHilos
<1>2. LibresSinAvisar' = LibresSinAvisar
  BY <1>1 DEF LibresSinAvisar
<1>3. /\ Cardinality(Libres) \in Nat /\ Cardinality(LibresSinAvisar) \in Nat
      /\ TokenWorkerPlan \in Nat /\ semWorkers \in Nat /\ IsFiniteSet(Libres)
  BY LibresFinitos
<1>4. CASE obtener_worker_libre /\ plan' = "asignar"
  <2>1. PICK w \in Libres : libre' = [libre EXCEPT ![w] = FALSE]
    BY <1>4 DEF obtener_worker_libre, PasoPlan, Tomar
  <2>2. Libres' = Libres \ {w}
    BY <1>1, <2>1 DEF Libres, Tipos, TypeOK
  <2>3. Cardinality(Libres') = Cardinality(Libres) - 1
    BY <1>3, <2>1, <2>2, CardinalMenos
  <2>4. TokenWorkerPlan = 1 /\ TokenWorkerPlan' = 0 /\ semWorkers' = semWorkers
    BY <1>4 DEF obtener_worker_libre, PasoPlan, TokenWorkerPlan
  <2>5. QED
    BY <1>2, <1>3, <2>3, <2>4 DEF TokensWorker
<1>5. CASE ~(obtener_worker_libre /\ plan' = "asignar")
  <2>1. Libres' = Libres
    BY <1>1, <1>5 DEF PasoPlanificador, EsperarQuery, EsperarWorker, SacarQuery,
       obtener_worker_libre, AsignarQuery, EnviarQuery, Reencolar, DevolverQuery,
       DevolverWorker, varsWorker, Libres, PasoPlan
  <2>2. CASE EsperarWorker
    <3>1. /\ TokenWorkerPlan = 0 /\ TokenWorkerPlan' = 1
          /\ semWorkers' = semWorkers - 1
      BY <2>2 DEF EsperarWorker, PasoPlan, TokenWorkerPlan
    <3>2. QED
      BY <1>2, <1>3, <2>1, <3>1 DEF TokensWorker
  <2>3. CASE DevolverWorker
    <3>1. /\ TokenWorkerPlan = 1 /\ TokenWorkerPlan' = 0
          /\ semWorkers' = semWorkers + 1
      BY <2>3 DEF DevolverWorker, PasoPlan, TokenWorkerPlan, sem_post_workers
    <3>2. QED
      BY <1>2, <1>3, <2>1, <3>1 DEF TokensWorker
  <2>4. CASE ~EsperarWorker /\ ~DevolverWorker
    <3>1. semWorkers' = semWorkers
      BY <2>4 DEF PasoPlanificador, EsperarQuery, SacarQuery, obtener_worker_libre,
         AsignarQuery, EnviarQuery, Reencolar, DevolverQuery
    <3>2. TokenWorkerPlan' = TokenWorkerPlan
      BY <1>5, <2>4, EnvioLlega DEF PasoPlanificador, EsperarQuery, SacarQuery,
         obtener_worker_libre, AsignarQuery, Reencolar, DevolverQuery,
         PasoPlan, TokenWorkerPlan
    <3>3. QED
      BY <1>2, <2>1, <3>1, <3>2 DEF TokensWorker
  <2>5. QED
    BY <2>2, <2>3, <2>4
<1>6. QED
  BY <1>4, <1>5

LEMMA TokensWorkers ==
  ASSUME Tipos, HilosSanos, Cardinality(Libres) = TokensWorker, NEW w \in Workers,
         PasoHiloWorker(w) \/ ConectarWorker(w) \/ RecibirFin(w) \/ RecibirDesalojada(w)
  PROVE  Cardinality(Libres') = TokensWorker'
<1>1. /\ hiloW \in [Workers -> PasosWorker] /\ libre \in [Workers -> BOOLEAN]
      /\ conectados \subseteq Workers
  BY DEF Tipos, TypeOK
<1>2. plan' = plan
  BY DEF PasoHiloWorker, AnunciarWorker, MarcarLibre, AvisarLibre, TerminarQuery,
         ReencolarDesalojada, AvisarDesalojada, NotarCaida,
         manejar_desconexion_worker, ConectarWorker, RecibirFin,
         RecibirDesalojada, varsPlan
<1>3. TokenWorkerPlan' = TokenWorkerPlan /\ TokenWorkerPlan \in Nat
  BY <1>2 DEF TokenWorkerPlan
<1>4. /\ Cardinality(Libres) \in Nat /\ Cardinality(LibresSinAvisar) \in Nat
      /\ semWorkers \in Nat /\ IsFiniteSet(Libres) /\ IsFiniteSet(LibresSinAvisar)
  BY LibresFinitos
<1>5. CASE ConectarWorker(w) \/ MarcarLibre(w)
  <2>1. hiloW[w] \in Cerrando
    BY <1>5 DEF ConectarWorker, MarcarLibre, PasoWorker, Cerrando
  <2>2. w \notin Libres
    BY <2>1 DEF HilosSanos, Libres
  <2>3. Libres' = Libres \cup {w} /\ semWorkers' = semWorkers
    BY <1>1, <1>5 DEF ConectarWorker, MarcarLibre, Libres, PasoWorker, HilosSanos
  <2>4. /\ w \notin LibresSinAvisar
        /\ LibresSinAvisar' = LibresSinAvisar \cup {w}
    BY <1>1, <1>5 DEF ConectarWorker, MarcarLibre, PasoWorker, LibresSinAvisar
  <2>5. /\ Cardinality(Libres') = Cardinality(Libres) + 1
        /\ Cardinality(LibresSinAvisar') = Cardinality(LibresSinAvisar) + 1
    BY <1>4, <2>2, <2>3, <2>4, CardinalMas
  <2>6. QED
    BY <1>3, <1>4, <2>3, <2>5 DEF TokensWorker
<1>6. CASE AnunciarWorker(w) \/ AvisarLibre(w)
  <2>1. Libres' = Libres /\ semWorkers' = semWorkers + 1
    BY <1>6 DEF AnunciarWorker, AvisarLibre, varsWorker, Libres, sem_post_workers
  <2>2. /\ w \in LibresSinAvisar
        /\ LibresSinAvisar' = LibresSinAvisar \ {w}
    BY <1>1, <1>6 DEF AnunciarWorker, AvisarLibre, PasoWorker, LibresSinAvisar
  <2>3. Cardinality(LibresSinAvisar') = Cardinality(LibresSinAvisar) - 1
    BY <1>4, <2>2, CardinalMenos
  <2>4. QED
    BY <1>3, <1>4, <2>1, <2>3 DEF TokensWorker
<1>7. CASE \/ TerminarQuery(w) \/ ReencolarDesalojada(w) \/ AvisarDesalojada(w)
           \/ RecibirFin(w) \/ RecibirDesalojada(w)
  <2>1. Libres' = Libres /\ semWorkers' = semWorkers
    BY <1>7 DEF TerminarQuery, ReencolarDesalojada, AvisarDesalojada, RecibirFin,
                RecibirDesalojada, varsWorker, Libres
  <2>2. LibresSinAvisar' = LibresSinAvisar
    BY <1>1, <1>7 DEF TerminarQuery, ReencolarDesalojada, AvisarDesalojada,
       RecibirFin, RecibirDesalojada, PasoWorker, LibresSinAvisar
  <2>3. QED
    BY <1>3, <2>1, <2>2 DEF TokensWorker
<1>8. QED
  BY <1>5, <1>6, <1>7, SinLimpieza DEF PasoHiloWorker

LEMMA TokensPaso ==
  ASSUME Tipos, HilosSanos, PlanSano, Cardinality(Libres) = TokensWorker, [Next]_vars,
         caidas' = caidas
  PROVE  Cardinality(Libres') = TokensWorker'
<1>1. CASE UNCHANGED vars
  BY <1>1 DEF vars, varsWorker, varsPlan, varsHilos, TokensWorker, Libres,
              LibresSinAvisar, TokenWorkerPlan
<1>2. CASE \/ Envejecer
           \/ \E q \in Queries : PasoHiloQuery(q) \/ CrearQuery(q) \/ DesconectarQC(q)
  <2>1. UNCHANGED <<semWorkers, varsWorker, hiloW, varsPlan>>
    BY <1>2, AjenoAQuery DEF Envejecer, varsHilos
  <2>2. QED
    BY <2>1 DEF varsWorker, varsPlan, TokensWorker, Libres, LibresSinAvisar,
                TokenWorkerPlan
<1>3. CASE \E w \in Workers : CaerWorker(w)
  BY <1>3 DEF CaerWorker, Tipos, TypeOK
<1>4. QED
  BY <1>1, <1>2, <1>3, TokensPlanificador, TokensWorkers DEF Next, Entorno

-----------------------------------------------------------------------------
(***************************************************************************)
(* The invariant and what follows from it.                                 *)
(***************************************************************************)

\* Deaths are only counted up.
LEMMA CaidasCrecen ==
  ASSUME Tipos, [Next]_vars, caidas' = 0
  PROVE  caidas = 0 /\ caidas' = caidas
<1>1. ASSUME NEW w \in Workers, PasoHiloWorker(w) PROVE caidas' = caidas
  BY <1>1 DEF PasoHiloWorker, AnunciarWorker, MarcarLibre, AvisarLibre, TerminarQuery,
     ReencolarDesalojada, AvisarDesalojada, NotarCaida, manejar_desconexion_worker,
     varsProceso
<1>2. ASSUME NEW w \in Workers,
             ConectarWorker(w) \/ RecibirFin(w) \/ RecibirDesalojada(w)
      PROVE  caidas' = caidas
  BY <1>2 DEF ConectarWorker, RecibirFin, RecibirDesalojada
<1>3. ASSUME NEW w \in Workers, CaerWorker(w) PROVE caidas' # 0
  BY <1>3 DEF CaerWorker, Tipos, TypeOK
<1>4. CASE UNCHANGED vars \/ Envejecer
  BY <1>4 DEF vars, varsProceso, Envejecer
<1>5. QED
  BY <1>1, <1>2, <1>3, <1>4, AjenoAlPlan, AjenoAQuery DEF Next, Entorno, varsProceso

\* With a token in its hand, the planner finds a free Worker.
LEMMA LibreConToken ==
  ASSUME Tipos, Cardinality(Libres) = TokensWorker, plan = "buscar"
  PROVE  Libres # {}
<1>1. TokenWorkerPlan = 1
  BY DEF TokenWorkerPlan
<1>2. Cardinality(Libres) # 0
  BY <1>1, LibresFinitos DEF TokensWorker
<1>3. QED
  BY <1>2, FS_EmptySet

LEMMA ColaConToken == ASSUME Tipos, TokensDeQueries PROVE ColaNuncaVacia
  BY AvisosFinitos, LenProperties, EmptySeq
     DEF Tipos, TypeOK, TokensDeQueries, TokenQueryPlan, ColaNuncaVacia

LEMMA SanoInicial == Init => Sano /\ TokensDeWorkers
<1> SUFFICES ASSUME Init PROVE Sano /\ TokensDeWorkers
  OBVIOUS
<1>1. HilosSanos
  BY SupuestosPlanificador DEF Init, HilosSanos, ConLocal
<1>2. PlanSano
  BY DEF Init, PlanSano
<1>3. Envios
  BY DEF Init, Envios
<1>4. \A q \in Queries : /\ ~EnCola(cola, q) /\ ~EnPlan(q)
                         /\ \A w \in Workers : ejecutando[w] # q /\ local[w] # q
  BY SupuestosPlanificador, EmptySeq, LenProperties DEF Init, EnCola, EnPlan
<1>5. SinRepetidos(cola)
  BY EmptySeq DEF Init, SinRepetidos
<1>6. Unicos /\ Presentes
  BY <1>4, <1>5 DEF Init, Unicos, Presentes, Enviadas
<1>7. Libres = {} /\ LibresSinAvisar = {} /\ TokenWorkerPlan = 0
  BY DEF Init, Libres, LibresSinAvisar, TokenWorkerPlan
<1>8. TokensDeWorkers
  BY <1>7, FS_EmptySet DEF Init, TokensDeWorkers, TokensWorker
<1>9. QED
  BY <1>1, <1>2, <1>3, <1>6, <1>8 DEF Sano, Salud

LEMMA SanoPaso ==
  ASSUME Tipos, TokensDeQueries, Sano, TokensDeWorkers, [Next]_vars
  PROVE  Sano' /\ TokensDeWorkers'
<1> SUFFICES ASSUME caidas' = 0
             PROVE  Salud' /\ Cardinality(Libres') = TokensWorker'
  BY DEF Sano, TokensDeWorkers
<1>1. caidas' = caidas /\ Salud /\ Cardinality(Libres) = TokensWorker
  BY CaidasCrecen DEF Sano, TokensDeWorkers
<1>2. ColaNuncaVacia /\ (Libres # {} \/ plan # "buscar")
  BY <1>1, ColaConToken, LibreConToken
<1>3. HilosSanos' /\ PlanSano' /\ Envios'
  BY <1>1, <1>2, HilosPaso, PlanPaso, EnviosPaso DEF Salud
<1>4. Unicos' /\ Presentes'
  BY <1>1, <1>2, LugaresPaso
<1>5. QED
  BY <1>1, <1>3, <1>4, TokensPaso DEF Salud

\* Until a Worker is lost the records, the threads, the channels and the queue
\* agree, and the tokens count the free Workers.
THEOREM SaludSiempre == Spec => [](Tipos /\ TokensDeQueries /\ Sano /\ TokensDeWorkers)
<1>1. Init => Tipos /\ TokensDeQueries /\ Sano /\ TokensDeWorkers
  BY TiposInicial, TokensQueriesInicial, SanoInicial
<1>2. Tipos /\ TokensDeQueries /\ Sano /\ TokensDeWorkers /\ [Next]_vars
      => (Tipos /\ TokensDeQueries /\ Sano /\ TokensDeWorkers)'
  BY TiposPaso, TokensQueriesPaso, SanoPaso
<1>3. QED
  BY <1>1, <1>2, PTL DEF Spec

\* semWorkersDisponibles, the posts under way and the token in the planner's
\* hand count exactly the free Workers until one is lost.
THEOREM WorkersContados == Spec => []TokensDeWorkers
  BY SaludSiempre, PTL

\* The branch of planificador_fifo for no free Worker is not taken until a
\* Worker is lost.
THEOREM HayWorker == Spec => []SiempreHayWorker
<1>1. Tipos /\ TokensDeWorkers => SiempreHayWorker
  BY LibreConToken DEF TokensDeWorkers, SiempreHayWorker
<1>2. QED
  BY <1>1, SaludSiempre, PTL

\* The record of a Worker, the query it points to and what was sent to the
\* process agree until a Worker is lost: RecibirFin never drops an answer.
THEOREM AsignacionSiempreCoherente == Spec => []AsignacionCoherente
<1>1. Tipos /\ Sano => AsignacionCoherente
  <2> SUFFICES ASSUME Tipos, Salud, NEW w \in Workers
               PROVE  /\ ejecutando[w] # Nada =>
                           /\ ~libre[w] /\ estado[ejecutando[w]] = "EXEC"
                           /\ workerAsignado[ejecutando[w]] = w
                      /\ canal[w] # <<>> => canal[w] = <<ejecutando[w]>>
                      /\ ejecutando[w] # Nada /\ canal[w] = <<>> =>
                           plan = "enviar" /\ wPlan = w
    BY DEF Sano, AsignacionCoherente
  <2>1. ejecutando[w] # Nada => ~libre[w]
    BY DEF Salud, HilosSanos
  <2>2. canal[w] # <<>> => canal[w] = <<ejecutando[w]>>
    BY DEF Salud, Envios
  <2>3. ejecutando[w] # Nada /\ canal[w] = <<>> => plan = "enviar" /\ wPlan = w
    <3>1. <<ejecutando[w]>> # <<>>
      OBVIOUS
    <3>2. QED
      BY <3>1 DEF Salud, Envios
  <2>4. QED
    BY <2>1, <2>2, <2>3 DEF Salud, Envios
<1>2. QED
  BY <1>1, SaludSiempre, PTL

LEMMA UnLugar ==
  ASSUME Tipos, Salud, NEW q \in Queries
  PROVE  Cardinality(Lugares(q)) = IF hiloQ[q] \in Enviadas /\ fines[q] = 0 THEN 1 ELSE 0
<1> DEFINE Ejecuta == {v \in Workers : ejecutando[v] = q}
           Lleva   == {v \in Workers : local[v] = q}
           Puestos == {j \in 1..Len(cola) : cola[j] = q}
<1>1. Lugares(q) = {<<"cola", i>> : i \in Puestos}
                   \cup (IF EnPlan(q) THEN {<<"plan", 0>>} ELSE {})
                   \cup {<<"worker", w>> : w \in Ejecuta}
                   \cup {<<"hilo", w>> : w \in Lleva}
  BY DEF Lugares, EnPlan
<1>2. /\ Puestos # {} <=> EnCola(cola, q)
      /\ EnCola(cola, q) => \E i : Puestos = {i}
  <2>1. Puestos # {} <=> EnCola(cola, q)
    BY DEF EnCola
  <2>2. ASSUME NEW i \in Puestos PROVE Puestos = {i}
    BY DEF Salud, Unicos, SinRepetidos
  <2>3. QED
    BY <2>1, <2>2
<1>3. ASSUME NEW w \in Ejecuta PROVE Ejecuta = {w} /\ Lleva = {}
  <2>1. \A v \in Ejecuta : workerAsignado[q] = v
    BY SupuestosPlanificador DEF Salud, Envios
  <2>2. \A v \in Workers : local[v] # q
    BY DEF Salud, Unicos
  <2>3. QED
    BY <2>1, <2>2
<1>4. ASSUME NEW w \in Lleva PROVE Lleva = {w} /\ Ejecuta = {}
  BY DEF Salud, Unicos
<1>5. EnCola(cola, q) \/ EnPlan(q) => Ejecuta = {} /\ Lleva = {}
  BY DEF Salud, Unicos
<1>6. EnCola(cola, q) => ~EnPlan(q)
  BY DEF Salud, Unicos
<1>7. (EnCola(cola, q) \/ EnPlan(q) \/ Ejecuta # {} \/ Lleva # {})
        <=> (hiloQ[q] \in Enviadas /\ fines[q] = 0)
  BY DEF Salud, Presentes
<1> HIDE DEF Ejecuta, Lleva, Puestos
<1>8. CASE EnCola(cola, q)
  <2>1. PICK i : Puestos = {i}
    BY <1>2, <1>8
  <2>2. Lugares(q) = {<<"cola", i>>}
    BY <1>1, <1>5, <1>6, <1>8, <2>1
  <2>3. QED
    BY <1>7, <1>8, <2>2, FS_Singleton
<1>9. CASE EnPlan(q)
  <2>1. Lugares(q) = {<<"plan", 0>>}
    BY <1>1, <1>2, <1>5, <1>6, <1>9
  <2>2. QED
    BY <1>7, <1>9, <2>1, FS_Singleton
<1>10. CASE Ejecuta # {}
  <2>1. PICK w : Ejecuta = {w}
    BY <1>3, <1>10
  <2>2. Lugares(q) = {<<"worker", w>>}
    BY <1>1, <1>2, <1>3, <1>5, <2>1
  <2>3. QED
    BY <1>7, <1>10, <2>2, FS_Singleton
<1>11. CASE Lleva # {}
  <2>1. PICK w : Lleva = {w}
    BY <1>4, <1>11
  <2>2. Lugares(q) = {<<"hilo", w>>}
    BY <1>1, <1>2, <1>4, <1>5, <2>1
  <2>3. QED
    BY <1>7, <1>11, <2>2, FS_Singleton
<1>12. CASE ~(EnCola(cola, q) \/ EnPlan(q) \/ Ejecuta # {} \/ Lleva # {})
  <2>1. Lugares(q) = {}
    BY <1>1, <1>2, <1>12
  <2>2. QED
    BY <1>7, <1>12, <2>1, FS_EmptySet
<1>13. QED
  BY <1>8, <1>9, <1>10, <1>11, <1>12

\* Until a Worker is lost, no query is lost and none is in two places.
THEOREM LugarUnico == Spec => []UnSoloLugar
<1>1. Tipos /\ Sano => UnSoloLugar
  BY UnLugar DEF Sano, Salud, Presentes, Enviadas, UnSoloLugar
<1>2. QED
  BY <1>1, SaludSiempre, PTL
=============================================================================
