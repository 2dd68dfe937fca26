------------------------- MODULE PlanificadorProofs -------------------------
(***************************************************************************)
(* What holds of the Master's scheduler for any number of queries and      *)
(* Workers, any priorities and any Worker deaths.                          *)
(*                                                                         *)
(* Punteros says that the planner and the handlers hold a real pointer     *)
(* where they dereference one; without it the type of the READY queue is   *)
(* not inductive, since a NULL could be put in it.                         *)
(***************************************************************************)
EXTENDS Planificador, FiniteSetTheorems, SequenceTheorems, TLAPS

Punteros ==
  /\ plan \in {"buscar", "asignar", "enviar", "reencolar"} => qPlan \in Queries
  /\ plan \in {"asignar", "enviar"} => wPlan \in Workers
  /\ \A w \in Workers :
       hiloW[w] \in {"fin_libre", "fin_post", "fin_enviar",
                     "des_libre", "des_post", "des_encolar"} => local[w] \in Queries

Tipos == TypeOK /\ Punteros

\* A function updated with a value of its type keeps its type.
LEMMA Actualizar ==
  ASSUME NEW S, NEW T, NEW f \in [S -> T], NEW x, NEW v \in T
  PROVE  [f EXCEPT ![x] = v] \in [S -> T]
  OBVIOUS

\* Sorting a list gives a list of queries of the same length.
LEMMA OrdenacionesTipo ==
  ASSUME NEW s \in Seq(Queries), NEW p, NEW t \in Ordenaciones(s, p)
  PROVE  t \in Seq(Queries) /\ Len(t) = Len(s)
<1>1. t \in [1..Len(s) -> Queries] /\ Len(s) \in Nat
  BY DEF Ordenaciones
<1>2. t \in Seq(Queries)
  BY <1>1, SeqDef
<1>3. 1..Len(t) = 1..Len(s) /\ Len(t) \in Nat
  BY <1>1, <1>2, LenProperties
<1>4. QED
  BY <1>1, <1>2, <1>3

\* Enqueueing keeps the queue a list and makes it one longer.
LEMMA EncolarTipo ==
  ASSUME cola \in Seq(Queries), NEW q \in Queries, Encolar(q)
  PROVE  cola' \in Seq(Queries) /\ Len(cola') = Len(cola) + 1
<1>1. Append(cola, q) \in Seq(Queries) /\ Len(Append(cola, q)) = Len(cola) + 1
  BY AppendProperties
<1>2. CASE Algoritmo = "PRIORIDADES"
  BY <1>1, <1>2, OrdenacionesTipo DEF Encolar
<1>3. CASE Algoritmo # "PRIORIDADES"
  BY <1>1, <1>3 DEF Encolar
<1>4. QED
  BY <1>2, <1>3

LEMMA TiposInicial == Init => Tipos
<1>1. ASSUME Init PROVE TypeOK
  BY <1>1, SupuestosPlanificador DEF Init, TypeOK, PasosPlan, PasosQuery, PasosWorker
<1>2. ASSUME Init PROVE Punteros
  BY <1>2 DEF Init, Punteros
<1>3. QED
  BY <1>1, <1>2 DEF Tipos

LEMMA TiposPlanificador ==
  ASSUME Tipos, PasoPlanificador PROVE Tipos'
<1> USE DEF Tipos, TypeOK, Punteros, PasoPlan, PasosPlan, varsCola, varsQuery,
            varsWorker, varsPlan, varsProceso, varsHilos,
            sem_post_queries, sem_post_workers
<1>1. CASE EsperarQuery
  BY <1>1 DEF EsperarQuery, sem_wait_queries
<1>2. CASE EsperarWorker
  BY <1>2 DEF EsperarWorker
<1>3. CASE SacarQuery
  <2>1. CASE cola = <<>>
    BY <1>3, <2>1 DEF SacarQuery
  <2>2. CASE cola # <<>>
    <3>1. Head(cola) \in Queries /\ Tail(cola) \in Seq(Queries)
      BY <2>2, HeadTailProperties
    <3>2. QED
      BY <1>3, <2>2, <3>1 DEF SacarQuery, QuitarPrimera
  <2>3. QED
    BY <2>1, <2>2
<1>4. CASE obtener_worker_libre
  BY <1>4 DEF obtener_worker_libre, Tomar, Libres
<1>5. CASE AsignarQuery
  BY <1>5 DEF AsignarQuery
<1>6. CASE EnviarQuery
  <2>1. qPlan \in Queries /\ wPlan \in Workers
    BY <1>6 DEF EnviarQuery
  <2>2. Append(canal[wPlan], qPlan) \in Seq(Queries)
    BY <2>1, AppendProperties
  <2>3. canal' \in [Workers -> Seq(Queries)]
    BY <1>6, <2>1, <2>2 DEF EnviarQuery
  <2>4. QED
    BY <1>6, <2>1, <2>3 DEF EnviarQuery
<1>7. CASE Reencolar
  <2>1. <<qPlan>> \in Seq(Queries)
    BY <1>7 DEF Reencolar
  <2>2. <<qPlan>> \o cola \in Seq(Queries)
    BY <2>1, ConcatProperties
  <2>3. QED
    BY <1>7, <2>2 DEF Reencolar, VolverAlFrente
<1>8. CASE DevolverQuery
  BY <1>8 DEF DevolverQuery
<1>9. CASE DevolverWorker
  BY <1>9 DEF DevolverWorker
<1>10. QED
  BY <1>1, <1>2, <1>3, <1>4, <1>5, <1>6, <1>7, <1>8, <1>9 DEF PasoPlanificador

LEMMA TiposHiloQuery ==
  ASSUME Tipos, NEW q \in Queries, PasoHiloQuery(q) \/ CrearQuery(q) \/ DesconectarQC(q)
  PROVE  Tipos'
<1> USE DEF Tipos, TypeOK, Punteros, PasoQuery, PasosQuery, varsCola, varsQuery,
            varsWorker, varsPlan, varsProceso, sem_post_queries
<1>1. CASE EncolarNueva(q)
  <2>1. cola' \in Seq(Queries)
    BY <1>1, EncolarTipo DEF EncolarNueva
  <2>2. QED
    BY <1>1, <2>1 DEF EncolarNueva
<1>2. CASE AvisarNueva(q)
  BY <1>2 DEF AvisarNueva
<1>3. CASE CrearQuery(q)
  <2>1. /\ qid' = [qid EXCEPT ![q] = nextQid]
        /\ estado' = [estado EXCEPT ![q] = "READY"]
        /\ hiloQ' = [hiloQ EXCEPT ![q] = "creada"]
    BY <1>3 DEF CrearQuery
  <2>2. /\ qid' \in [Queries -> Nat]
        /\ estado' \in [Queries -> {"NUEVA", "READY", "EXEC", "EXIT"}]
        /\ hiloQ' \in [Queries -> PasosQuery]
    BY <2>1, Actualizar
  <2>3. QED
    BY <1>3, <2>2 DEF CrearQuery
<1>4. CASE DesconectarQC(q)
  BY <1>4 DEF DesconectarQC
<1>5. QED
  BY <1>1, <1>2, <1>3, <1>4 DEF PasoHiloQuery

\* Taking the oldest message off a Worker's channel.
LEMMA CanalTipo ==
  ASSUME canal \in [Workers -> Seq(Queries)], NEW w \in Workers, canal[w] # <<>>
  PROVE  /\ Head(canal[w]) \in Queries
         /\ [canal EXCEPT ![w] = Tail(@)] \in [Workers -> Seq(Queries)]
<1>1. canal[w] \in Seq(Queries)
  OBVIOUS
<1>2. Head(canal[w]) \in Queries /\ Tail(canal[w]) \in Seq(Queries)
  BY <1>1, HeadTailProperties
<1>3. QED
  BY <1>2

\* A thread of a Worker that moves from a program counter to another.
LEMMA HiloTipo ==
  ASSUME hiloW \in [Workers -> PasosWorker], NEW w, NEW de, NEW a \in PasosWorker,
         PasoWorker(w, de, a)
  PROVE  hiloW' \in [Workers -> PasosWorker]
  BY Actualizar DEF PasoWorker

LEMMA TiposHiloWorker ==
  ASSUME Tipos, NEW w \in Workers, PasoHiloWorker(w)
  PROVE  Tipos'
<1> USE DEF Tipos, varsCola, varsQuery, varsWorker, varsPlan, varsProceso, varsHilos,
            sem_post_queries, sem_post_workers, enviar_fin_query
<1>a. {"fuera", "loop", "caida", "fin_libre", "fin_post", "fin_enviar", "des_libre",
        "des_post", "des_encolar", "des_postq"} \subseteq PasosWorker
  BY DEF PasosWorker
<1>b. hiloW \in [Workers -> PasosWorker]
  BY DEF TypeOK
<1>1. CASE AnunciarWorker(w)
  <2>1. hiloW' \in [Workers -> PasosWorker]
    BY <1>1, <1>a, <1>b, HiloTipo DEF AnunciarWorker
  <2>2. TypeOK'
    BY <1>1, <2>1 DEF AnunciarWorker, TypeOK
  <2>3. Punteros'
    BY <1>1 DEF AnunciarWorker, Punteros, PasoWorker, TypeOK
  <2>4. QED
    BY <2>2, <2>3
<1>2. CASE MarcarLibre(w)
  <2>1. hiloW' \in [Workers -> PasosWorker]
    BY <1>2, <1>a, <1>b, HiloTipo DEF MarcarLibre
  <2>2. TypeOK'
    BY <1>2, <2>1 DEF MarcarLibre, TypeOK
  <2>3. Punteros'
    BY <1>2 DEF MarcarLibre, Punteros, PasoWorker, TypeOK
  <2>4. QED
    BY <2>2, <2>3
<1>3. CASE AvisarLibre(w)
  <2>1. hiloW' \in [Workers -> PasosWorker]
    BY <1>3, <1>a, <1>b, HiloTipo DEF AvisarLibre
  <2>2. TypeOK'
    BY <1>3, <2>1 DEF AvisarLibre, TypeOK
  <2>3. Punteros'
    BY <1>3 DEF AvisarLibre, Punteros, PasoWorker, TypeOK
  <2>4. QED
    BY <2>2, <2>3
<1>4. CASE TerminarQuery(w)
  <2>1. hiloW' \in [Workers -> PasosWorker]
    BY <1>4, <1>a, <1>b, HiloTipo DEF TerminarQuery
  <2>2. local[w] \in Queries /\ fines[local[w]] + 1 \in Nat
    BY <1>4 DEF TerminarQuery, PasoWorker, Punteros, TypeOK
  <2>3. /\ estado' = [estado EXCEPT ![local[w]] = "EXIT"]
        /\ fines' = [fines EXCEPT ![local[w]] = fines[local[w]] + 1]
        /\ local' = [local EXCEPT ![w] = Nada]
    BY <1>4 DEF TerminarQuery
  <2>4. /\ estado' \in [Queries -> {"NUEVA", "READY", "EXEC", "EXIT"}]
        /\ fines' \in [Queries -> Nat]
        /\ local' \in [Workers -> Queries \cup {Nada}]
    BY <2>2, <2>3, Actualizar DEF TypeOK
  <2>5. TypeOK'
    BY <1>4, <2>1, <2>4 DEF TerminarQuery, TypeOK
  <2>6. Punteros'
    BY <1>4 DEF TerminarQuery, Punteros, PasoWorker, TypeOK
  <2>7. QED
    BY <2>5, <2>6
<1>5. CASE ReencolarDesalojada(w)
  <2>1. hiloW' \in [Workers -> PasosWorker]
    BY <1>5, <1>a, <1>b, HiloTipo DEF ReencolarDesalojada
  <2>2. cola' \in Seq(Queries)
    BY <1>5, EncolarTipo DEF ReencolarDesalojada, TypeOK, Punteros, PasoWorker
  <2>3. TypeOK'
    BY <1>5, <2>1, <2>2 DEF ReencolarDesalojada, TypeOK
  <2>4. Punteros'
    BY <1>5 DEF ReencolarDesalojada, Punteros, PasoWorker, TypeOK
  <2>5. QED
    BY <2>3, <2>4
<1>6. CASE AvisarDesalojada(w)
  <2>1. hiloW' \in [Workers -> PasosWorker]
    BY <1>6, <1>a, <1>b, HiloTipo DEF AvisarDesalojada
  <2>2. TypeOK'
    BY <1>6, <2>1 DEF AvisarDesalojada, TypeOK
  <2>3. Punteros'
    BY <1>6 DEF AvisarDesalojada, Punteros, PasoWorker, TypeOK
  <2>4. QED
    BY <2>2, <2>3
<1>7. CASE NotarCaida(w)
  <2>1. hiloW' \in [Workers -> PasosWorker]
    BY <1>7, <1>a, <1>b, HiloTipo DEF NotarCaida
  <2>2. TypeOK'
    BY <1>7, <2>1 DEF NotarCaida, TypeOK
  <2>3. Punteros'
    BY <1>7 DEF NotarCaida, Punteros, PasoWorker, TypeOK
  <2>4. QED
    BY <2>2, <2>3
<1>8. CASE manejar_desconexion_worker(w)
  <2>1. hiloW' \in [Workers -> PasosWorker]
    BY <1>8, <1>a, <1>b, HiloTipo DEF manejar_desconexion_worker
  <2>2. Punteros'
    BY <1>8 DEF manejar_desconexion_worker, Punteros, PasoWorker, TypeOK
  <2>3. CASE ejecutando[w] # Nada
    <3>1. ejecutando[w] \in Queries /\ fines[ejecutando[w]] + 1 \in Nat
      BY <2>3 DEF TypeOK
    <3>2. /\ estado' = [estado EXCEPT ![ejecutando[w]] = "EXIT"]
          /\ fines' = [fines EXCEPT ![ejecutando[w]] = fines[ejecutando[w]] + 1]
          /\ workerAsignado' = [workerAsignado EXCEPT ![ejecutando[w]] = Nada]
      BY <1>8, <2>3 DEF manejar_desconexion_worker
    <3>3. /\ estado' \in [Queries -> {"NUEVA", "READY", "EXEC", "EXIT"}]
          /\ fines' \in [Queries -> Nat]
          /\ workerAsignado' \in [Queries -> Workers \cup {Nada}]
      BY <3>1, <3>2, Actualizar DEF TypeOK
    <3>4. TypeOK'
      BY <1>8, <2>1, <3>3 DEF manejar_desconexion_worker, TypeOK
    <3>5. QED
      BY <2>2, <3>4
  <2>4. CASE ejecutando[w] = Nada
    <3>1. TypeOK'
      BY <1>8, <2>1, <2>4 DEF manejar_desconexion_worker, TypeOK
    <3>2. QED
      BY <2>2, <3>1
  <2>5. QED
    BY <2>3, <2>4
<1> HIDE DEF Tipos
<1>9. QED
  BY <1>1, <1>2, <1>3, <1>4, <1>5, <1>6, <1>7, <1>8 DEF PasoHiloWorker

LEMMA TiposProceso ==
  ASSUME Tipos, NEW w \in Workers,
         ConectarWorker(w) \/ RecibirFin(w) \/ RecibirDesalojada(w) \/ CaerWorker(w)
  PROVE  Tipos'
<1> USE DEF Tipos, varsCola, varsQuery, varsWorker, varsPlan, varsProceso, varsHilos
<1>a. {"fuera", "alta", "loop", "fin_libre", "des_libre"} \subseteq PasosWorker
  BY DEF PasosWorker
<1>b. hiloW \in [Workers -> PasosWorker]
  BY DEF TypeOK
<1>1. CASE ConectarWorker(w)
  <2>1. hiloW' \in [Workers -> PasosWorker]
    BY <1>1, <1>a, <1>b, HiloTipo DEF ConectarWorker
  <2>2. canal' \in [Workers -> Seq(Queries)]
    BY <1>1, EmptySeq, Actualizar DEF ConectarWorker, TypeOK
  <2>3. TypeOK'
    BY <1>1, <2>1, <2>2 DEF ConectarWorker, TypeOK
  <2>4. Punteros'
    BY <1>1 DEF ConectarWorker, Punteros, PasoWorker, TypeOK
  <2>5. QED
    BY <2>3, <2>4
<1>2. CASE RecibirFin(w)
  <2>1. Head(canal[w]) \in Queries /\ canal' \in [Workers -> Seq(Queries)]
    BY <1>2, CanalTipo DEF RecibirFin, TypeOK
  <2>2. CASE ejecutando[w] = Head(canal[w])
    <3>1. /\ local' = [local EXCEPT ![w] = Head(canal[w])]
          /\ ejecutando' = [ejecutando EXCEPT ![w] = Nada]
          /\ PasoWorker(w, "loop", "fin_libre")
      BY <1>2, <2>2 DEF RecibirFin
    <3>2. /\ local' \in [Workers -> Queries \cup {Nada}]
          /\ ejecutando' \in [Workers -> Queries \cup {Nada}]
          /\ hiloW' \in [Workers -> PasosWorker]
      BY <2>1, <3>1, <1>a, <1>b, HiloTipo, Actualizar DEF TypeOK
    <3>3. Punteros'
      BY <1>2, <2>1, <3>1 DEF RecibirFin, Punteros, PasoWorker, TypeOK
    <3>4. TypeOK'
      BY <1>2, <2>1, <3>2 DEF RecibirFin, TypeOK
    <3>5. QED
      BY <3>3, <3>4
  <2>3. CASE ejecutando[w] # Head(canal[w])
    <3>1. UNCHANGED <<ejecutando, local, hiloW>>
      BY <1>2, <2>3 DEF RecibirFin
    <3>2. TypeOK'
      BY <1>2, <2>1, <3>1 DEF RecibirFin, TypeOK
    <3>3. Punteros'
      BY <1>2, <3>1 DEF RecibirFin, Punteros
    <3>4. QED
      BY <3>2, <3>3
  <2>4. QED
    BY <2>2, <2>3
<1>3. CASE RecibirDesalojada(w)
  <2>1. Head(canal[w]) \in Queries /\ canal' \in [Workers -> Seq(Queries)]
    BY <1>3, CanalTipo DEF RecibirDesalojada, TypeOK
  <2>2. CASE ejecutando[w] = Head(canal[w])
    <3>1. PICK p \in pc[Head(canal[w])]+1..MaxPc :
            pc' = [pc EXCEPT ![Head(canal[w])] = p]
      BY <1>3, <2>2 DEF RecibirDesalojada
    <3>2. pc[Head(canal[w])] \in 0..MaxPc /\ MaxPc \in Nat
      BY <2>1, SupuestosPlanificador DEF TypeOK
    <3>3. p \in 0..MaxPc
      BY <3>1, <3>2
    <3>4. pc' \in [Queries -> 0..MaxPc]
      BY <3>1, <3>3, Actualizar DEF TypeOK
    <3>5. /\ estado' = [estado EXCEPT ![Head(canal[w])] = "READY"]
          /\ workerAsignado' = [workerAsignado EXCEPT ![Head(canal[w])] = Nada]
          /\ ejecutando' = [ejecutando EXCEPT ![w] = Nada]
          /\ local' = [local EXCEPT ![w] = Head(canal[w])]
          /\ PasoWorker(w, "loop", "des_libre")
      BY <1>3, <2>2 DEF RecibirDesalojada
    <3>6. /\ estado' \in [Queries -> {"NUEVA", "READY", "EXEC", "EXIT"}]
          /\ workerAsignado' \in [Queries -> Workers \cup {Nada}]
      BY <3>5, Actualizar DEF TypeOK
    <3>7. /\ ejecutando' \in [Workers -> Queries \cup {Nada}]
          /\ local' \in [Workers -> Queries \cup {Nada}]
          /\ hiloW' \in [Workers -> PasosWorker]
      BY <2>1, <3>5, <1>a, <1>b, HiloTipo, Actualizar DEF TypeOK
    <3>8. Punteros'
      BY <1>3, <2>1, <3>5 DEF RecibirDesalojada, Punteros, PasoWorker, TypeOK
    <3>9. TypeOK'
      BY <1>3, <2>1, <3>4, <3>6, <3>7 DEF RecibirDesalojada, TypeOK
    <3>10. QED
      BY <3>8, <3>9
  <2>3. CASE ejecutando[w] # Head(canal[w])
    <3>1. UNCHANGED <<pc, estado, workerAsignado, ejecutando, local, hiloW>>
      BY <1>3, <2>3 DEF RecibirDesalojada
    <3>2. TypeOK'
      BY <1>3, <2>1, <3>1 DEF RecibirDesalojada, TypeOK
    <3>3. Punteros'
      BY <1>3, <3>1 DEF RecibirDesalojada, Punteros
    <3>4. QED
      BY <3>2, <3>3
  <2>4. QED
    BY <2>2, <2>3
<1>4. CASE CaerWorker(w)
  <2>1. TypeOK'
    BY <1>4 DEF CaerWorker, TypeOK
  <2>2. Punteros'
    BY <1>4 DEF CaerWorker, Punteros
  <2>3. QED
    BY <2>1, <2>2
<1> HIDE DEF Tipos
<1>5. QED
  BY <1>1, <1>2, <1>3, <1>4

LEMMA TiposEnvejecer == ASSUME Tipos, Envejecer PROVE Tipos'
<1> USE DEF Tipos, TypeOK, Punteros, varsCola, varsQuery, varsWorker, varsPlan,
            varsProceso, varsHilos
<1>1. cola' \in Seq(Queries)
  BY OrdenacionesTipo DEF Envejecer
<1>2. prioridad' \in [Queries -> Nat]
  <2> DEFINE baja(q) == prioridad[q] > 0 /\ \E i \in 1..Len(cola) : cola[i] = q
  <2>1. prioridad' = [q \in Queries |-> IF baja(q) THEN prioridad[q] - 1
                                                    ELSE prioridad[q]]
    BY DEF Envejecer
  <2>2. \A q \in Queries : baja(q) => prioridad[q] > 0
    OBVIOUS
  <2> HIDE DEF baja
  <2>3. QED
    BY <2>1, <2>2
<1>3. QED
  BY <1>1, <1>2 DEF Envejecer

LEMMA TiposPaso == ASSUME Tipos, [Next]_vars PROVE Tipos'
<1>1. CASE UNCHANGED vars
  BY <1>1 DEF Tipos, TypeOK, Punteros, vars, varsCola, varsQuery, varsWorker,
              varsPlan, varsProceso, varsHilos
<1>2. CASE Next
  BY <1>2, TiposPlanificador, TiposHiloQuery, TiposHiloWorker, TiposProceso,
     TiposEnvejecer DEF Next, Entorno
<1>3. QED
  BY <1>1, <1>2

\* Every variable keeps its type, whatever Workers die and whatever becomes of
\* the blocks of memory they leave behind.
THEOREM TypeCorrect == Spec => []TypeOK
<1>1. Spec => []Tipos
  BY TiposInicial, TiposPaso, PTL DEF Spec
<1>2. Tipos => TypeOK
  BY DEF Tipos
<1>3. QED
  BY <1>1, <1>2, PTL

-----------------------------------------------------------------------------
(***************************************************************************)
(* The semaphore of queries.                                               *)
(***************************************************************************)

USE SupuestosPlanificador

LEMMA CardinalMas ==
  ASSUME NEW S, IsFiniteSet(S), NEW x, x \notin S
  PROVE  Cardinality(S) \in Nat /\ Cardinality(S \cup {x}) = Cardinality(S) + 1
  BY FS_AddElement, FS_CardinalityType

LEMMA CardinalMenos ==
  ASSUME NEW S, IsFiniteSet(S), NEW x, x \in S
  PROVE  Cardinality(S) \in Nat /\ Cardinality(S \ {x}) = Cardinality(S) - 1
  BY FS_RemoveElement, FS_CardinalityType

LEMMA AvisosFinitos ==
  /\ IsFiniteSet(SinAvisar) /\ Cardinality(SinAvisar) \in Nat
  /\ IsFiniteSet(DesalojadasSinAvisar) /\ Cardinality(DesalojadasSinAvisar) \in Nat
  /\ TokenQueryPlan \in Nat
<1>1. SinAvisar \subseteq Queries /\ DesalojadasSinAvisar \subseteq Workers
  BY DEF SinAvisar, DesalojadasSinAvisar
<1>2. IsFiniteSet(SinAvisar) /\ IsFiniteSet(DesalojadasSinAvisar)
  BY <1>1, FS_Subset DEF SupuestosPlanificador
<1>3. TokenQueryPlan \in Nat
  BY DEF TokenQueryPlan
<1>4. QED
  BY <1>2, <1>3, FS_CardinalityType

\* A step that touches neither the queue nor its tokens.
LEMMA TokensQueriesAjenos ==
  ASSUME TokensDeQueries, UNCHANGED <<cola, semQueries>>,
         SinAvisar' = SinAvisar, DesalojadasSinAvisar' = DesalojadasSinAvisar,
         TokenQueryPlan' = TokenQueryPlan
  PROVE  TokensDeQueries'
  BY DEF TokensDeQueries

LEMMA TokensQueriesPlanificador ==
  ASSUME Tipos, TokensDeQueries, PasoPlanificador PROVE TokensDeQueries'
<1>1. cola \in Seq(Queries) /\ semQueries \in Nat /\ Len(cola) \in Nat
  BY LenProperties DEF Tipos, TypeOK
<1>2. hiloQ' = hiloQ /\ hiloW' = hiloW
  BY DEF PasoPlanificador, EsperarQuery, EsperarWorker, SacarQuery,
         obtener_worker_libre, AsignarQuery, EnviarQuery, Reencolar,
         DevolverQuery, DevolverWorker, varsHilos
<1>3. SinAvisar' = SinAvisar /\ DesalojadasSinAvisar' = DesalojadasSinAvisar
  BY <1>2 DEF SinAvisar, DesalojadasSinAvisar
<1>4. CASE EsperarQuery
  BY <1>1, <1>3, <1>4, AvisosFinitos DEF EsperarQuery, sem_wait_queries, PasoPlan,
     TokensDeQueries, TokenQueryPlan
<1>5. CASE SacarQuery
  <2>1. CASE cola = <<>>
    BY <1>3, <1>5, <2>1, TokensQueriesAjenos DEF SacarQuery, PasoPlan, TokenQueryPlan
  <2>2. CASE cola # <<>>
    <3>1. Len(cola') = Len(cola) - 1
      BY <1>1, <1>5, <2>2, HeadTailProperties DEF SacarQuery, QuitarPrimera
    <3>2. semQueries' = semQueries /\ TokenQueryPlan = 1 /\ TokenQueryPlan' = 0
      BY <1>5, <2>2 DEF SacarQuery, PasoPlan, TokenQueryPlan
    <3>3. QED
      BY <1>1, <1>3, <3>1, <3>2, AvisosFinitos DEF TokensDeQueries
  <2>3. QED
    BY <2>1, <2>2
<1>6. CASE Reencolar
  <2>1. <<qPlan>> \in Seq(Queries) /\ Len(<<qPlan>>) = 1
    BY <1>6 DEF Reencolar, PasoPlan, Tipos, Punteros
  <2>2. Len(cola') = Len(cola) + 1
    BY <1>1, <1>6, <2>1, ConcatProperties DEF Reencolar, VolverAlFrente
  <2>3. semQueries' = semQueries /\ TokenQueryPlan = 0 /\ TokenQueryPlan' = 1
    BY <1>6 DEF Reencolar, PasoPlan, TokenQueryPlan
  <2>4. QED
    BY <1>1, <1>3, <2>2, <2>3, AvisosFinitos DEF TokensDeQueries
<1>7. CASE DevolverQuery
  BY <1>1, <1>3, <1>7, AvisosFinitos DEF DevolverQuery, sem_post_queries, PasoPlan,
     TokensDeQueries, TokenQueryPlan
<1>8. CASE EsperarWorker \/ obtener_worker_libre \/ AsignarQuery \/ EnviarQuery
           \/ DevolverWorker
  <2>1. UNCHANGED <<cola, semQueries>> /\ TokenQueryPlan' = TokenQueryPlan
    BY <1>8 DEF EsperarWorker, obtener_worker_libre, AsignarQuery, EnviarQuery,
                DevolverWorker, PasoPlan, TokenQueryPlan, varsCola
  <2>2. QED
    BY <1>3, <2>1, TokensQueriesAjenos
<1>9. QED
  BY <1>4, <1>5, <1>6, <1>7, <1>8 DEF PasoPlanificador

LEMMA TokensQueriesHiloQuery ==
  ASSUME Tipos, TokensDeQueries, NEW q \in Queries,
         PasoHiloQuery(q) \/ CrearQuery(q) \/ DesconectarQC(q)
  PROVE  TokensDeQueries'
<1>1. cola \in Seq(Queries) /\ semQueries \in Nat /\ Len(cola) \in Nat
      /\ hiloQ \in [Queries -> PasosQuery]
  BY LenProperties DEF Tipos, TypeOK
<1>2. hiloW' = hiloW /\ plan' = plan
  BY DEF PasoHiloQuery, EncolarNueva, AvisarNueva, CrearQuery, DesconectarQC, varsPlan
<1>3. DesalojadasSinAvisar' = DesalojadasSinAvisar /\ TokenQueryPlan' = TokenQueryPlan
  BY <1>2 DEF DesalojadasSinAvisar, TokenQueryPlan
<1>4. CASE EncolarNueva(q)
  <2>1. q \notin SinAvisar /\ SinAvisar' = SinAvisar \cup {q}
    BY <1>1, <1>4 DEF EncolarNueva, PasoQuery, SinAvisar
  <2>2. Len(cola') = Len(cola) + 1 /\ semQueries' = semQueries
    BY <1>1, <1>4, EncolarTipo DEF EncolarNueva
  <2>3. Cardinality(SinAvisar') = Cardinality(SinAvisar) + 1
    BY <2>1, AvisosFinitos, CardinalMas
  <2>4. /\ semQueries \in Nat /\ Cardinality(SinAvisar) \in Nat
        /\ Cardinality(DesalojadasSinAvisar) \in Nat
        /\ TokenQueryPlan \in Nat /\ Len(cola) \in Nat
    BY <1>1, AvisosFinitos
  <2>5. semQueries + Cardinality(SinAvisar) + Cardinality(DesalojadasSinAvisar)
          + TokenQueryPlan = Len(cola)
    BY DEF TokensDeQueries
  <2>6. semQueries' + Cardinality(SinAvisar') + Cardinality(DesalojadasSinAvisar')
          + TokenQueryPlan' = Len(cola')
    BY <1>3, <2>2, <2>3, <2>4, <2>5
  <2>7. QED
    BY <2>6 DEF TokensDeQueries
<1>5. CASE AvisarNueva(q)
  <2>1. q \in SinAvisar /\ SinAvisar' = SinAvisar \ {q}
    BY <1>1, <1>5 DEF AvisarNueva, PasoQuery, SinAvisar
  <2>2. cola' = cola /\ semQueries' = semQueries + 1
    BY <1>5 DEF AvisarNueva, sem_post_queries
  <2>3. Cardinality(SinAvisar') = Cardinality(SinAvisar) - 1
    BY <2>1, AvisosFinitos, CardinalMenos
  <2>4. QED
    BY <1>1, <1>3, <2>2, <2>3, AvisosFinitos DEF TokensDeQueries
<1>6. CASE CrearQuery(q) \/ DesconectarQC(q)
  <2>1. SinAvisar' = SinAvisar
    BY <1>1, <1>6 DEF CrearQuery, DesconectarQC, PasoQuery, SinAvisar
  <2>2. UNCHANGED <<cola, semQueries>>
    BY <1>6 DEF CrearQuery, DesconectarQC, varsCola
  <2>3. QED
    BY <1>3, <2>1, <2>2, TokensQueriesAjenos
<1>7. QED
  BY <1>4, <1>5, <1>6 DEF PasoHiloQuery

LEMMA TokensQueriesWorker ==
  ASSUME Tipos, TokensDeQueries, NEW w \in Workers,
         \/ PasoHiloWorker(w) \/ ConectarWorker(w) \/ RecibirFin(w)
         \/ RecibirDesalojada(w) \/ CaerWorker(w)
  PROVE  TokensDeQueries'
<1>1. cola \in Seq(Queries) /\ semQueries \in Nat /\ Len(cola) \in Nat
      /\ hiloW \in [Workers -> PasosWorker]
  BY LenProperties DEF Tipos, TypeOK
<1>2. hiloQ' = hiloQ /\ plan' = plan
  BY DEF PasoHiloWorker, AnunciarWorker, MarcarLibre, AvisarLibre, TerminarQuery,
         ReencolarDesalojada, AvisarDesalojada, NotarCaida,
         manejar_desconexion_worker, ConectarWorker, RecibirFin,
         RecibirDesalojada, CaerWorker, varsPlan, varsHilos
<1>3. SinAvisar' = SinAvisar /\ TokenQueryPlan' = TokenQueryPlan
  BY <1>2 DEF SinAvisar, TokenQueryPlan
<1>4. CASE ReencolarDesalojada(w)
  <2>1. /\ w \notin DesalojadasSinAvisar
        /\ DesalojadasSinAvisar' = DesalojadasSinAvisar \cup {w}
    BY <1>1, <1>4 DEF ReencolarDesalojada, PasoWorker, DesalojadasSinAvisar
  <2>2. local[w] \in Queries
    BY <1>4 DEF ReencolarDesalojada, PasoWorker, Tipos, Punteros
  <2>3. Len(cola') = Len(cola) + 1 /\ semQueries' = semQueries
    BY <1>1, <1>4, <2>2, EncolarTipo DEF ReencolarDesalojada
  <2>4. Cardinality(DesalojadasSinAvisar') = Cardinality(DesalojadasSinAvisar) + 1
    BY <2>1, AvisosFinitos, CardinalMas
  <2>5. QED
    BY <1>1, <1>3, <2>3, <2>4, AvisosFinitos DEF TokensDeQueries
<1>5. CASE AvisarDesalojada(w)
  <2>1. /\ w \in DesalojadasSinAvisar
        /\ DesalojadasSinAvisar' = DesalojadasSinAvisar \ {w}
    BY <1>1, <1>5 DEF AvisarDesalojada, PasoWorker, DesalojadasSinAvisar
  <2>2. cola' = cola /\ semQueries' = semQueries + 1
    BY <1>5 DEF AvisarDesalojada, sem_post_queries
  <2>3. Cardinality(DesalojadasSinAvisar') = Cardinality(DesalojadasSinAvisar) - 1
    BY <2>1, AvisosFinitos, CardinalMenos
  <2>4. QED
    BY <1>1, <1>3, <2>2, <2>3, AvisosFinitos DEF TokensDeQueries
<1>6. CASE \/ AnunciarWorker(w) \/ MarcarLibre(w) \/ AvisarLibre(w)
           \/ TerminarQuery(w) \/ NotarCaida(w) \/ manejar_desconexion_worker(w)
           \/ ConectarWorker(w) \/ RecibirFin(w) \/ RecibirDesalojada(w)
           \/ CaerWorker(w)
  <2>1. DesalojadasSinAvisar' = DesalojadasSinAvisar
    BY <1>1, <1>6 DEF AnunciarWorker, MarcarLibre, AvisarLibre, TerminarQuery,
       NotarCaida, manejar_desconexion_worker, ConectarWorker, RecibirFin,
       RecibirDesalojada, CaerWorker, PasoWorker, DesalojadasSinAvisar, varsHilos
  <2>2. UNCHANGED <<cola, semQueries>>
    BY <1>6 DEF AnunciarWorker, MarcarLibre, AvisarLibre, TerminarQuery,
       NotarCaida, manejar_desconexion_worker, ConectarWorker, RecibirFin,
       RecibirDesalojada, CaerWorker, varsCola
  <2>3. QED
    BY <1>3, <2>1, <2>2, TokensQueriesAjenos
<1>7. QED
  BY <1>4, <1>5, <1>6 DEF PasoHiloWorker

LEMMA TokensQueriesPaso ==
  ASSUME Tipos, TokensDeQueries, [Next]_vars PROVE TokensDeQueries'
<1>1. CASE UNCHANGED vars
  BY <1>1 DEF vars, varsCola, varsPlan, varsHilos, TokensDeQueries, SinAvisar,
              DesalojadasSinAvisar, TokenQueryPlan
<1>2. CASE Envejecer
  <2>1. cola \in Seq(Queries) /\ Len(cola') = Len(cola)
    BY <1>2, OrdenacionesTipo DEF Envejecer, Tipos, TypeOK
  <2>2. QED
    BY <1>2, <2>1 DEF Envejecer, varsPlan, varsHilos, TokensDeQueries, SinAvisar,
                      DesalojadasSinAvisar, TokenQueryPlan
<1>3. QED
  BY <1>1, <1>2, TokensQueriesPlanificador, TokensQueriesHiloQuery,
     TokensQueriesWorker DEF Next, Entorno

LEMMA TokensQueriesInicial == Init => TokensDeQueries
<1> SUFFICES ASSUME Init PROVE TokensDeQueries
  OBVIOUS
<1>1. SinAvisar = {} /\ DesalojadasSinAvisar = {} /\ TokenQueryPlan = 0
  BY DEF Init, SinAvisar, DesalojadasSinAvisar, TokenQueryPlan
<1>2. Cardinality({}) = 0
  BY FS_EmptySet
<1>3. QED
  BY <1>1, <1>2 DEF Init, TokensDeQueries

\* semQueriesPendientes, the posts under way and the token in the planner's
\* hand always count the READY queue, even when Workers die.
THEOREM QueriesContadas == Spec => []TokensDeQueries
<1>1. Spec => [](Tipos /\ TokensDeQueries)
  BY TiposInicial, TiposPaso, TokensQueriesInicial, TokensQueriesPaso, PTL DEF Spec
<1>2. QED
  BY <1>1, PTL

\* The branch of planificador_fifo for an empty queue is never taken.
THEOREM ColaConQuery == Spec => []ColaNuncaVacia
<1>1. Tipos /\ TokensDeQueries => ColaNuncaVacia
  BY AvisosFinitos, LenProperties, EmptySeq
     DEF Tipos, TypeOK, TokensDeQueries, TokenQueryPlan, ColaNuncaVacia
<1>2. Spec => []Tipos
  BY TiposInicial, TiposPaso, PTL DEF Spec
<1>3. QED
  BY <1>1, <1>2, QueriesContadas, PTL

-----------------------------------------------------------------------------
(***************************************************************************)
(* The semaphore of Workers.                                               *)
(***************************************************************************)

LEMMA LibresFinitos ==
  ASSUME Tipos
  PROVE  /\ IsFiniteSet(Libres) /\ Cardinality(Libres) \in Nat
         /\ IsFiniteSet(LibresSinAvisar) /\ Cardinality(LibresSinAvisar) \in Nat
         /\ TokenWorkerPlan \in Nat /\ semWorkers \in Nat
<1>1. Libres \subseteq Workers /\ LibresSinAvisar \subseteq Workers
  BY DEF Tipos, TypeOK, Libres, LibresSinAvisar
<1>2. IsFiniteSet(Libres) /\ IsFiniteSet(LibresSinAvisar)
  BY <1>1, FS_Subset DEF SupuestosPlanificador
<1>3. TokenWorkerPlan \in Nat /\ semWorkers \in Nat
  BY DEF TokenWorkerPlan, Tipos, TypeOK
<1>4. QED
  BY <1>2, <1>3, FS_CardinalityType

\* A step that frees nobody and takes no token away.
LEMMA NingunLibreMas ==
  ASSUME Tipos, Tipos', NingunLibreOlvidado, Libres' \subseteq Libres,
         LibresSinAvisar' = LibresSinAvisar, semWorkers' = semWorkers,
         TokenWorkerPlan' >= TokenWorkerPlan
  PROVE  NingunLibreOlvidado'
<1>1. Cardinality(Libres') <= Cardinality(Libres)
  BY LibresFinitos, FS_Subset
<1>2. Cardinality(LibresSinAvisar') = Cardinality(LibresSinAvisar)
  OBVIOUS
<1>3. /\ Cardinality(Libres) \in Nat /\ Cardinality(LibresSinAvisar) \in Nat
      /\ TokenWorkerPlan \in Nat /\ semWorkers \in Nat
  BY LibresFinitos
<1>4. Cardinality(Libres') \in Nat /\ TokenWorkerPlan' \in Nat
  <2>1. IsFiniteSet(Libres')
    BY LibresFinitos, FS_Subset
  <2>2. QED
    BY <2>1, FS_CardinalityType DEF TokenWorkerPlan
<1>5. QED
  BY <1>1, <1>2, <1>3, <1>4 DEF NingunLibreOlvidado, TokensWorker

LEMMA LibresPlanificador ==
  ASSUME Tipos, Tipos', NingunLibreOlvidado, PasoPlanificador
  PROVE  NingunLibreOlvidado'
<1>1. hiloW' = hiloW /\ conectados' = conectados
  BY DEF PasoPlanificador, EsperarQuery, EsperarWorker, SacarQuery,
         obtener_worker_libre, AsignarQuery, EnviarQuery, Reencolar,
         DevolverQuery, DevolverWorker, varsHilos, varsWorker
<1>2. LibresSinAvisar' = LibresSinAvisar
  BY <1>1 DEF LibresSinAvisar
<1>3. /\ Cardinality(Libres) \in Nat /\ Cardinality(LibresSinAvisar) \in Nat
      /\ TokenWorkerPlan \in Nat /\ semWorkers \in Nat /\ IsFiniteSet(Libres)
  BY LibresFinitos
<1>4. CASE EsperarWorker \/ DevolverWorker
  <2>1. Libres' = Libres
    BY <1>1, <1>4 DEF EsperarWorker, DevolverWorker, varsWorker, Libres
  <2>2. CASE EsperarWorker
    <3>1. /\ TokenWorkerPlan = 0 /\ TokenWorkerPlan' = 1
          /\ semWorkers' = semWorkers - 1
      BY <2>2 DEF EsperarWorker, PasoPlan, TokenWorkerPlan
    <3>2. TokensWorker' = TokensWorker
      BY <1>2, <1>3, <3>1 DEF TokensWorker
    <3>3. QED
      BY <2>1, <3>2 DEF NingunLibreOlvidado
  <2>3. CASE DevolverWorker
    <3>1. /\ TokenWorkerPlan = 1 /\ TokenWorkerPlan' = 0
          /\ semWorkers' = semWorkers + 1
      BY <2>3 DEF DevolverWorker, PasoPlan, TokenWorkerPlan, sem_post_workers
    <3>2. TokensWorker' = TokensWorker
      BY <1>2, <1>3, <3>1 DEF TokensWorker
    <3>3. QED
      BY <2>1, <3>2 DEF NingunLibreOlvidado
  <2>4. QED
    BY <1>4, <2>2, <2>3
<1>5. CASE obtener_worker_libre
  <2>1. CASE plan' = "asignar"
    <3>1. PICK w \in Libres : libre' = [libre EXCEPT ![w] = FALSE]
      BY <1>5, <2>1 DEF obtener_worker_libre, PasoPlan, Tomar
    <3>2. Libres' = Libres \ {w}
      BY <1>1, <3>1 DEF Libres, Tipos, TypeOK
    <3>3. Cardinality(Libres') = Cardinality(Libres) - 1
      BY <1>3, <3>1, <3>2, CardinalMenos
    <3>4. /\ TokenWorkerPlan = 1 /\ TokenWorkerPlan' = 0
          /\ semWorkers' = semWorkers
      BY <1>5, <2>1 DEF obtener_worker_libre, PasoPlan, TokenWorkerPlan
    <3>5. QED
      BY <1>2, <1>3, <3>3, <3>4 DEF NingunLibreOlvidado, TokensWorker
  <2>2. CASE plan' # "asignar"
    <3>1. Libres' = Libres /\ semWorkers' = semWorkers
      BY <1>1, <1>5, <2>2 DEF obtener_worker_libre, PasoPlan, Libres
    <3>2. TokenWorkerPlan' = TokenWorkerPlan
      BY <1>5, <2>2 DEF obtener_worker_libre, PasoPlan, TokenWorkerPlan
    <3>3. QED
      BY <1>2, <1>3, <3>1, <3>2, NingunLibreMas
  <2>3. QED
    BY <2>1, <2>2
<1>6. CASE EsperarQuery \/ SacarQuery \/ AsignarQuery \/ EnviarQuery
           \/ Reencolar \/ DevolverQuery
  <2>1. Libres' = Libres /\ semWorkers' = semWorkers
    BY <1>1, <1>6 DEF EsperarQuery, SacarQuery, AsignarQuery, EnviarQuery,
       Reencolar, DevolverQuery, varsWorker, Libres
  <2>2. TokenWorkerPlan' >= TokenWorkerPlan
    BY <1>6 DEF EsperarQuery, SacarQuery, AsignarQuery, EnviarQuery,
       Reencolar, DevolverQuery, PasoPlan, TokenWorkerPlan
  <2>3. QED
    BY <1>2, <2>1, <2>2, NingunLibreMas
<1>7. QED
  BY <1>4, <1>5, <1>6 DEF PasoPlanificador

\* A Worker's thread frees its own record and owes a post for it.
LEMMA LibresMasUno ==
  ASSUME Tipos, Tipos', NingunLibreOlvidado, NEW w \in Workers,
         Libres' \subseteq Libres \cup {w}, w \notin LibresSinAvisar,
         LibresSinAvisar' = LibresSinAvisar \cup {w},
         semWorkers' = semWorkers, TokenWorkerPlan' = TokenWorkerPlan
  PROVE  NingunLibreOlvidado'
<1>1. /\ Cardinality(Libres) \in Nat /\ Cardinality(LibresSinAvisar) \in Nat
      /\ TokenWorkerPlan \in Nat /\ semWorkers \in Nat
      /\ IsFiniteSet(Libres) /\ IsFiniteSet(LibresSinAvisar)
  BY LibresFinitos
<1>2. Cardinality(LibresSinAvisar') = Cardinality(LibresSinAvisar) + 1
  BY <1>1, CardinalMas
<1>3. /\ IsFiniteSet(Libres \cup {w})
      /\ Cardinality(Libres \cup {w}) <= Cardinality(Libres) + 1
      /\ Cardinality(Libres \cup {w}) \in Nat
  <2>1. CASE w \in Libres
    <3>1. Libres \cup {w} = Libres
      BY <2>1
    <3>2. QED
      BY <1>1, <3>1
  <2>2. CASE w \notin Libres
    BY <1>1, <2>2, CardinalMas, FS_AddElement
  <2>3. QED
    BY <2>1, <2>2
<1>4. /\ Cardinality(Libres') <= Cardinality(Libres \cup {w})
      /\ IsFiniteSet(Libres')
  BY <1>3, FS_Subset
<1>5. Cardinality(Libres') \in Nat
  BY <1>4, FS_CardinalityType
<1>6. QED
  BY <1>1, <1>2, <1>3, <1>4, <1>5 DEF NingunLibreOlvidado, TokensWorker

LEMMA LibresWorker ==
  ASSUME Tipos, Tipos', NingunLibreOlvidado, NEW w \in Workers,
         \/ PasoHiloWorker(w) \/ ConectarWorker(w) \/ RecibirFin(w)
         \/ RecibirDesalojada(w) \/ CaerWorker(w)
  PROVE  NingunLibreOlvidado'
<1>1. /\ hiloW \in [Workers -> PasosWorker] /\ libre \in [Workers -> BOOLEAN]
      /\ conectados \subseteq Workers
  BY DEF Tipos, TypeOK
<1>2. plan' = plan
  BY DEF PasoHiloWorker, AnunciarWorker, MarcarLibre, AvisarLibre, TerminarQuery,
         ReencolarDesalojada, AvisarDesalojada, NotarCaida,
         manejar_desconexion_worker, ConectarWorker, RecibirFin,
         RecibirDesalojada, CaerWorker, varsPlan
<1>3. TokenWorkerPlan' = TokenWorkerPlan /\ TokenWorkerPlan \in Nat
  BY <1>2 DEF TokenWorkerPlan
<1>4. CASE ConectarWorker(w) \/ MarcarLibre(w)
  <2>1. Libres' \subseteq Libres \cup {w} /\ semWorkers' = semWorkers
    BY <1>1, <1>4 DEF ConectarWorker, MarcarLibre, Libres
  <2>2. /\ w \notin LibresSinAvisar
        /\ LibresSinAvisar' = LibresSinAvisar \cup {w}
    BY <1>1, <1>4 DEF ConectarWorker, MarcarLibre, PasoWorker, LibresSinAvisar
  <2>3. QED
    BY <1>3, <2>1, <2>2, LibresMasUno
<1>5. CASE AnunciarWorker(w) \/ AvisarLibre(w)
  <2>1. Libres' = Libres /\ semWorkers' = semWorkers + 1
    BY <1>5 DEF AnunciarWorker, AvisarLibre, varsWorker, Libres, sem_post_workers
  <2>2. /\ w \in LibresSinAvisar
        /\ LibresSinAvisar' = LibresSinAvisar \ {w}
    BY <1>1, <1>5 DEF AnunciarWorker, AvisarLibre, PasoWorker, LibresSinAvisar
  <2>3. Cardinality(LibresSinAvisar') = Cardinality(LibresSinAvisar) - 1
    BY <2>2, LibresFinitos, CardinalMenos
  <2>4. /\ Cardinality(Libres) \in Nat /\ Cardinality(LibresSinAvisar) \in Nat
        /\ semWorkers \in Nat
    BY LibresFinitos
  <2>5. QED
    BY <1>3, <2>1, <2>3, <2>4 DEF NingunLibreOlvidado, TokensWorker
<1>6. CASE \/ TerminarQuery(w) \/ ReencolarDesalojada(w) \/ AvisarDesalojada(w)
           \/ NotarCaida(w) \/ manejar_desconexion_worker(w) \/ RecibirFin(w)
           \/ RecibirDesalojada(w) \/ CaerWorker(w)
  <2>1. Libres' \subseteq Libres /\ semWorkers' = semWorkers
    BY <1>6 DEF TerminarQuery, ReencolarDesalojada, AvisarDesalojada, NotarCaida,
       manejar_desconexion_worker, RecibirFin, RecibirDesalojada, CaerWorker,
       varsWorker, Libres
  <2>2. LibresSinAvisar' = LibresSinAvisar
    BY <1>1, <1>6 DEF TerminarQuery, ReencolarDesalojada, AvisarDesalojada,
       NotarCaida, manejar_desconexion_worker, RecibirFin, RecibirDesalojada,
       CaerWorker, PasoWorker, LibresSinAvisar, varsHilos
  <2>3. QED
    BY <1>3, <2>1, <2>2, NingunLibreMas
<1>7. QED
  BY <1>4, <1>5, <1>6 DEF PasoHiloWorker

LEMMA LibresPaso ==
  ASSUME Tipos, Tipos', NingunLibreOlvidado, [Next]_vars PROVE NingunLibreOlvidado'
<1>1. CASE UNCHANGED vars
  BY <1>1 DEF vars, varsWorker, varsPlan, varsHilos, NingunLibreOlvidado,
              TokensWorker, Libres, LibresSinAvisar, TokenWorkerPlan
<1>2. CASE \/ Envejecer
           \/ \E q \in Queries : PasoHiloQuery(q) \/ CrearQuery(q) \/ DesconectarQC(q)
  <2>1. UNCHANGED <<semWorkers, conectados, libre, hiloW, plan>>
    BY <1>2 DEF Envejecer, PasoHiloQuery, EncolarNueva, AvisarNueva, CrearQuery,
                DesconectarQC, varsWorker, varsPlan, varsHilos
  <2>2. QED
    BY <2>1 DEF NingunLibreOlvidado, TokensWorker, Libres, LibresSinAvisar,
                TokenWorkerPlan
<1>3. QED
  BY <1>1, <1>2, LibresPlanificador, LibresWorker DEF Next, Entorno

LEMMA LibresInicial == Init => NingunLibreOlvidado
<1> SUFFICES ASSUME Init PROVE NingunLibreOlvidado
  OBVIOUS
<1>1. Libres = {} /\ LibresSinAvisar = {} /\ TokenWorkerPlan = 0
  BY DEF Init, Libres, LibresSinAvisar, TokenWorkerPlan
<1>2. Cardinality({}) = 0
  BY FS_EmptySet
<1>3. QED
  BY <1>1, <1>2 DEF Init, NingunLibreOlvidado, TokensWorker

\* No wakeup is lost: a free Worker always has a token in the semaphore, in a
\* post under way or in the planner's hand, even when Workers die.
THEOREM LibresContados == Spec => []NingunLibreOlvidado
<1>1. Tipos /\ [Next]_vars => Tipos'
  BY TiposPaso
<1>2. Tipos /\ NingunLibreOlvidado /\ [Next]_vars => NingunLibreOlvidado'
  BY <1>1, LibresPaso
<1>3. Spec => [](Tipos /\ NingunLibreOlvidado)
  BY TiposInicial, LibresInicial, <1>1, <1>2, PTL DEF Spec
<1>4. QED
  BY <1>3, PTL
=============================================================================
