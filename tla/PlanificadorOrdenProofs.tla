----------------------- MODULE PlanificadorOrdenProofs ----------------------
(***************************************************************************)
(* The order in which the Master's scheduler runs the queries, until the   *)
(* first Worker is lost: by priority and age under PRIORIDADES, by arrival *)
(* under FIFO, where the scheduler implements DespachoFIFO.                *)
(*                                                                         *)
(* Both rest on Salud (PlanificadorSanoProofs): no query goes back to the  *)
(* front of the queue, and the one that arrives was nowhere before.        *)
(***************************************************************************)
EXTENDS PlanificadorSanoProofs

-----------------------------------------------------------------------------
(***************************************************************************)
(* PRIORIDADES.                                                            *)
(***************************************************************************)

\* What is left of a sorted queue is sorted.
LEMMA OrdenadaSinPrimera ==
  ASSUME NEW s \in Seq(Queries), s # <<>>, NEW p, Ordenada(s, p)
  PROVE  Ordenada(Tail(s), p)
<1>1. /\ Len(s) \in Nat /\ Len(Tail(s)) = Len(s) - 1
      /\ \A i \in 1..Len(Tail(s)) : Tail(s)[i] = s[i + 1]
  BY HeadTailProperties, LenProperties
<1>2. ASSUME NEW i \in 1..Len(Tail(s)), NEW j \in 1..Len(Tail(s)), i < j
      PROVE  ~comparar_prioridad(p, Tail(s)[j], Tail(s)[i])
  <2>1. i + 1 \in 1..Len(s) /\ j + 1 \in 1..Len(s) /\ i + 1 < j + 1
    BY <1>1, <1>2
  <2>2. ~comparar_prioridad(p, s[j + 1], s[i + 1])
    BY <2>1 DEF Ordenada
  <2>3. QED
    BY <1>1, <2>2
<1>3. QED
  BY <1>2 DEF Ordenada

\* The order only looks at the priorities and the ages of those in the queue.
LEMMA MismoOrden ==
  ASSUME Ordenada(cola', prioridad'), cola' \in Seq(Queries),
         \A q \in Queries : EnCola(cola', q) => qid'[q] = qid[q]
  PROVE  Ordenada(cola, prioridad)'
<1>1. ASSUME NEW i \in 1..Len(cola')
      PROVE  qid'[cola'[i]] = qid[cola'[i]]
  BY ElementOfSeq DEF EnCola
<1>2. QED
  BY <1>1 DEF Ordenada, comparar_prioridad

LEMMA OrdenPaso ==
  ASSUME Tipos, Tipos', ColaNuncaVacia, Salud, Algoritmo = "PRIORIDADES",
         Ordenada(cola, prioridad), [Next]_vars, caidas' = caidas
  PROVE  Ordenada(cola, prioridad)'
<1>0. cola \in Seq(Queries) /\ cola' \in Seq(Queries)
  BY DEF Tipos, TypeOK
<1>1. ASSUME UNCHANGED <<cola, prioridad, qid>> PROVE Ordenada(cola, prioridad)'
  BY <1>0, <1>1, MismoOrden
<1>2. ASSUME NEW q, Encolar(q), UNCHANGED <<prioridad, qid>>
      PROVE  Ordenada(cola, prioridad)'
  BY <1>0, <1>2, MismoOrden DEF Encolar, Ordenaciones
<1>3. CASE SacarQuery
  <2>1. cola # <<>> /\ cola' = Tail(cola) /\ UNCHANGED <<prioridad, qid>>
    BY <1>3 DEF SacarQuery, PasoPlan, ColaNuncaVacia, QuitarPrimera, varsQuery
  <2>2. Ordenada(cola', prioridad')
    BY <1>0, <2>1, OrdenadaSinPrimera
  <2>3. QED
    BY <1>0, <2>1, <2>2, MismoOrden
<1>4. CASE PasoPlanificador /\ ~SacarQuery
  <2>1. cola' = cola
    BY <1>4 DEF PasoPlanificador, EsperarQuery, EsperarWorker, obtener_worker_libre,
       AsignarQuery, EnviarQuery, Reencolar, DevolverQuery, DevolverWorker,
       PasoPlan, varsCola, Salud, PlanSano
  <2>2. QED
    BY <1>1, <1>4, <2>1, AjenoAlPlan
<1>5. CASE \E q \in Queries : CrearQuery(q)
  <2>1. PICK q \in Queries : CrearQuery(q)
    BY <1>5
  <2>2. hiloQ[q] = "fuera" /\ cola' = cola /\ prioridad' = prioridad
        /\ qid' = [qid EXCEPT ![q] = nextQid]
    BY <2>1 DEF CrearQuery, PasoQuery, varsCola
  <2>3. ~EnCola(cola', q)
    BY <2>2 DEF Salud, Presentes, Enviadas
  <2>4. \A x \in Queries : EnCola(cola', x) => qid'[x] = qid[x]
    BY <2>2, <2>3 DEF Tipos, TypeOK
  <2>5. QED
    BY <1>0, <2>2, <2>4, MismoOrden
<1>6. CASE \E q \in Queries : PasoHiloQuery(q) \/ DesconectarQC(q)
  BY <1>1, <1>2, <1>6 DEF PasoHiloQuery, EncolarNueva, AvisarNueva, DesconectarQC,
                          varsCola, varsQuery
<1>7. CASE Envejecer
  <2>1. Ordenada(cola', prioridad') /\ qid' = qid
    BY <1>7 DEF Envejecer, Ordenaciones
  <2>2. QED
    BY <1>0, <2>1, MismoOrden
<1>8. ASSUME NEW w \in Workers, ReencolarDesalojada(w) PROVE Ordenada(cola, prioridad)'
  BY <1>2, <1>8 DEF ReencolarDesalojada, varsQuery
<1>9. ASSUME NEW w \in Workers,
             \/ PasoHiloWorker(w) \/ ConectarWorker(w) \/ RecibirFin(w)
             \/ RecibirDesalojada(w) \/ CaerWorker(w),
             ~ReencolarDesalojada(w)
      PROVE  Ordenada(cola, prioridad)'
  <2>1. UNCHANGED <<cola, prioridad, qid>>
    BY <1>9 DEF PasoHiloWorker, AnunciarWorker, MarcarLibre, AvisarLibre,
       TerminarQuery, AvisarDesalojada, NotarCaida, manejar_desconexion_worker,
       ConectarWorker, RecibirFin, RecibirDesalojada, CaerWorker, varsCola, varsQuery
  <2>2. QED
    BY <1>1, <2>1
<1>10. CASE UNCHANGED vars
  BY <1>1, <1>10 DEF vars, varsCola, varsQuery
<1>11. QED
  BY <1>3, <1>4, <1>5, <1>6, <1>7, <1>8, <1>9, <1>10 DEF Next, Entorno

\* Under PRIORIDADES the READY queue stays sorted until a Worker is lost.
THEOREM ColaSiempreOrdenada == Spec => []ColaOrdenada
<1> DEFINE Base == Tipos /\ TokensDeQueries /\ Sano /\ TokensDeWorkers
<1>1. Init => ColaOrdenada
  BY DEF Init, ColaOrdenada, Ordenada
<1>2. ASSUME Base, Base', ColaOrdenada, [Next]_vars PROVE ColaOrdenada'
  <2> SUFFICES ASSUME caidas' = 0, Algoritmo = "PRIORIDADES"
               PROVE  Ordenada(cola, prioridad)'
    BY DEF ColaOrdenada
  <2>1. caidas = 0 /\ caidas' = caidas
    BY <1>2, CaidasCrecen
  <2>2. Salud /\ Ordenada(cola, prioridad) /\ ColaNuncaVacia
    BY <1>2, <2>1, ColaConToken DEF Sano, ColaOrdenada
  <2>3. QED
    BY <1>2, <2>1, <2>2, OrdenPaso
<1>3. Spec => []Base
  BY SaludSiempre
<1>4. QED
  BY <1>1, <1>2, <1>3, PTL DEF Spec

\* Under PRIORIDADES no query whose priority aging brought to 0 is overtaken
\* by a younger one.
THEOREM SinInanicion == Spec => AgingSinInanicion
<1> DEFINE Primero ==
      \A q \in Queries :
        /\ caidas = 0 /\ Algoritmo = "PRIORIDADES"
        /\ plan = "sacar" /\ plan' = "buscar"
        /\ \E i \in 1..Len(cola) : cola[i] = q /\ prioridad[q] = 0
        => qid[qPlan'] <= qid[q]
<1>1. ASSUME Tipos, ColaOrdenada, [Next]_vars PROVE [Primero]_vars
  <2> SUFFICES ASSUME caidas = 0, Algoritmo = "PRIORIDADES", plan = "sacar",
                      plan' = "buscar", NEW i \in 1..Len(cola), prioridad[cola[i]] = 0
               PROVE  qid[qPlan'] <= qid[cola[i]]
    OBVIOUS
  <2>1. cola # <<>> /\ qPlan' = Head(cola)
    BY <1>1 DEF Next, PasoPlanificador, EsperarQuery, EsperarWorker, SacarQuery,
       obtener_worker_libre, AsignarQuery, EnviarQuery, Reencolar, DevolverQuery,
       DevolverWorker, PasoPlan, QuitarPrimera, Entorno, vars, varsPlan,
       PasoHiloQuery, EncolarNueva, AvisarNueva, CrearQuery, DesconectarQC,
       Envejecer, PasoHiloWorker, AnunciarWorker, MarcarLibre, AvisarLibre,
       TerminarQuery, ReencolarDesalojada, AvisarDesalojada, NotarCaida,
       manejar_desconexion_worker, ConectarWorker, RecibirFin, RecibirDesalojada,
       CaerWorker
  <2>2. /\ Head(cola) = cola[1] /\ Len(cola) \in Nat /\ 1 \in 1..Len(cola)
        /\ cola[1] \in Queries /\ cola[i] \in Queries
    <3>1. cola \in Seq(Queries) /\ Len(cola) \in Nat /\ Len(cola) # 0
      BY <1>1, <2>1, LenProperties, EmptySeq DEF Tipos, TypeOK
    <3>2. 1 \in 1..Len(cola) /\ Head(cola) = cola[1]
      BY <3>1
    <3>3. QED
      BY <3>1, <3>2, ElementOfSeq
  <2>3. /\ prioridad[cola[1]] \in Nat
        /\ qid[cola[1]] \in Nat /\ qid[cola[i]] \in Nat
    BY <1>1, <2>2 DEF Tipos, TypeOK
  <2>4. CASE i = 1
    BY <2>1, <2>2, <2>3, <2>4
  <2>5. CASE i # 1
    <3>1. ~comparar_prioridad(prioridad, cola[i], cola[1])
      BY <1>1, <2>2, <2>5 DEF ColaOrdenada, Ordenada
    <3>2. QED
      BY <2>1, <2>2, <2>3, <3>1 DEF comparar_prioridad
  <2>6. QED
    BY <2>4, <2>5
<1>2. Spec => [](Tipos /\ ColaOrdenada)
  BY SaludSiempre, ColaSiempreOrdenada, PTL
<1>3. QED
  BY <1>1, <1>2, PTL DEF Spec, AgingSinInanicion
-----------------------------------------------------------------------------
(***************************************************************************)
(* FIFO.  Espera and Terminadas are what the variables of DespachoFIFO are *)
(* mapped to.  Nobody asks a Worker for a query back under FIFO.           *)
(***************************************************************************)

Espera     == IF EnMano THEN <<qPlan>> \o cola ELSE cola
Terminadas == {q \in Queries : fines[q] > 0 \/ \E w \in Workers : local[w] = q}

\* A query put in front of a queue.
LEMMA Delante ==
  ASSUME NEW s \in Seq(Queries), NEW x \in Queries
  PROVE  /\ <<x>> \o s \in Seq(Queries) /\ <<x>> \o s # <<>>
         /\ Head(<<x>> \o s) = x /\ Tail(<<x>> \o s) = s
         /\ \A q \in Queries : <<x>> \o Append(s, q) = Append(<<x>> \o s, q)
<1>1. <<x>> \in Seq(Queries) /\ Len(<<x>>) = 1 /\ <<x>>[1] = x
  OBVIOUS
<1>2. /\ <<x>> \o s \in Seq(Queries) /\ Len(s) \in Nat
      /\ Len(<<x>> \o s) = 1 + Len(s)
      /\ \A i \in 1..1 + Len(s) : (<<x>> \o s)[i] = IF i <= 1 THEN <<x>>[i] ELSE s[i - 1]
  BY <1>1, ConcatProperties, LenProperties
<1>3. <<x>> \o s # <<>> /\ Head(<<x>> \o s) = x
  <2>1. 1 \in 1..1 + Len(s) /\ 1 + Len(s) # 0
    BY <1>2
  <2>2. <<x>> \o s # <<>>
    BY <1>2, <2>1, EmptySeq
  <2>3. (<<x>> \o s)[1] = x
    BY <1>1, <1>2, <2>1
  <2>4. QED
    BY <1>2, <2>2, <2>3
<1>4. Tail(<<x>> \o s) = s
  <2>1. /\ Tail(<<x>> \o s) \in Seq(Queries) /\ Len(Tail(<<x>> \o s)) = Len(s)
        /\ \A i \in 1..Len(s) : Tail(<<x>> \o s)[i] = (<<x>> \o s)[i + 1]
    BY <1>2, <1>3, HeadTailProperties
  <2>2. \A i \in 1..Len(s) : Tail(<<x>> \o s)[i] = s[i]
    BY <1>2, <2>1
  <2>3. QED
    BY <2>1, <2>2, SeqEqual
<1>5. ASSUME NEW q \in Queries PROVE <<x>> \o Append(s, q) = Append(<<x>> \o s, q)
  <2>1. /\ Append(s, q) = s \o <<q>> /\ <<q>> \in Seq(Queries)
        /\ Append(<<x>> \o s, q) = (<<x>> \o s) \o <<q>>
    BY <1>2, AppendIsConcat
  <2>2. (<<x>> \o s) \o <<q>> = <<x>> \o (s \o <<q>>)
    BY <1>1, <2>1, ConcatAssociative
  <2>3. QED
    BY <2>1, <2>2
<1>6. QED
  BY <1>2, <1>3, <1>4, <1>5

\* The first of a queue put back in front of the rest.
LEMMA CabezaDelante ==
  ASSUME NEW s \in Seq(Queries), s # <<>>
  PROVE  <<Head(s)>> \o Tail(s) = s
<1>1. /\ Head(s) \in Queries /\ Tail(s) \in Seq(Queries) /\ Len(s) \in Nat \ {0}
      /\ Len(Tail(s)) = Len(s) - 1 /\ Head(s) = s[1]
      /\ \A i \in 1..Len(Tail(s)) : Tail(s)[i] = s[i + 1]
  BY HeadTailProperties, LenProperties, EmptySeq
<1>2. <<Head(s)>> \in Seq(Queries) /\ Len(<<Head(s)>>) = 1 /\ <<Head(s)>>[1] = s[1]
  BY <1>1
<1>3. /\ <<Head(s)>> \o Tail(s) \in Seq(Queries)
      /\ Len(<<Head(s)>> \o Tail(s)) = Len(s)
      /\ \A i \in 1..Len(s) : (<<Head(s)>> \o Tail(s))[i] =
           IF i <= 1 THEN <<Head(s)>>[i] ELSE Tail(s)[i - 1]
  BY <1>1, <1>2, ConcatProperties
<1>4. ASSUME NEW i \in 1..Len(s) PROVE (<<Head(s)>> \o Tail(s))[i] = s[i]
  <2>1. CASE i = 1
    BY <1>1, <1>2, <1>3, <2>1
  <2>2. CASE i # 1
    <3>1. i - 1 \in 1..Len(Tail(s)) /\ (i - 1) + 1 = i /\ ~(i <= 1)
      BY <1>1, <2>2
    <3>2. QED
      BY <1>1, <1>3, <3>1
  <2>3. QED
    BY <2>1, <2>2
<1>5. QED
  BY <1>3, <1>4, SeqEqual

-----------------------------------------------------------------------------

LEMMA MaximoCaidas ==
  ASSUME Tipos, caidas <= MaxCaidas, [Next]_vars
  PROVE  caidas' <= MaxCaidas
<1>1. ASSUME NEW w \in Workers, PasoHiloWorker(w) PROVE caidas' = caidas
  BY <1>1 DEF PasoHiloWorker, AnunciarWorker, MarcarLibre, AvisarLibre, TerminarQuery,
     ReencolarDesalojada, AvisarDesalojada, NotarCaida, manejar_desconexion_worker,
     varsProceso
<1>2. ASSUME NEW w \in Workers,
             ConectarWorker(w) \/ RecibirFin(w) \/ RecibirDesalojada(w)
      PROVE  caidas' = caidas
  BY <1>2 DEF ConectarWorker, RecibirFin, RecibirDesalojada
<1>3. ASSUME NEW w \in Workers, CaerWorker(w) PROVE caidas' <= MaxCaidas
  BY <1>3, SupuestosPlanificador DEF CaerWorker, Tipos, TypeOK
<1>4. CASE UNCHANGED vars \/ Envejecer
  BY <1>4 DEF vars, varsProceso, Envejecer
<1>5. QED
  BY <1>1, <1>2, <1>3, <1>4, AjenoAlPlan, AjenoAQuery DEF Next, Entorno, varsProceso

LEMMA DespachoInicial == Init => Despacho!Init
<1> SUFFICES ASSUME Init PROVE Despacho!Init
  OBVIOUS
<1>1. ~EnMano /\ Terminadas = {}
  BY SupuestosPlanificador DEF Init, EnMano, Terminadas
<1>2. QED
  BY <1>1 DEF Init, Despacho!Init, Terminadas

\* A step that changes none of what DespachoFIFO sees.
LEMMA DespachoQuieto ==
  ASSUME UNCHANGED <<Espera, conectados, ejecutando, Terminadas>>
  PROVE  UNCHANGED Despacho!varsDespacho
  BY DEF Despacho!varsDespacho, Espera, Terminadas

LEMMA DespachoPlanificador ==
  ASSUME Tipos, ColaNuncaVacia, HilosSanos, PlanSano, PasoPlanificador
  PROVE  (\E w \in Workers : Despacho!Despachar(w)) \/ UNCHANGED Despacho!varsDespacho
<1>1. UNCHANGED <<conectados, fines, local>> /\ Terminadas' = Terminadas
  BY AjenoAlPlan DEF varsHilos, Terminadas
<1>2. CASE AsignarQuery
  <2>1. /\ plan = "asignar" /\ plan' = "enviar" /\ cola' = cola
        /\ qPlan \in Queries /\ wPlan \in Workers /\ cola \in Seq(Queries)
        /\ ejecutando' = [ejecutando EXCEPT ![wPlan] = qPlan]
        /\ ejecutando[wPlan] = Nada /\ wPlan \in conectados
    BY <1>2 DEF AsignarQuery, PasoPlan, varsCola, Tipos, TypeOK, Punteros, PlanSano,
                HilosSanos, Cerrando
  <2>2. Espera = <<qPlan>> \o cola /\ Espera' = cola
    BY <2>1, SupuestosPlanificador DEF Espera, EnMano
  <2>3. Espera # <<>> /\ Head(Espera) = qPlan /\ Tail(Espera) = cola
    BY <2>1, <2>2, Delante
  <2>4. Despacho!Despachar(wPlan)
    BY <1>1, <2>1, <2>2, <2>3 DEF Despacho!Despachar, Espera, Terminadas
  <2>5. QED
    BY <2>1, <2>4
<1>3. CASE SacarQuery
  <2>1. /\ cola # <<>> /\ plan = "sacar" /\ plan' = "buscar" /\ cola \in Seq(Queries)
        /\ qPlan' = Head(cola) /\ cola' = Tail(cola) /\ ejecutando' = ejecutando
    BY <1>3 DEF SacarQuery, PasoPlan, ColaNuncaVacia, QuitarPrimera, varsWorker,
                Tipos, TypeOK
  <2>2. Head(cola) \in Queries
    BY <2>1, HeadTailProperties
  <2>3. Espera = cola /\ Espera' = <<Head(cola)>> \o Tail(cola)
    BY <2>1, <2>2, SupuestosPlanificador DEF Espera, EnMano
  <2>4. Espera' = Espera
    BY <2>1, <2>3, CabezaDelante
  <2>5. QED
    BY <1>1, <2>1, <2>4, DespachoQuieto
<1>4. CASE EsperarQuery \/ EsperarWorker \/ obtener_worker_libre \/ EnviarQuery
  <2>1. UNCHANGED <<cola, ejecutando>>
    BY <1>4 DEF EsperarQuery, EsperarWorker, obtener_worker_libre, EnviarQuery,
                varsCola, varsWorker
  <2>2. EnMano' = EnMano /\ (EnMano => qPlan' = qPlan)
    BY <1>4, EnvioLlega DEF EsperarQuery, EsperarWorker, obtener_worker_libre,
       EnviarQuery, PasoPlan, EnMano
  <2>3. Espera' = Espera
    BY <2>1, <2>2 DEF Espera
  <2>4. QED
    BY <1>1, <2>1, <2>3, DespachoQuieto
<1>5. CASE Reencolar \/ DevolverQuery \/ DevolverWorker
  BY <1>5 DEF Reencolar, DevolverQuery, DevolverWorker, PasoPlan, PlanSano
<1>6. QED
  BY <1>2, <1>3, <1>4, <1>5 DEF PasoPlanificador

LEMMA DespachoHiloQuery ==
  ASSUME Tipos, Salud, Algoritmo = "FIFO", NEW q \in Queries,
         PasoHiloQuery(q) \/ CrearQuery(q) \/ DesconectarQC(q)
  PROVE  Despacho!Llegar(q) \/ UNCHANGED Despacho!varsDespacho
<1>1. UNCHANGED <<conectados, ejecutando, fines, local, plan, qPlan>>
  BY AjenoAQuery DEF varsWorker, varsPlan
<1>2. Terminadas' = Terminadas /\ EnMano' = EnMano
  BY <1>1 DEF Terminadas, EnMano
<1>3. CASE EncolarNueva(q)
  <2>1. hiloQ[q] = "creada" /\ cola' = Append(cola, q)
    BY <1>3 DEF EncolarNueva, PasoQuery, Encolar
  <2>2. /\ ~EnCola(cola, q) /\ ~EnPlan(q) /\ fines[q] = 0
        /\ \A w \in Workers : ejecutando[w] # q /\ local[w] # q
    BY <2>1 DEF Salud, Presentes, Enviadas
  <2>3. cola \in Seq(Queries) /\ (EnMano => qPlan \in Queries /\ qPlan # q)
    BY <2>2 DEF EnMano, EnPlan, Tipos, TypeOK, Punteros
  <2>4. Espera' = Append(Espera, q)
    <3>1. EnMano => <<qPlan>> \o Append(cola, q) = Append(<<qPlan>> \o cola, q)
      BY <2>3, Delante
    <3>2. QED
      BY <1>1, <1>2, <2>1, <3>1 DEF Espera
  <2>5. q \notin {Espera[i] : i \in 1..Len(Espera)}
    <3>1. CASE EnMano
      <4>1. /\ Espera = <<qPlan>> \o cola /\ Espera \in Seq(Queries) /\ Espera # <<>>
            /\ Head(Espera) = qPlan /\ Tail(Espera) = cola
        BY <2>3, <3>1, Delante DEF Espera
      <4>2. EnCola(Espera, q) <=> q = Head(Espera) \/ EnCola(Tail(Espera), q)
        <5>1. Espera \in Seq(Queries) /\ Espera # <<>>
          BY <4>1
        <5>2. QED
          BY <5>1, QuitarDelFrente
      <4>3. ~EnCola(Espera, q)
        BY <2>2, <2>3, <3>1, <4>1, <4>2
      <4>4. QED
        BY <4>3 DEF EnCola
    <3>2. CASE ~EnMano
      BY <2>2, <3>2 DEF Espera, EnCola
    <3>3. QED
      BY <3>1, <3>2
  <2>6. q \notin Terminadas /\ q \notin {ejecutando[w] : w \in Workers}
    BY <2>2 DEF Terminadas
  <2>7. Despacho!Llegar(q)
    BY <1>1, <1>2, <2>4, <2>5, <2>6
       DEF Despacho!Llegar, Despacho!Conocidas, Espera, Terminadas
  <2>8. QED
    BY <2>7
<1>4. CASE AvisarNueva(q) \/ CrearQuery(q) \/ DesconectarQC(q)
  <2>1. cola' = cola
    BY <1>4 DEF AvisarNueva, CrearQuery, DesconectarQC, varsCola
  <2>2. Espera' = Espera
    BY <1>1, <1>2, <2>1 DEF Espera
  <2>3. QED
    BY <1>1, <1>2, <2>2, DespachoQuieto
<1>5. QED
  BY <1>3, <1>4 DEF PasoHiloQuery

LEMMA DespachoWorker ==
  ASSUME Tipos, Salud, ~WorkersDesalojan, NEW w \in Workers,
         PasoHiloWorker(w) \/ ConectarWorker(w) \/ RecibirFin(w) \/ RecibirDesalojada(w),
         ~ReencolarDesalojada(w)
  PROVE  \/ Despacho!Conectar(w) \/ Despacho!Terminar(w)
         \/ UNCHANGED Despacho!varsDespacho
<1>1. UNCHANGED <<plan, qPlan, cola>>
  BY DEF PasoHiloWorker, AnunciarWorker, MarcarLibre, AvisarLibre, TerminarQuery,
         AvisarDesalojada, NotarCaida, varsPlan, varsCola,
         manejar_desconexion_worker, ConectarWorker, RecibirFin, RecibirDesalojada
<1>2. Espera' = Espera
  BY <1>1 DEF Espera, EnMano
<1>3. HilosSanos /\ Envios
  BY DEF Salud
<1>4. CASE RecibirFin(w)
  <2>1. /\ ejecutando[w] \in Queries /\ local[w] = Nada
        /\ ejecutando' = [ejecutando EXCEPT ![w] = Nada]
        /\ local' = [local EXCEPT ![w] = ejecutando[w]]
        /\ UNCHANGED <<conectados, fines>>
    BY <1>3, <1>4, Respuesta
  <2>2. \A v \in Workers : local'[v] = IF v = w THEN ejecutando[w] ELSE local[v]
    BY <2>1 DEF Tipos, TypeOK
  <2>3. Terminadas' = Terminadas \cup {ejecutando[w]}
    BY <2>1, <2>2, SupuestosPlanificador DEF Terminadas
  <2>4. ejecutando[w] # Nada
    BY <2>1, SupuestosPlanificador
  <2>5. Despacho!Terminar(w)
    BY <1>2, <2>1, <2>3, <2>4 DEF Despacho!Terminar, Espera, Terminadas
  <2>6. QED
    BY <2>5
<1>5. CASE TerminarQuery(w)
  <2>1. /\ local[w] \in Queries /\ local' = [local EXCEPT ![w] = Nada]
        /\ fines' = [fines EXCEPT ![local[w]] = @ + 1]
        /\ UNCHANGED <<conectados, ejecutando>>
    BY <1>5 DEF TerminarQuery, enviar_fin_query, PasoWorker, varsWorker, Tipos, Punteros
  <2>2. /\ \A v \in Workers : local'[v] = IF v = w THEN Nada ELSE local[v]
        /\ \A q \in Queries : /\ fines[q] \in Nat
                              /\ fines'[q] = IF q = local[w] THEN fines[q] + 1 ELSE fines[q]
    BY <2>1 DEF Tipos, TypeOK
  <2>3. ASSUME NEW q \in Queries
        PROVE  (fines'[q] > 0 \/ \E v \in Workers : local'[v] = q)
                 <=> (fines[q] > 0 \/ \E v \in Workers : local[v] = q)
    <3>1. CASE q = local[w]
      BY <2>2, <3>1
    <3>2. CASE q # local[w]
      BY <2>2, <3>2, SupuestosPlanificador
    <3>3. QED
      BY <3>1, <3>2
  <2>4. Terminadas' = Terminadas
    BY <2>3 DEF Terminadas
  <2>5. QED
    BY <1>2, <2>1, <2>4, DespachoQuieto
<1>6. CASE ConectarWorker(w)
  <2>1. /\ w \notin conectados /\ conectados' = conectados \cup {w}
        /\ UNCHANGED <<ejecutando, fines, local>>
    BY <1>6 DEF ConectarWorker, PasoWorker, Salud, HilosSanos, Cerrando, Tipos, TypeOK
  <2>2. Terminadas' = Terminadas
    BY <2>1 DEF Terminadas
  <2>3. Despacho!Conectar(w)
    BY <1>2, <2>1, <2>2 DEF Despacho!Conectar, Espera, Terminadas
  <2>4. QED
    BY <2>3
<1>7. CASE AnunciarWorker(w) \/ MarcarLibre(w) \/ AvisarLibre(w) \/ AvisarDesalojada(w)
  <2>1. UNCHANGED <<conectados, fines, local>>
    BY <1>7 DEF AnunciarWorker, MarcarLibre, AvisarLibre, AvisarDesalojada, varsWorker
  <2>2. ejecutando' = ejecutando
    BY <1>7 DEF AnunciarWorker, MarcarLibre, AvisarLibre, AvisarDesalojada,
       PasoWorker, Salud, HilosSanos, Cerrando, varsWorker, Tipos, TypeOK
  <2>3. Terminadas' = Terminadas
    BY <2>1 DEF Terminadas
  <2>4. QED
    BY <1>2, <2>1, <2>2, <2>3, DespachoQuieto
<1>8. QED
  BY <1>3, <1>4, <1>5, <1>6, <1>7, SinLimpieza DEF PasoHiloWorker, RecibirDesalojada

-----------------------------------------------------------------------------

\* ReencolarDesalojada only follows an answer no Worker gives under FIFO.
SinDesalojos ==
  \A w \in Workers : hiloW[w] \notin {"des_libre", "des_post", "des_encolar", "des_postq"}

LEMMA SinDesalojosPaso ==
  ASSUME Tipos, SinDesalojos, ~WorkersDesalojan, [Next]_vars
  PROVE  SinDesalojos'
<1> USE DEF SinDesalojos, PasoWorker, Tipos, TypeOK
<1>1. ASSUME NEW w \in Workers, PasoHiloWorker(w) PROVE SinDesalojos'
  BY <1>1 DEF PasoHiloWorker, AnunciarWorker, MarcarLibre, AvisarLibre, TerminarQuery,
     ReencolarDesalojada, AvisarDesalojada, NotarCaida, manejar_desconexion_worker
<1>2. ASSUME NEW w \in Workers,
             ConectarWorker(w) \/ RecibirFin(w) \/ RecibirDesalojada(w) \/ CaerWorker(w)
      PROVE  SinDesalojos'
  BY <1>2 DEF ConectarWorker, RecibirFin, RecibirDesalojada, CaerWorker, varsHilos
<1>3. CASE UNCHANGED vars \/ Envejecer
  BY <1>3 DEF vars, Envejecer, varsHilos
<1>4. QED
  BY <1>1, <1>2, <1>3, AjenoAlPlan, AjenoAQuery DEF Next, Entorno, varsHilos

LEMMA DespachoPaso ==
  ASSUME Tipos, TokensDeQueries, Salud, SinDesalojos, Algoritmo = "FIFO",
         ~WorkersDesalojan, [Next]_vars, caidas' = caidas
  PROVE  [Despacho!Next]_(Despacho!varsDespacho)
<1>1. ColaNuncaVacia /\ HilosSanos /\ PlanSano
  BY ColaConToken DEF Salud
<1>2. ASSUME PasoPlanificador PROVE [Despacho!Next]_(Despacho!varsDespacho)
  BY <1>1, <1>2, DespachoPlanificador DEF Despacho!Next
<1>3. ASSUME NEW q \in Queries, PasoHiloQuery(q) \/ CrearQuery(q) \/ DesconectarQC(q)
      PROVE  [Despacho!Next]_(Despacho!varsDespacho)
  BY <1>3, DespachoHiloQuery DEF Despacho!Next
<1>4. ASSUME NEW w \in Workers,
             \/ PasoHiloWorker(w) \/ ConectarWorker(w) \/ RecibirFin(w)
             \/ RecibirDesalojada(w)
      PROVE  [Despacho!Next]_(Despacho!varsDespacho)
  <2>1. ~ReencolarDesalojada(w)
    BY DEF ReencolarDesalojada, PasoWorker, SinDesalojos
  <2>2. QED
    BY <1>4, <2>1, DespachoWorker DEF Despacho!Next
<1>5. ASSUME NEW w \in Workers PROVE ~CaerWorker(w)
  BY DEF CaerWorker, Tipos, TypeOK
<1>6. CASE UNCHANGED vars
  <2>1. UNCHANGED <<Espera, conectados, ejecutando, Terminadas>>
    BY <1>6 DEF vars, varsCola, varsWorker, varsPlan, varsHilos, Espera, EnMano,
                Terminadas
  <2>2. QED
    BY <2>1, DespachoQuieto
<1>7. ~Envejecer
  BY DEF Envejecer
<1>8. QED
  BY <1>2, <1>3, <1>4, <1>5, <1>6, <1>7 DEF Next, Entorno

\* Under FIFO, while no Worker dies, the scheduler implements one line served
\* in order: every step of its threads is a step of DespachoFIFO or invisible
\* to it.
THEOREM DespachoEnOrden ==
  ASSUME Algoritmo = "FIFO", MaxCaidas = 0, ~WorkersDesalojan
  PROVE  Spec => Despacho!Spec
<1> DEFINE Base == Tipos /\ TokensDeQueries /\ Sano /\ TokensDeWorkers
<1>1. Spec => []Base
  BY SaludSiempre
<1>2. Init => caidas <= MaxCaidas /\ SinDesalojos
  BY DEF Init, SinDesalojos
<1>3. ASSUME Base, caidas <= MaxCaidas /\ SinDesalojos, [Next]_vars
      PROVE  (caidas <= MaxCaidas /\ SinDesalojos)'
  BY <1>3, MaximoCaidas, SinDesalojosPaso
<1>4. Spec => [](Base /\ caidas <= MaxCaidas /\ SinDesalojos)
  BY <1>1, <1>2, <1>3, PTL DEF Spec
<1>5. ASSUME Base, caidas <= MaxCaidas /\ SinDesalojos, Base',
             (caidas <= MaxCaidas)', [Next]_vars
      PROVE  [Despacho!Next]_(Despacho!varsDespacho)
  <2>1. caidas = 0 /\ caidas' = 0
    BY <1>5 DEF Tipos, TypeOK
  <2>2. QED
    BY <1>5, <2>1, DespachoPaso DEF Sano
<1>6. QED
  BY <1>4, <1>5, DespachoInicial, PTL DEF Spec, Despacho!Spec
=============================================================================
