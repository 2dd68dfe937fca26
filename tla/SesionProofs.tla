---------------------------- MODULE SesionProofs ----------------------------
(***************************************************************************)
(* Sesion for any Workers, queries, scripts and priorities: an order to    *)
(* leave never stops a query, what the streams may hold, the query the     *)
(* Master and its Workers agree on, and the service each Query Control     *)
(* gets, which is that of Servicio.                                        *)
(***************************************************************************)
EXTENDS Sesion, FiniteSetTheorems, SequenceTheorems, TLAPS

InvBanderas ==
  /\ fase \in [Workers -> PasosWorker]
  /\ desalojado \in [Workers -> BOOLEAN]
  /\ query_cancelada \in [Workers -> BOOLEAN]
  /\ OrdenViejaNoAlcanza

\* No flag is up when the Workers start.
LEMMA BanderasInit == Init => InvBanderas
  BY DEF Init, InvBanderas, OrdenViejaNoAlcanza, PasosWorker

\* The steps that are not of a Worker process leave its variables alone.
LEMMA SinCambio ==
  ASSUME InvBanderas, UNCHANGED <<fase, desalojado, query_cancelada>>
  PROVE  InvBanderas'
  BY DEF InvBanderas, OrdenViejaNoAlcanza

\* The Master's steps for a Worker leave the flags of the process alone.
LEMMA PasosDelMaster ==
  ASSUME NEW w \in Workers,
         PasoStorage(w) \/ ArrancarWorker(w) \/ AtenderWorker(w)
  PROVE  UNCHANGED <<fase, desalojado, query_cancelada>>
<1>1. CASE PasoStorage(w)
  BY <1>1 DEF PasoStorage, varsResto, varsWorker
<1>2. CASE ArrancarWorker(w)
  BY <1>2 DEF ArrancarWorker, varsResto, varsWorker
<1>3. CASE AtenderWorker(w)
  BY <1>3 DEF AtenderWorker, RecibirLectura, RecibirFin, RecibirDesconocida,
              manejar_desconexion_worker, varsWorker
<1> QED BY <1>1, <1>2, <1>3

\* So do the planner's.
LEMMA PasosDelPlanificador ==
  ASSUME planificador_fifo PROVE UNCHANGED <<fase, desalojado, query_cancelada>>
  BY DEF planificador_fifo, Asignar, EnviarPath, EnvioFallido, varsWorker

\* So do the clients' steps.
LEMMA PasosDeClientes ==
  ASSUME NEW q \in Queries, LlegaQuery(q) \/ PasoHiloQ(q) \/ LeerQC(q)
  PROVE  UNCHANGED <<fase, desalojado, query_cancelada>>
<1>1. CASE LlegaQuery(q)
  BY <1>1 DEF LlegaQuery, varsWorker
<1>2. CASE PasoHiloQ(q)
  BY <1>2 DEF PasoHiloQ, MirarMejor, buscar_peor_query_en_ejecucion, PeorDe,
              PedirDesalojo, varsWorker
<1>3. CASE LeerQC(q)
  BY <1>3 DEF LeerQC, varsWorker
<1> QED BY <1>1, <1>2, <1>3

\* A query starts with the flags down, and none of them goes up while it runs:
\* the orders are read by the loop that runs the query.
LEMMA PasosDelWorker ==
  ASSUME InvBanderas, NEW w \in Workers,
         PasoWorker(w) \/ Morir(w) \/ ConectarMaster(w)
  PROVE  InvBanderas'
<1> USE DEF InvBanderas, OrdenViejaNoAlcanza, PasosWorker
<1>1. CASE RecibirQuery(w)
  BY <1>1 DEF RecibirQuery, Escucha, BajarBanderas
<1>2. CASE RecibirOrden(w)
  BY <1>2 DEF RecibirOrden, Escucha
<1>3. CASE RecibirInesperado(w)
  BY <1>3 DEF RecibirInesperado, varsWorker
<1>4. CASE RecibirCierre(w) \/ Morir(w)
  BY <1>4 DEF RecibirCierre, Morir, Salir
<1>5. CASE ciclo_instruccion(w)
  BY <1>5 DEF ciclo_instruccion
<1>6. CASE ConectarMaster(w)
  BY <1>6 DEF ConectarMaster
<1> QED BY <1>1, <1>2, <1>3, <1>4, <1>5, <1>6 DEF PasoWorker

\* One step per action: only RecibirOrden raises a flag, in escucha, and
\* RecibirQuery lowers both before the script runs.
LEMMA BanderasPaso == InvBanderas /\ [Next]_vars => InvBanderas'
<1> SUFFICES ASSUME InvBanderas, [Next]_vars PROVE InvBanderas'
  OBVIOUS
<1>1. CASE UNCHANGED vars
  BY <1>1, SinCambio DEF vars, varsWorker
<1>2. CASE Next
  BY <1>2, SinCambio, PasosDelMaster, PasosDelPlanificador, PasosDeClientes,
     PasosDelWorker DEF Next
<1> QED BY <1>1, <1>2

\* worker.c:219 and 262: an order to leave raises a flag only between queries
\* and the next query lowers it, so no query ever runs with a flag up.
THEOREM BanderasBajas == Spec => []OrdenViejaNoAlcanza
<1>1. InvBanderas => OrdenViejaNoAlcanza
  BY DEF InvBanderas
<1> QED BY BanderasInit, BanderasPaso, <1>1, PTL DEF Spec

\* instrucciones.c:192: so every line of every script is run, and after none of
\* them is OP_QUERY_DESALOJADA sent.
SinDesalojo ==
  \A w \in Workers : ciclo_instruccion(w) =>
    \E s \in Emite(w, guion[qActual[w]][linea[w]]) : AlMaster(w, s)

THEOREM NadieEsDesalojada == Spec => [][SinDesalojo]_vars
<1>1. InvBanderas => SinDesalojo
  <2> SUFFICES ASSUME InvBanderas, NEW w \in Workers, ciclo_instruccion(w)
               PROVE  \E s \in Emite(w, guion[qActual[w]][linea[w]]) : AlMaster(w, s)
    BY DEF SinDesalojo
  <2>1. ~query_cancelada[w] /\ ~desalojado[w]
    BY DEF InvBanderas, OrdenViejaNoAlcanza, ciclo_instruccion
  <2> QED BY <2>1 DEF ciclo_instruccion
<1>2. InvBanderas /\ [Next]_vars => [SinDesalojo]_vars
  BY <1>1
<1> QED BY BanderasInit, BanderasPaso, <1>2, PTL DEF Spec

-----------------------------------------------------------------------------
(***************************************************************************)
(* The words of the streams.                                               *)
(***************************************************************************)

\* What crear_paquete and serializar_paquete give for no field, one and three.
LEMMA PaqueteVacio ==
  ASSUME NEW op \in Nat PROVE Paquete(op, <<>>) = <<op, 0>>
  BY DEF Paquete

\* A package of one field: OP_FIN_QUERY and OP_DESALOJAR_QUERY.
LEMMA PaqueteDeUno ==
  ASSUME NEW op \in Nat, NEW a \in Nat PROVE Paquete(op, <<a>>) = <<op, 8, 4, a>>
<1> DEFINE F == [i \in 1..2 |-> IF i % 2 = 1 THEN 4 ELSE <<a>>[i \div 2]]
<1>1. Paquete(op, <<a>>) = <<op, 8>> \o F
  BY DEF Paquete
<1>2. F[1] = 4 /\ F[2] = a
  OBVIOUS
<1>3. F = <<4, a>>
  BY <1>2
<1> HIDE DEF F
<1> QED BY <1>1, <1>3

\* A package of three fields: OP_ENVIAR_PATH and OP_RESP_READ_OK.
LEMMA PaqueteDeTres ==
  ASSUME NEW op \in Nat, NEW a \in Nat, NEW b \in Nat, NEW c \in Nat
  PROVE  Paquete(op, <<a, b, c>>) = <<op, 24, 4, a, 4, b, 4, c>>
<1> DEFINE F == [i \in 1..6 |-> IF i % 2 = 1 THEN 4 ELSE <<a, b, c>>[i \div 2]]
<1>1. Paquete(op, <<a, b, c>>) = <<op, 24>> \o F
  BY DEF Paquete
<1>2. F[1] = 4 /\ F[2] = a /\ F[3] = 4 /\ F[4] = b /\ F[5] = 4 /\ F[6] = c
  OBVIOUS
<1>3. F = <<4, a, 4, b, 4, c>>
  BY <1>2
<1> HIDE DEF F
<1> QED BY <1>1, <1>3

\* recibir_paquete leaves the words behind the package.
LEMMA Resta ==
  ASSUME NEW s \in Seq(Nat), NEW k \in Nat, k =< Len(s)
  PROVE  /\ SubSeq(s, k + 1, Len(s)) \in Seq(Nat)
         /\ Len(SubSeq(s, k + 1, Len(s))) = Len(s) - k
         /\ \A i \in 1..(Len(s) - k) : SubSeq(s, k + 1, Len(s))[i] = s[i + k]
  OBVIOUS

\* What is left of a stream whose first k words were read.
Queda(s, k) == SubSeq(s, k + 1, Len(s))

\* Its length and its words.
LEMMA QuedaEs ==
  ASSUME NEW s \in Seq(Nat), NEW k \in Nat, k =< Len(s)
  PROVE  /\ Queda(s, k) \in Seq(Nat) /\ Len(Queda(s, k)) = Len(s) - k
         /\ \A i \in 1..(Len(s) - k) : Queda(s, k)[i] = s[i + k]
  BY Resta DEF Queda

\* recibir_operacion consumes one word.
LEMMA TrasUna ==
  ASSUME NEW s \in Seq(Nat), s # <<>>
  PROVE  Tail(s) = Queda(s, 1) /\ Head(s) = s[1]
  BY DEF Queda

\* RecibirOrden consumes two words.
LEMMA TrasDos ==
  ASSUME NEW s \in Seq(Nat), Len(s) > 1
  PROVE  Tail(Tail(s)) = Queda(s, 2)
<1>1. Tail(Tail(s)) = SubSeq(s, 3, Len(s))
  OBVIOUS
<1>2. Queda(s, 2) = SubSeq(s, 3, Len(s))
  BY DEF Queda
<1> QED BY <1>1, <1>2

\* The words of a package of one field and of three, and what is behind it.
LEMMA TrasUno ==
  ASSUME NEW s \in Seq(Nat), s # <<>>, EsPaquete(Tail(s), 1)
  PROVE  /\ Len(s) > 3 /\ s[2] = 8 /\ s[3] = 4 /\ Campo(Tail(s), 1) = s[4]
         /\ TrasPaquete(Tail(s), 1) = Queda(s, 4)
<1>1. Len(Tail(s)) = Len(s) - 1
  OBVIOUS
<1>2. Len(Tail(s)) > 2 * 1 /\ Tail(s)[1] = 8 * 1 /\ \A i \in 1..1 : Tail(s)[2 * i] = 4
  BY DEF EsPaquete
<1>3. Tail(s)[2 * 1] = 4
  BY <1>2
<1>4. Len(s) > 3
  BY <1>1, <1>2
<1>5. Tail(s)[1] = s[2] /\ Tail(s)[2] = s[3] /\ Tail(s)[3] = s[4]
  BY <1>4
<1>6. SubSeq(Tail(s), 4, Len(Tail(s))) = SubSeq(s, 5, Len(s))
  BY <1>4
<1>10. SubSeq(s, 5, Len(s)) = Queda(s, 4)
  BY DEF Queda
<1>7. TrasPaquete(Tail(s), 1) = SubSeq(Tail(s), 4, Len(Tail(s))) /\ Campo(Tail(s), 1) = Tail(s)[3]
  BY DEF TrasPaquete, Campo
<1>8. Tail(s)[1] = 8 /\ Tail(s)[2] = 4
  BY <1>2, <1>3
<1> QED BY <1>4, <1>5, <1>6, <1>7, <1>8, <1>10

\* recibir_paquete with three fields consumes seven words behind the code.
LEMMA TrasTres ==
  ASSUME NEW s \in Seq(Nat), s # <<>>, EsPaquete(Tail(s), 3)
  PROVE  /\ Len(s) > 7 /\ s[2] = 24 /\ s[3] = 4 /\ s[5] = 4 /\ s[7] = 4
         /\ Campo(Tail(s), 1) = s[4] /\ Campo(Tail(s), 2) = s[6]
         /\ Campo(Tail(s), 3) = s[8]
         /\ TrasPaquete(Tail(s), 3) = Queda(s, 8)
<1>1. Len(Tail(s)) = Len(s) - 1
  OBVIOUS
<1>2. Len(Tail(s)) > 2 * 3 /\ Tail(s)[1] = 8 * 3 /\ \A i \in 1..3 : Tail(s)[2 * i] = 4
  BY DEF EsPaquete
<1>3. Tail(s)[2 * 1] = 4 /\ Tail(s)[2 * 2] = 4 /\ Tail(s)[2 * 3] = 4
  BY <1>2
<1>4. Len(s) > 7
  BY <1>1, <1>2
<1>5. /\ Tail(s)[1] = s[2] /\ Tail(s)[2] = s[3] /\ Tail(s)[3] = s[4] /\ Tail(s)[4] = s[5]
      /\ Tail(s)[5] = s[6] /\ Tail(s)[6] = s[7] /\ Tail(s)[7] = s[8]
  <2>1. \A i \in 1..(Len(s) - 1) : Tail(s)[i] = s[i + 1]
    OBVIOUS
  <2>2. \A i \in 1..7 : i \in 1..(Len(s) - 1)
    BY <1>4
  <2>3. Tail(s)[1] = s[2] /\ Tail(s)[2] = s[3] /\ Tail(s)[3] = s[4]
    BY <2>1, <2>2
  <2>4. Tail(s)[4] = s[5] /\ Tail(s)[5] = s[6]
    BY <2>1, <2>2
  <2>5. Tail(s)[6] = s[7] /\ Tail(s)[7] = s[8]
    BY <2>1, <2>2
  <2> QED BY <2>3, <2>4, <2>5
<1>6. SubSeq(Tail(s), 8, Len(Tail(s))) = SubSeq(s, 9, Len(s))
  BY <1>4
<1>10. SubSeq(s, 9, Len(s)) = Queda(s, 8)
  BY DEF Queda
<1>7. TrasPaquete(Tail(s), 3) = SubSeq(Tail(s), 8, Len(Tail(s)))
  BY DEF TrasPaquete
<1>8. /\ Campo(Tail(s), 1) = Tail(s)[3] /\ Campo(Tail(s), 2) = Tail(s)[5]
      /\ Campo(Tail(s), 3) = Tail(s)[7]
  BY DEF Campo
<1>9. Tail(s)[1] = 24 /\ Tail(s)[2] = 4 /\ Tail(s)[4] = 4 /\ Tail(s)[6] = 4
  BY <1>2, <1>3
<1> QED BY <1>4, <1>5, <1>6, <1>7, <1>8, <1>9, <1>10

-----------------------------------------------------------------------------
(***************************************************************************)
(* A stream is a run of packages: P is the set of the positions where one  *)
(* starts, and where the next one will.                                    *)
(***************************************************************************)
Flujo(s, P, Ps) ==
  /\ P \subseteq 1..(Len(s) + 1) /\ Len(s) + 1 \in P
  /\ \A i \in P : i = Len(s) + 1 \/
       \E p \in Ps : i + Len(p) \in P /\ \A j \in 1..Len(p) : s[i + j - 1] = p[j]

\* The positions seen from behind the first k words of s.
Desde(s, P, k) == {i \in 1..(Len(s) - k + 1) : i + k \in P}

\* What is left of a stream, cut at the packages that were not read.
LEMMA FlujoQueda ==
  ASSUME NEW s \in Seq(Nat), NEW k \in Nat, k =< Len(s), NEW P,
         NEW Ps \in SUBSET Seq(Nat), Flujo(s, P, Ps)
  PROVE  Flujo(Queda(s, k), Desde(s, P, k), Ps)
<1> PICK t : t = Queda(s, k)
  OBVIOUS
<1> PICK D : D = Desde(s, P, k)
  OBVIOUS
<1>1. /\ t \in Seq(Nat) /\ Len(t) = Len(s) - k /\ Len(s) \in Nat
      /\ \A i \in 1..(Len(s) - k) : t[i] = s[i + k]
  <2>1. /\ Queda(s, k) \in Seq(Nat) /\ Len(Queda(s, k)) = Len(s) - k
        /\ \A i \in 1..(Len(s) - k) : Queda(s, k)[i] = s[i + k]
    BY QuedaEs
  <2> QED BY <2>1
<1>2. /\ D \subseteq 1..(Len(t) + 1)
      /\ \A i \in 1..(Len(t) + 1) : i \in D <=> i + k \in P
  BY <1>1 DEF Desde
<1>3. P \subseteq 1..(Len(s) + 1) /\ Len(s) + 1 \in P
  BY DEF Flujo
<1>4. Len(t) + 1 \in D
  BY <1>1, <1>2, <1>3
<1>5. ASSUME NEW i \in D, i # Len(t) + 1
      PROVE  \E p \in Ps : i + Len(p) \in D /\ \A j \in 1..Len(p) : t[i + j - 1] = p[j]
  <2>1. i \in 1..Len(t) /\ i + k \in P /\ i + k # Len(s) + 1
    <3>1. i \in 1..(Len(t) + 1) /\ i + k \in P
      BY <1>2
    <3>2. Len(t) \in Nat /\ Len(t) = Len(s) - k
      BY <1>1
    <3> QED BY <3>1, <3>2, <1>5
  <2>2. PICK p \in Ps : i + k + Len(p) \in P /\ \A j \in 1..Len(p) : s[i + k + j - 1] = p[j]
    BY <2>1 DEF Flujo
  <2>3. Len(p) \in Nat
    BY <2>2
  <2>4. i + Len(p) \in 1..(Len(t) + 1) /\ (i + Len(p)) + k = i + k + Len(p)
    BY <2>1, <2>2, <2>3, <1>1, <1>3
  <2>5. ASSUME NEW j \in 1..Len(p) PROVE t[i + j - 1] = p[j]
    <3>1. i + j - 1 \in 1..(Len(s) - k) /\ (i + j - 1) + k = i + k + j - 1
      BY <2>1, <2>3, <2>4, <1>1
    <3> QED BY <3>1, <2>2, <1>1
  <2> QED BY <2>2, <2>4, <2>5, <1>2
<1> QED BY <1>2, <1>4, <1>5 DEF Flujo

\* One more package, by one send.
LEMMA FlujoMas ==
  ASSUME NEW s \in Seq(Nat), NEW P, NEW Ps \in SUBSET Seq(Nat), Flujo(s, P, Ps),
         NEW p \in Ps
  PROVE  Flujo(s \o p, P \cup {Len(s) + Len(p) + 1}, Ps)
<1> PICK t : t = s \o p
  OBVIOUS
<1> PICK D : D = P \cup {Len(s) + Len(p) + 1}
  OBVIOUS
<1>1. /\ t \in Seq(Nat) /\ Len(t) = Len(s) + Len(p) /\ Len(s) \in Nat /\ Len(p) \in Nat
      /\ \A i \in 1..Len(s) : t[i] = s[i]
      /\ \A j \in 1..Len(p) : t[Len(s) + j] = p[j]
  <2>1. p \in Seq(Nat)
    OBVIOUS
  <2>2. /\ s \o p \in Seq(Nat) /\ Len(s \o p) = Len(s) + Len(p) /\ Len(s) \in Nat
        /\ Len(p) \in Nat /\ \A i \in 1..Len(s) : (s \o p)[i] = s[i]
    BY <2>1
  <2>3. \A j \in 1..Len(p) : (s \o p)[Len(s) + j] = p[j]
    BY <2>1
  <2> QED BY <2>2, <2>3
<1>2. P \subseteq 1..(Len(s) + 1) /\ Len(s) + 1 \in P
  BY DEF Flujo
<1>3. D \subseteq 1..(Len(t) + 1) /\ Len(t) + 1 \in D
  <2>1. Len(t) + 1 = Len(s) + Len(p) + 1
    BY <1>1
  <2>2. ASSUME NEW i \in P PROVE i \in 1..(Len(t) + 1)
    BY <2>1, <1>1, <1>2
  <2>3. Len(t) + 1 \in 1..(Len(t) + 1)
    BY <1>1
  <2> QED BY <2>1, <2>2, <2>3
<1>4. ASSUME NEW i \in D, i # Len(t) + 1
      PROVE  \E o \in Ps : i + Len(o) \in D /\ \A j \in 1..Len(o) : t[i + j - 1] = o[j]
  <2>1. i \in P
    BY <1>1, <1>4
  <2>2. CASE i = Len(s) + 1
    <3>1. i + Len(p) \in D
      BY <2>2, <1>1
    <3>2. ASSUME NEW j \in 1..Len(p) PROVE t[i + j - 1] = p[j]
      <4>1. i + j - 1 = Len(s) + j
        BY <2>2, <1>1
      <4> QED BY <4>1, <1>1
    <3> QED BY <3>1, <3>2
  <2>3. CASE i # Len(s) + 1
    <3>1. PICK o \in Ps : i + Len(o) \in P /\ \A j \in 1..Len(o) : s[i + j - 1] = o[j]
      BY <2>1, <2>3 DEF Flujo
    <3>2. Len(o) \in Nat
      BY <3>1
    <3>3. ASSUME NEW j \in 1..Len(o) PROVE t[i + j - 1] = o[j]
      <4>1. i + j - 1 \in 1..Len(s)
        BY <3>1, <3>2, <2>1, <1>1, <1>2
      <4> QED BY <4>1, <3>1, <1>1
    <3> QED BY <3>1, <3>3
  <2> QED BY <2>2, <2>3
<1> QED BY <1>3, <1>4 DEF Flujo

\* What is sent to a Worker and what a Worker sends.
Camino(q) == Paquete(OP_ENVIAR_PATH, <<q, 0, TEXTO>>)
Orden(q)  == Paquete(OP_DESALOJAR_QUERY, <<q>>)
ResultadoDe(q, n) == Paquete(OP_RESP_READ_OK, <<TEXTO, 4, Dato(q, n)>>)
FinDe(q)  == Paquete(OP_FIN_QUERY, <<q>>)

DelMaster == {Camino(q) : q \in Queries} \cup {Orden(q) : q \in Queries}
DelWorker == {ResultadoDe(q, n) : q \in Queries, n \in Nat} \cup {FinDe(q) : q \in Queries}
             \cup {Paquete(OP_RESP_READ_ERR, <<>>)}

\* No qid is the code of an order; with 302 queries one is.
QidsBajos == \A q \in Queries : q < OP_DESALOJAR_QUERY

\* The qids are naturals, none is NULL, and no Worker is NULL.
LEMMA QueriesNat == Queries \subseteq Nat /\ Nadie \notin Queries /\ Nadie \notin Workers
<1>1. Cardinality(Queries) \in Nat /\ Queries = 0..(Cardinality(Queries) - 1)
  BY SupuestosSesion, FS_CardinalityType
<1>2. Nadie \notin Queries /\ Nadie \notin Workers
  BY SupuestosSesion, SupuestosStorage
<1> QED BY <1>1, <1>2

\* What a READ returns is a text, no other word.
LEMMA DatoNat == ASSUME NEW q \in Queries, NEW n \in Nat
                 PROVE  Dato(q, n) \in Nat /\ Dato(q, n) > TEXTO
<1>1. q \in Nat
  BY QueriesNat
<1>2. Dato(q, n) = 1000000 + 100 * (q + 1) + n
  BY DEF Dato, TEXTO
<1> QED BY <1>1, <1>2 DEF TEXTO

\* The words of each package, one by one.
LEMMA Palabras ==
  ASSUME NEW q \in Queries
  PROVE  /\ Camino(q) = <<1, 24, 4, q, 4, 0, 4, TEXTO>>
         /\ Orden(q) = <<301, 8, 4, q>>
         /\ FinDe(q) = <<500, 8, 4, q>>
         /\ \A n \in Nat : ResultadoDe(q, n) = <<1020, 24, 4, TEXTO, 4, 4, 4, Dato(q, n)>>
<1>1. q \in Nat /\ TEXTO \in Nat
  BY QueriesNat DEF TEXTO
<1>2. Camino(q) = <<1, 24, 4, q, 4, 0, 4, TEXTO>>
  BY <1>1, PaqueteDeTres DEF Camino, OP_ENVIAR_PATH
<1>3. Orden(q) = <<301, 8, 4, q>>
  BY <1>1, PaqueteDeUno DEF Orden, OP_DESALOJAR_QUERY
<1>4. FinDe(q) = <<500, 8, 4, q>>
  BY <1>1, PaqueteDeUno DEF FinDe, OP_FIN_QUERY
<1>5. ASSUME NEW n \in Nat
      PROVE  ResultadoDe(q, n) = <<1020, 24, 4, TEXTO, 4, 4, 4, Dato(q, n)>>
  <2>1. Dato(q, n) \in Nat
    BY DatoNat
  <2> QED BY <1>1, <2>1, PaqueteDeTres DEF ResultadoDe, OP_RESP_READ_OK
<1> QED BY <1>2, <1>3, <1>4, <1>5

\* OP_RESP_READ_ERR is sent with no field.
LEMMA PalabrasError == Paquete(OP_RESP_READ_ERR, <<>>) = <<1021, 0>>
  BY PaqueteVacio DEF OP_RESP_READ_ERR

\* Every package is a sequence of words.
LEMMA SonSecuencias ==
  DelMaster \in SUBSET Seq(Nat) /\ DelWorker \in SUBSET Seq(Nat)
<1>1. ASSUME NEW p \in DelMaster PROVE p \in Seq(Nat)
  <2>1. PICK q \in Queries : p = Camino(q) \/ p = Orden(q)
    BY DEF DelMaster
  <2>2. q \in Nat /\ TEXTO \in Nat
    BY QueriesNat DEF TEXTO
  <2>3. CASE p = Camino(q)
    <3>1. p = <<1, 24, 4, q, 4, 0, 4, TEXTO>>
      BY <2>3, Palabras
    <3> QED BY <2>2, <3>1
  <2>4. CASE p = Orden(q)
    <3>1. p = <<301, 8, 4, q>>
      BY <2>4, Palabras
    <3> QED BY <2>2, <3>1
  <2> QED BY <2>1, <2>3, <2>4
<1>2. ASSUME NEW p \in DelWorker PROVE p \in Seq(Nat)
  <2>1. CASE p = Paquete(OP_RESP_READ_ERR, <<>>)
    <3>1. p = <<1021, 0>>
      BY <2>1, PalabrasError
    <3> QED BY <3>1
  <2>2. CASE \E q \in Queries : p = FinDe(q)
    <3>1. PICK q \in Queries : p = FinDe(q)
      BY <2>2
    <3>2. q \in Nat
      BY QueriesNat
    <3>3. p = <<500, 8, 4, q>>
      BY <3>1, Palabras
    <3> QED BY <3>2, <3>3
  <2>3. CASE \E q \in Queries, n \in Nat : p = ResultadoDe(q, n)
    <3>1. PICK q \in Queries, n \in Nat : p = ResultadoDe(q, n)
      BY <2>3
    <3>2. Dato(q, n) \in Nat /\ TEXTO \in Nat
      BY DatoNat DEF TEXTO
    <3>3. p = <<1020, 24, 4, TEXTO, 4, 4, 4, Dato(q, n)>>
      BY <3>1, Palabras
    <3> QED BY <3>2, <3>3
  <2> QED BY <2>1, <2>2, <2>3 DEF DelWorker
<1> QED BY <1>1, <1>2

\* A stream to a Worker: packages, behind what it left of an order.
ParaWorker(s) ==
  \E P : /\ Flujo(s, P, DelMaster)
         /\ \/ 1 \in P
            \/ 2 \in P /\ s[1] \in Queries
            \/ 3 \in P /\ s[1] = 4 /\ s[2] \in Queries

\* A stream to the Master: packages, behind what it left of a READ_ERR.
ParaMaster(s) ==
  \E P : /\ Flujo(s, P, DelWorker)
         /\ 1 \in P \/ (2 \in P /\ s[1] = 0)

\* A stream with nothing in it is well formed.
LEMMA CorrientesVacias == ParaWorker(<<>>) /\ ParaMaster(<<>>)
<1>1. Flujo(<<>>, {1}, DelMaster) /\ Flujo(<<>>, {1}, DelWorker)
  BY DEF Flujo
<1> QED BY <1>1 DEF ParaWorker, ParaMaster

\* A package the Master sends keeps the stream to a Worker well formed.
LEMMA MasParaWorker ==
  ASSUME NEW s \in Seq(Nat), ParaWorker(s), NEW p \in DelMaster
  PROVE  ParaWorker(s \o p) /\ s \o p \in Seq(Nat)
<1>1. p \in Seq(Nat)
  BY SonSecuencias
<1>2. s \o p \in Seq(Nat) /\ Len(s) \in Nat /\ \A i \in 1..Len(s) : (s \o p)[i] = s[i]
  BY <1>1
<1>3. PICK P : /\ Flujo(s, P, DelMaster)
               /\ \/ 1 \in P
                  \/ 2 \in P /\ s[1] \in Queries
                  \/ 3 \in P /\ s[1] = 4 /\ s[2] \in Queries
  BY DEF ParaWorker
<1> PICK D : D = P \cup {Len(s) + Len(p) + 1}
  OBVIOUS
<1>4. Flujo(s \o p, D, DelMaster) /\ P \subseteq D
  BY <1>3, FlujoMas, SonSecuencias
<1>5. 2 \in P => (s \o p)[1] = s[1]
  BY <1>2, <1>3 DEF Flujo
<1>6. 3 \in P => (s \o p)[1] = s[1] /\ (s \o p)[2] = s[2]
  BY <1>2, <1>3 DEF Flujo
<1> QED BY <1>2, <1>3, <1>4, <1>5, <1>6 DEF ParaWorker

\* A package a Worker sends keeps the stream to the Master well formed.
LEMMA MasParaMaster ==
  ASSUME NEW s \in Seq(Nat), ParaMaster(s), NEW p \in DelWorker
  PROVE  ParaMaster(s \o p) /\ s \o p \in Seq(Nat)
<1>1. p \in Seq(Nat)
  BY SonSecuencias
<1>2. s \o p \in Seq(Nat) /\ Len(s) \in Nat /\ \A i \in 1..Len(s) : (s \o p)[i] = s[i]
  BY <1>1
<1>3. PICK P : /\ Flujo(s, P, DelWorker)
               /\ 1 \in P \/ (2 \in P /\ s[1] = 0)
  BY DEF ParaMaster
<1> PICK D : D = P \cup {Len(s) + Len(p) + 1}
  OBVIOUS
<1>4. Flujo(s \o p, D, DelWorker) /\ P \subseteq D
  BY <1>3, FlujoMas, SonSecuencias
<1>5. 2 \in P => (s \o p)[1] = s[1]
  BY <1>2, <1>3 DEF Flujo
<1> QED BY <1>2, <1>3, <1>4, <1>5 DEF ParaMaster

\* The words of a package in a stream, one by one.
LEMMA OchoPalabras ==
  ASSUME NEW s \in Seq(Nat), NEW i \in 1..Len(s), NEW p, Len(p) = 8,
         \A j \in 1..Len(p) : s[i + j - 1] = p[j]
  PROVE  /\ s[i] = p[1] /\ s[i + 1] = p[2] /\ s[i + 2] = p[3] /\ s[i + 3] = p[4]
         /\ s[i + 4] = p[5] /\ s[i + 5] = p[6] /\ s[i + 6] = p[7] /\ s[i + 7] = p[8]
<1>1. /\ s[i + 1 - 1] = p[1] /\ s[i + 2 - 1] = p[2] /\ s[i + 3 - 1] = p[3] /\ s[i + 4 - 1] = p[4]
      /\ s[i + 5 - 1] = p[5] /\ s[i + 6 - 1] = p[6] /\ s[i + 7 - 1] = p[7] /\ s[i + 8 - 1] = p[8]
  OBVIOUS
<1>2. /\ i + 1 - 1 = i /\ i + 2 - 1 = i + 1 /\ i + 3 - 1 = i + 2 /\ i + 4 - 1 = i + 3
      /\ i + 5 - 1 = i + 4 /\ i + 6 - 1 = i + 5 /\ i + 7 - 1 = i + 6 /\ i + 8 - 1 = i + 7
  OBVIOUS
<1> QED BY <1>1, <1>2

\* A package of one field is four words.
LEMMA CuatroPalabras ==
  ASSUME NEW s \in Seq(Nat), NEW i \in 1..Len(s), NEW p, Len(p) = 4,
         \A j \in 1..Len(p) : s[i + j - 1] = p[j]
  PROVE  /\ s[i] = p[1] /\ s[i + 1] = p[2] /\ s[i + 2] = p[3] /\ s[i + 3] = p[4]
<1>1. /\ s[i + 1 - 1] = p[1] /\ s[i + 2 - 1] = p[2] /\ s[i + 3 - 1] = p[3] /\ s[i + 4 - 1] = p[4]
  OBVIOUS
<1>2. /\ i + 1 - 1 = i /\ i + 2 - 1 = i + 1 /\ i + 3 - 1 = i + 2 /\ i + 4 - 1 = i + 3
  OBVIOUS
<1> QED BY <1>1, <1>2

\* A package with no field is two words.
LEMMA DosPalabras ==
  ASSUME NEW s \in Seq(Nat), NEW i \in 1..Len(s), NEW p, Len(p) = 2,
         \A j \in 1..Len(p) : s[i + j - 1] = p[j]
  PROVE  /\ s[i] = p[1] /\ s[i + 1] = p[2]
<1>1. /\ s[i + 1 - 1] = p[1] /\ s[i + 2 - 1] = p[2]
  OBVIOUS
<1>2. /\ i + 1 - 1 = i /\ i + 2 - 1 = i + 1
  OBVIOUS
<1> QED BY <1>1, <1>2

\* What can be at the head of the stream to a Worker.
LEMMA CabezaWorker ==
  ASSUME NEW s \in Seq(Nat), NEW P, Flujo(s, P, DelMaster), NEW i \in 1..Len(s), i \in P
  PROVE  \E q \in Queries :
           \/ /\ i + 8 \in P
              /\ s[i] = 1 /\ s[i + 1] = 24 /\ s[i + 2] = 4 /\ s[i + 3] = q
              /\ s[i + 4] = 4 /\ s[i + 5] = 0 /\ s[i + 6] = 4 /\ s[i + 7] = TEXTO
           \/ /\ i + 4 \in P
              /\ s[i] = 301 /\ s[i + 1] = 8 /\ s[i + 2] = 4 /\ s[i + 3] = q
<1>1. PICK p \in DelMaster : /\ i + Len(p) \in P
                             /\ \A j \in 1..Len(p) : s[i + j - 1] = p[j]
  BY DEF Flujo
<1>2. PICK q \in Queries : p = Camino(q) \/ p = Orden(q)
  BY DEF DelMaster
<1>3. CASE p = Camino(q)
  <2>1. p = <<1, 24, 4, q, 4, 0, 4, TEXTO>>
    BY <1>3, Palabras
  <2>2. /\ p[1] = 1 /\ p[2] = 24 /\ p[3] = 4 /\ p[4] = q
        /\ p[5] = 4 /\ p[6] = 0 /\ p[7] = 4 /\ p[8] = TEXTO /\ Len(p) = 8
    BY <2>1
  <2>3. /\ s[i] = p[1] /\ s[i + 1] = p[2] /\ s[i + 2] = p[3] /\ s[i + 3] = p[4]
        /\ s[i + 4] = p[5] /\ s[i + 5] = p[6] /\ s[i + 6] = p[7] /\ s[i + 7] = p[8]
    BY <1>1, <2>2, OchoPalabras
  <2> QED BY <1>1, <2>2, <2>3
<1>4. CASE p = Orden(q)
  <2>1. p = <<301, 8, 4, q>>
    BY <1>4, Palabras
  <2>2. p[1] = 301 /\ p[2] = 8 /\ p[3] = 4 /\ p[4] = q /\ Len(p) = 4
    BY <2>1
  <2>3. s[i] = p[1] /\ s[i + 1] = p[2] /\ s[i + 2] = p[3] /\ s[i + 3] = p[4]
    BY <1>1, <2>2, CuatroPalabras
  <2> QED BY <1>1, <2>2, <2>3
<1> QED BY <1>2, <1>3, <1>4

\* And of the stream to the Master.
LEMMA CabezaMaster ==
  ASSUME NEW s \in Seq(Nat), NEW P, Flujo(s, P, DelWorker), NEW i \in 1..Len(s), i \in P
  PROVE  \/ \E q \in Queries, n \in Nat :
              i + 8 \in P /\ s[i] = 1020 /\ s[i + 7] = Dato(q, n)
         \/ \E q \in Queries : i + 4 \in P /\ s[i] = 500 /\ s[i + 3] = q
         \/ i + 2 \in P /\ s[i] = 1021 /\ s[i + 1] = 0
<1>1. PICK p \in DelWorker : /\ i + Len(p) \in P
                             /\ \A j \in 1..Len(p) : s[i + j - 1] = p[j]
  BY DEF Flujo
<1>2. CASE \E q \in Queries, n \in Nat : p = ResultadoDe(q, n)
  <2>1. PICK q \in Queries, n \in Nat : p = ResultadoDe(q, n)
    BY <1>2
  <2>5. PICK d \in Nat, t \in Nat : d = Dato(q, n) /\ t = TEXTO
    BY DatoNat DEF TEXTO
  <2>4. p = <<1020, 24, 4, t, 4, 4, 4, d>>
    BY <2>1, <2>5, Palabras
  <2>2. Len(p) = 8 /\ p[1] = 1020 /\ p[8] = d
    BY <2>4
  <2>3. s[i] = p[1] /\ s[i + 7] = p[8]
    BY <1>1, <2>2, OchoPalabras
  <2> QED BY <1>1, <2>2, <2>3, <2>5
<1>3. CASE \E q \in Queries : p = FinDe(q)
  <2>1. PICK q \in Queries : p = FinDe(q)
    BY <1>3
  <2>4. p = <<500, 8, 4, q>>
    BY <2>1, Palabras
  <2>2. Len(p) = 4 /\ p[1] = 500 /\ p[4] = q
    BY <2>4
  <2>5. Len(p) = 4 /\ \A k \in 1..Len(p) : s[i + k - 1] = p[k]
    BY <1>1, <2>2
  <2>3. s[i] = p[1] /\ s[i + 3] = p[4]
    BY <2>5, CuatroPalabras
  <2> QED BY <1>1, <2>2, <2>3
<1>4. CASE p = Paquete(OP_RESP_READ_ERR, <<>>)
  <2>1. p = <<1021, 0>>
    BY <1>4, PalabrasError
  <2>2. Len(p) = 2 /\ p[1] = 1021 /\ p[2] = 0
    BY <2>1
  <2>3. s[i] = p[1] /\ s[i + 1] = p[2]
    BY <1>1, <2>2, DosPalabras
  <2> QED BY <1>1, <2>2, <2>3
<1> QED BY <1>2, <1>3, <1>4 DEF DelWorker

\* The same at the head of the stream.
LEMMA FrenteWorker ==
  ASSUME NEW s \in Seq(Nat), s # <<>>, NEW P, Flujo(s, P, DelMaster), 1 \in P
  PROVE  \/ /\ 9 \in P /\ s[1] = 1 /\ s[2] = 24 /\ s[3] = 4 /\ s[4] \in Queries
            /\ s[5] = 4 /\ s[6] = 0 /\ s[7] = 4 /\ s[8] = TEXTO
         \/ 5 \in P /\ s[1] = 301 /\ s[2] = 8 /\ s[3] = 4 /\ s[4] \in Queries
<1>1. PICK i \in 1..Len(s) : i = 1
  OBVIOUS
<1>2. /\ i + 8 = 9 /\ i + 4 = 5 /\ i + 1 = 2 /\ i + 2 = 3 /\ i + 3 = 4
      /\ i + 5 = 6 /\ i + 6 = 7 /\ i + 7 = 8
  BY <1>1
<1>3. i \in P
  BY <1>1
<1>4. \E q \in Queries :
           \/ /\ i + 8 \in P
              /\ s[i] = 1 /\ s[i + 1] = 24 /\ s[i + 2] = 4 /\ s[i + 3] = q
              /\ s[i + 4] = 4 /\ s[i + 5] = 0 /\ s[i + 6] = 4 /\ s[i + 7] = TEXTO
           \/ /\ i + 4 \in P
              /\ s[i] = 301 /\ s[i + 1] = 8 /\ s[i + 2] = 4 /\ s[i + 3] = q
  BY <1>3, CabezaWorker
<1> QED BY <1>1, <1>2, <1>4

\* What the first word of a stream to the Master says of the next ones.
LEMMA FrenteMaster ==
  ASSUME NEW s \in Seq(Nat), s # <<>>, NEW P, Flujo(s, P, DelWorker), 1 \in P
  PROVE  \/ 9 \in P /\ s[1] = 1020 /\ \E q \in Queries, n \in Nat : s[8] = Dato(q, n)
         \/ 5 \in P /\ s[1] = 500 /\ s[4] \in Queries
         \/ 3 \in P /\ s[1] = 1021 /\ s[2] = 0
<1>1. PICK i \in 1..Len(s) : i = 1
  OBVIOUS
<1>2. /\ i + 8 = 9 /\ i + 4 = 5 /\ i + 2 = 3 /\ i + 1 = 2 /\ i + 3 = 4 /\ i + 7 = 8
  BY <1>1
<1>3. i \in P
  BY <1>1
<1>4. \/ \E q \in Queries, n \in Nat :
              i + 8 \in P /\ s[i] = 1020 /\ s[i + 7] = Dato(q, n)
      \/ \E q \in Queries : i + 4 \in P /\ s[i] = 500 /\ s[i + 3] = q
      \/ i + 2 \in P /\ s[i] = 1021 /\ s[i + 1] = 0
  BY <1>3, CabezaMaster
<1> QED BY <1>1, <1>2, <1>4

\* What the loop of the Worker does with the words, RecibirQuery, RecibirOrden
\* and RecibirInesperado, leaves a stream of the same shape.
LEMMA CaminoLeido ==
  ASSUME NEW s \in Seq(Nat), Len(s) > 7, ParaWorker(s), s[1] = 1, s[2] = 24
  PROVE  /\ s[4] \in Queries /\ s[6] = 0 /\ s[8] = TEXTO
         /\ ParaWorker(Queda(s, 8))
<1>1. PICK P : /\ Flujo(s, P, DelMaster)
               /\ \/ 1 \in P
                  \/ 2 \in P /\ s[1] \in Queries
                  \/ 3 \in P /\ s[1] = 4 /\ s[2] \in Queries
  BY DEF ParaWorker
<1>2. 2 \notin P
  <2> SUFFICES ASSUME 2 \in P PROVE FALSE
    OBVIOUS
  <2>1. PICK i \in 1..Len(s) : i = 2
    OBVIOUS
  <2>2. i \in P
    BY <2>1
  <2>3. s[i] \in {1, 301}
    BY <2>2, <1>1, CabezaWorker
  <2> QED BY <2>1, <2>3
<1>3. 1 \in P
  BY <1>1, <1>2
<1>4. 9 \in P /\ s[4] \in Queries /\ s[6] = 0 /\ s[8] = TEXTO
  BY <1>1, <1>3, FrenteWorker
<1>5. Flujo(Queda(s, 8), Desde(s, P, 8), DelMaster)
  BY <1>1, SonSecuencias, FlujoQueda
<1>6. 1 \in Desde(s, P, 8)
  BY <1>4 DEF Desde
<1> QED BY <1>4, <1>5, <1>6 DEF ParaWorker

\* RecibirOrden takes the code and the size of an order, and leaves its rest.
LEMMA OrdenLeida ==
  ASSUME NEW s \in Seq(Nat), Len(s) > 1, ParaWorker(s), s[1] \in {301, 304}, QidsBajos
  PROVE  ParaWorker(Queda(s, 2))
<1>1. PICK P : /\ Flujo(s, P, DelMaster)
               /\ \/ 1 \in P
                  \/ 2 \in P /\ s[1] \in Queries
                  \/ 3 \in P /\ s[1] = 4 /\ s[2] \in Queries
  BY DEF ParaWorker
<1>2. s[1] \notin Queries
  BY QueriesNat DEF QidsBajos, OP_DESALOJAR_QUERY
<1>3. 1 \in P
  BY <1>1, <1>2
<1>4. 5 \in P /\ s[3] = 4 /\ s[4] \in Queries
  BY <1>1, <1>3, FrenteWorker
<1>5. Len(s) >= 4
  BY <1>1, <1>4 DEF Flujo
<1>6. Flujo(Queda(s, 2), Desde(s, P, 2), DelMaster)
  BY <1>1, <1>5, SonSecuencias, FlujoQueda
<1>7. 3 \in Desde(s, P, 2)
  BY <1>4, <1>5 DEF Desde
<1>8. Queda(s, 2)[1] = s[3] /\ Queda(s, 2)[2] = s[4]
  BY <1>5 DEF Queda
<1> QED BY <1>4, <1>6, <1>7, <1>8 DEF ParaWorker

\* RecibirInesperado takes the length, or the qid, an order left behind.
LEMMA PalabraSaltada ==
  ASSUME NEW s \in Seq(Nat), s # <<>>, ParaWorker(s), s[1] \notin {1, 301, 304}
  PROVE  ParaWorker(Queda(s, 1))
<1>1. PICK P : /\ Flujo(s, P, DelMaster)
               /\ \/ 1 \in P
                  \/ 2 \in P /\ s[1] \in Queries
                  \/ 3 \in P /\ s[1] = 4 /\ s[2] \in Queries
  BY DEF ParaWorker
<1>2. 1 \notin P
  <2> SUFFICES ASSUME 1 \in P PROVE FALSE
    OBVIOUS
  <2>1. s[1] \in {1, 301}
    BY <1>1, FrenteWorker
  <2> QED BY <2>1
<1>3. Len(s) >= 1
  OBVIOUS
<1>4. Flujo(Queda(s, 1), Desde(s, P, 1), DelMaster)
  BY <1>1, <1>3, SonSecuencias, FlujoQueda
<1>5. CASE 2 \in P
  <2>1. 1 \in Desde(s, P, 1)
    BY <1>3, <1>5 DEF Desde
  <2> QED BY <1>4, <2>1 DEF ParaWorker
<1>6. CASE 3 \in P /\ s[2] \in Queries
  <2>1. Len(s) >= 2
    BY <1>1, <1>6 DEF Flujo
  <2>2. 2 \in Desde(s, P, 1)
    BY <2>1, <1>6 DEF Desde
  <2>3. Queda(s, 1)[1] = s[2]
    BY <2>1 DEF Queda
  <2> QED BY <1>4, <1>6, <2>2, <2>3 DEF ParaWorker
<1> QED BY <1>1, <1>2, <1>5, <1>6

\* What the loop of a Worker finds first: RestosConocidos, at the Worker.
LEMMA CabezaConocida ==
  ASSUME NEW s \in Seq(Nat), s # <<>>, ParaWorker(s)
  PROVE  s[1] \in {1, 301, 4} \cup Queries
<1>1. PICK P : /\ Flujo(s, P, DelMaster)
               /\ 1 \in P \/ s[1] \in Queries \/ s[1] = 4
  BY DEF ParaWorker
<1>2. CASE 1 \in P
  <2>1. s[1] \in {1, 301}
    BY <1>1, <1>2, FrenteWorker
  <2> QED BY <2>1
<1> QED BY <1>1, <1>2

\* The same for the thread of the Master: RecibirLectura, RecibirFin and
\* RecibirDesconocida.
LEMMA LecturaLeida ==
  ASSUME NEW s \in Seq(Nat), Len(s) > 7, ParaMaster(s), s[1] = 1020
  PROVE  /\ \E q \in Queries, n \in Nat : s[8] = Dato(q, n)
         /\ ParaMaster(Queda(s, 8))
<1>1. PICK P : Flujo(s, P, DelWorker) /\ 1 \in P
  BY DEF ParaMaster
<1>2. 9 \in P /\ \E q \in Queries, n \in Nat : s[8] = Dato(q, n)
  BY <1>1, FrenteMaster
<1>3. Flujo(Queda(s, 8), Desde(s, P, 8), DelWorker)
  BY <1>1, SonSecuencias, FlujoQueda
<1>4. 1 \in Desde(s, P, 8)
  BY <1>2 DEF Desde
<1> QED BY <1>2, <1>3, <1>4 DEF ParaMaster

\* RecibirFin takes a whole OP_FIN_QUERY.
LEMMA FinLeido ==
  ASSUME NEW s \in Seq(Nat), Len(s) > 3, ParaMaster(s), s[1] = 500
  PROVE  s[4] \in Queries /\ ParaMaster(Queda(s, 4))
<1>1. PICK P : Flujo(s, P, DelWorker) /\ 1 \in P
  BY DEF ParaMaster
<1>2. 5 \in P /\ s[4] \in Queries
  BY <1>1, FrenteMaster
<1>3. Flujo(Queda(s, 4), Desde(s, P, 4), DelWorker)
  BY <1>1, SonSecuencias, FlujoQueda
<1>4. 1 \in Desde(s, P, 4)
  BY <1>2 DEF Desde
<1> QED BY <1>2, <1>3, <1>4 DEF ParaMaster

\* RecibirDesconocida takes the code of an OP_RESP_READ_ERR, not its size.
LEMMA ErrorLeido ==
  ASSUME NEW s \in Seq(Nat), s # <<>>, ParaMaster(s), s[1] \notin {0, 500, 1020}
  PROVE  ParaMaster(Queda(s, 1))
<1>1. PICK P : Flujo(s, P, DelWorker) /\ 1 \in P
  BY DEF ParaMaster
<1>2. 3 \in P /\ s[2] = 0
  BY <1>1, FrenteMaster
<1>3. Len(s) >= 2
  BY <1>1, <1>2 DEF Flujo
<1>4. Flujo(Queda(s, 1), Desde(s, P, 1), DelWorker)
  BY <1>1, <1>3, SonSecuencias, FlujoQueda
<1>5. 2 \in Desde(s, P, 1)
  BY <1>2, <1>3 DEF Desde
<1>6. Queda(s, 1)[1] = s[2]
  BY <1>3 DEF Queda
<1> QED BY <1>2, <1>4, <1>5, <1>6 DEF ParaMaster

\* The only code the Master does not know is OP_RESP_READ_ERR.
LEMMA AvisoConocido ==
  ASSUME NEW s \in Seq(Nat), s # <<>>, ParaMaster(s)
  PROVE  s[1] \in {1020, 1021, 500, 0}
<1>1. PICK P : Flujo(s, P, DelWorker) /\ (1 \in P \/ s[1] = 0)
  BY DEF ParaMaster
<1>2. CASE 1 \in P
  <2>1. s[1] \in {1020, 1021, 500}
    BY <1>1, <1>2, FrenteMaster
  <2> QED BY <2>1
<1> QED BY <1>1, <1>2

-----------------------------------------------------------------------------
(***************************************************************************)
(* The types, with what is known of the streams.                           *)
(***************************************************************************)
TiposMaster ==
  /\ guion \in Guiones /\ cola \in Seq(Queries)
  /\ conectados \subseteq Workers /\ cortado \subseteq Workers \cup Queries
  /\ ejecutando \in [Workers -> Queries \cup {Nadie}]
  /\ qPlan \in Queries \cup {Nadie} /\ wPlan \in Workers \cup {Nadie}
  /\ qPlan # Nadie <=> wPlan # Nadie

TiposDesalojo ==
  /\ hiloQ \in [Queries -> PasosHiloQ] /\ qc \in [Queries -> PasosQC]
  /\ mejor \in [Queries -> Queries \cup {Nadie}]
  /\ peor \in [Queries -> Queries \cup {Nadie}]
  /\ workerPeor \in [Queries -> Workers \cup {Nadie}]
  /\ \A q \in Queries :
       /\ qc[q] = "fuera" => hiloQ[q] = "fuera"
       /\ mejor[q] # Nadie <=> hiloQ[q] \in {"buscar", "pedir"}
       /\ peor[q] # Nadie <=> hiloQ[q] = "pedir"
       /\ workerPeor[q] # Nadie <=> hiloQ[q] = "pedir"

\* A Worker has a query and a line of its script exactly while it runs it.
Ejecucion(w) ==
  IF fase[w] = "ejecuta"
  THEN qActual[w] \in Queries /\ linea[w] \in 1..Len(guion[qActual[w]])
  ELSE qActual[w] = Nadie
TiposWorker ==
  /\ fase \in [Workers -> PasosWorker]
  /\ qActual \in [Workers -> Queries \cup {Nadie}] /\ linea \in [Workers -> Nat]
  /\ \A w \in Workers : Ejecucion(w)

TiposCorrientes ==
  /\ aWorker \in [Workers -> Seq(Nat)] /\ aMaster \in [Workers -> Seq(Nat)]
  /\ \A w \in Workers : ParaWorker(aWorker[w]) /\ ParaMaster(aMaster[w])

InvTipos ==
  /\ TypeOKStorage /\ InvBanderas
  /\ TiposMaster /\ TiposDesalojo /\ TiposWorker /\ TiposCorrientes

\* The types hold when nothing runs.
LEMMA TiposInit == Init => InvTipos
<1> SUFFICES ASSUME Init PROVE InvTipos
  OBVIOUS
<1>1. TypeOKStorage
  BY DEF Init, InitStorage, TypeOKStorage, PasosHilo, PasosEnlace
<1>2. InvBanderas
  BY BanderasInit
<1>3. TiposMaster
  BY DEF Init, TiposMaster
<1>4. TiposDesalojo
  BY DEF Init, TiposDesalojo, PasosHiloQ, PasosQC
<1>5. TiposWorker
  BY DEF Init, TiposWorker, Ejecucion, PasosWorker
<1>6. TiposCorrientes
  BY CorrientesVacias DEF Init, TiposCorrientes
<1> QED BY <1>1, <1>2, <1>3, <1>4, <1>5, <1>6 DEF InvTipos

\* Each group depends on its variables alone.
LEMMA TiposIguales ==
  ASSUME InvTipos
  PROVE  /\ UNCHANGED varsStorage => TypeOKStorage'
         /\ UNCHANGED <<guion, varsMaster, cortado>> => TiposMaster'
         /\ UNCHANGED <<varsDesalojo, qc>> => TiposDesalojo'
         /\ UNCHANGED <<guion, fase, qActual, linea>> => TiposWorker'
         /\ UNCHANGED <<aWorker, aMaster>> => TiposCorrientes'
<1>1. UNCHANGED varsStorage => TypeOKStorage'
  BY DEF InvTipos, TypeOKStorage, varsStorage
<1>2. UNCHANGED <<guion, varsMaster, cortado>> => TiposMaster'
  BY DEF InvTipos, TiposMaster, varsMaster, varsPlan
<1>3. UNCHANGED <<varsDesalojo, qc>> => TiposDesalojo'
  BY DEF InvTipos, TiposDesalojo, varsDesalojo
<1>4. UNCHANGED <<guion, fase, qActual, linea>> => TiposWorker'
  BY DEF InvTipos, TiposWorker, Ejecucion
<1>5. UNCHANGED <<aWorker, aMaster>> => TiposCorrientes'
  BY DEF InvTipos, TiposCorrientes
<1> QED BY <1>1, <1>2, <1>3, <1>4, <1>5

\* One stream gains a package, or loses what was read.
LEMMA CorrienteWorker ==
  ASSUME TiposCorrientes, NEW w \in Workers, UNCHANGED aMaster,
         NEW s \in Seq(Nat), ParaWorker(s), aWorker' = [aWorker EXCEPT ![w] = s]
  PROVE  TiposCorrientes'
  BY DEF TiposCorrientes

\* What is sent to a Worker reaches its stream or is lost.
LEMMA PaqueteAlWorker ==
  ASSUME TiposCorrientes, NEW w \in Workers, NEW p \in DelMaster, AlWorker(w, p),
         UNCHANGED aMaster
  PROVE  TiposCorrientes'
<1>1. aWorker[w] \in Seq(Nat) /\ ParaWorker(aWorker[w])
  BY DEF TiposCorrientes
<1>2. CASE Alcanza(w)
  <2>1. aWorker' = [aWorker EXCEPT ![w] = aWorker[w] \o p]
    BY <1>2 DEF AlWorker
  <2>2. ParaWorker(aWorker[w] \o p) /\ aWorker[w] \o p \in Seq(Nat)
    BY <1>1, MasParaWorker
  <2> QED BY <2>1, <2>2, CorrienteWorker
<1>3. CASE ~Alcanza(w)
  <2>1. aWorker' = [aWorker EXCEPT ![w] = aWorker[w]]
    BY <1>3 DEF AlWorker
  <2> QED BY <1>1, <2>1, CorrienteWorker
<1> QED BY <1>2, <1>3

\* A stream to the Master that stays well formed, and the others as they were.
LEMMA CorrienteMaster ==
  ASSUME TiposCorrientes, NEW w \in Workers, UNCHANGED aWorker,
         NEW s \in Seq(Nat), ParaMaster(s), aMaster' = [aMaster EXCEPT ![w] = s]
  PROVE  TiposCorrientes'
  BY DEF TiposCorrientes

\* The steps of StorageConexiones.
LEMMA PasosStorageTipos ==
  ASSUME InvTipos, NEW w \in Workers, ArrancarWorker(w) \/ PasoStorage(w)
  PROVE  /\ TypeOKStorage' /\ TiposMaster' /\ TiposDesalojo' /\ TiposWorker'
         /\ TiposCorrientes'
<1>1. UNCHANGED varsResto
  BY DEF ArrancarWorker, PasoStorage
<1>2. TiposMaster' /\ TiposDesalojo' /\ TiposWorker' /\ TiposCorrientes'
  BY <1>1, TiposIguales DEF varsResto, varsWorker, varsCliente
<1>3. TypeOKStorage
  BY DEF InvTipos
<1>4. CASE PedirTamBloque(w)
  BY <1>2, <1>3, <1>4 DEF TypeOKStorage, PedirTamBloque, Enlace, PasosEnlace
<1>5. CASE AltaWorker(w)
  BY <1>2, <1>3, <1>5 DEF TypeOKStorage, AltaWorker, Hilo, PasosEnlace, PasosHilo
<1>6. CASE BajaWorker(w)
  BY <1>2, <1>3, <1>6 DEF TypeOKStorage, BajaWorker, Hilo, PasosEnlace, PasosHilo
<1> QED BY <1>2, <1>4, <1>5, <1>6 DEF ArrancarWorker, PasoStorage, PasoHilo

\* ConectarMaster: a Worker that is listed.
LEMMA ConectarTipos ==
  ASSUME InvTipos, NEW w \in Workers, ConectarMaster(w)
  PROVE  /\ TypeOKStorage' /\ TiposMaster' /\ TiposDesalojo' /\ TiposWorker'
         /\ TiposCorrientes'
<1>1. TypeOKStorage' /\ TiposDesalojo' /\ TiposCorrientes'
  BY TiposIguales DEF ConectarMaster, varsCliente
<1>2. TiposMaster'
  BY DEF InvTipos, TiposMaster, ConectarMaster, varsPlan
<1>3. TiposWorker'
  BY DEF InvTipos, TiposWorker, Ejecucion, ConectarMaster, PasosWorker
<1> QED BY <1>1, <1>2, <1>3

\* Salir: a process that ends.
LEMMA SalirTipos ==
  ASSUME InvTipos, NEW w \in Workers, Salir(w)
  PROVE  /\ TypeOKStorage' /\ TiposMaster' /\ TiposDesalojo' /\ TiposWorker'
         /\ TiposCorrientes'
<1>1. TiposMaster' /\ TiposDesalojo'
  BY TiposIguales DEF Salir, varsCliente
<1>2. TypeOKStorage'
  BY DEF InvTipos, TypeOKStorage, Salir, CerrarEnlace, Enlace, PasosEnlace
<1>3. TiposWorker'
  BY DEF InvTipos, TiposWorker, Ejecucion, Salir, PasosWorker
<1>4. TiposCorrientes'
  <2>1. TiposCorrientes /\ aMaster' = aMaster /\ aWorker' = [aWorker EXCEPT ![w] = <<>>]
    BY DEF InvTipos, Salir
  <2>2. <<>> \in Seq(Nat)
    OBVIOUS
  <2> QED BY <2>1, <2>2, CorrientesVacias, CorrienteWorker
<1> QED BY <1>1, <1>2, <1>3, <1>4

\* A query and a line more: RecibirQuery.
LEMMA RecibirQueryTipos ==
  ASSUME InvTipos, NEW w \in Workers, RecibirQuery(w)
  PROVE  /\ TypeOKStorage' /\ TiposMaster' /\ TiposDesalojo' /\ TiposWorker'
         /\ TiposCorrientes'
<1> DEFINE s == aWorker[w]
<1>1. TypeOKStorage' /\ TiposMaster' /\ TiposDesalojo'
  BY TiposIguales DEF RecibirQuery, varsCliente
<1>2. s \in Seq(Nat) /\ s # <<>> /\ s[1] = 1 /\ ParaWorker(s) /\ fase[w] = "escucha"
  <2>1. s \in Seq(Nat) /\ s # <<>> /\ Head(s) = 1 /\ ParaWorker(s) /\ fase[w] = "escucha"
    BY DEF InvTipos, TiposCorrientes, RecibirQuery, Escucha, recibir_operacion, OP_ENVIAR_PATH
  <2> QED BY <2>1, TrasUna
<1>3. CASE EsPaquete(Tail(s), 3)
  <2>1. /\ Len(s) > 7 /\ s[2] = 24 /\ TrasPaquete(Tail(s), 3) = Queda(s, 8)
        /\ Campo(Tail(s), 1) = s[4] /\ Campo(Tail(s), 2) = s[6]
    BY <1>2, <1>3, TrasTres
  <2>2. s[4] \in Queries /\ s[6] = 0 /\ ParaWorker(Queda(s, 8))
    BY <1>2, <2>1, CaminoLeido
  <2>3. /\ aMaster' = aMaster /\ aWorker' = [aWorker EXCEPT ![w] = Queda(s, 8)]
        /\ fase' = [fase EXCEPT ![w] = "ejecuta"]
        /\ qActual' = [qActual EXCEPT ![w] = s[4]]
        /\ linea' = [linea EXCEPT ![w] = 1] /\ guion' = guion
    BY <1>3, <2>1, <2>2 DEF RecibirQuery, PrimeraLinea
  <2>4. Queda(s, 8) \in Seq(Nat)
    BY <1>2, <2>1, QuedaEs
  <2>5. TiposCorrientes'
    BY <2>2, <2>3, <2>4, CorrienteWorker DEF InvTipos
  <2>6. Len(guion[s[4]]) \in Nat /\ Len(guion[s[4]]) >= 1
    <3>1. guion[s[4]] \in Seq(Lineas) \ {<<>>}
      BY <2>2, SupuestosSesion DEF InvTipos, TiposMaster
    <3> QED BY <3>1
  <2> HIDE DEF s
  <2>7. TiposWorker'
    BY <2>2, <2>3, <2>6 DEF InvTipos, TiposWorker, Ejecucion, PasosWorker
  <2> QED BY <1>1, <2>5, <2>7
<1>4. CASE ~EsPaquete(Tail(s), 3)
  <2>1. /\ UNCHANGED <<aMaster, aWorker, qActual, linea, guion>>
        /\ fase' = [fase EXCEPT ![w] = "perdido"]
    BY <1>4 DEF RecibirQuery
  <2>2. TiposWorker'
    BY <1>2, <2>1 DEF InvTipos, TiposWorker, Ejecucion, PasosWorker
  <2> QED BY <1>1, <2>1, <2>2, TiposIguales
<1> QED BY <1>3, <1>4

\* An order, or a word that is dropped.
LEMMA RecibirOrdenTipos ==
  ASSUME InvTipos, QidsBajos, NEW w \in Workers, RecibirOrden(w) \/ RecibirInesperado(w)
  PROVE  /\ TypeOKStorage' /\ TiposMaster' /\ TiposDesalojo' /\ TiposWorker'
         /\ TiposCorrientes'
<1>1. TypeOKStorage' /\ TiposMaster' /\ TiposDesalojo' /\ TiposWorker'
  BY TiposIguales DEF RecibirOrden, RecibirInesperado, varsCliente, varsWorker
<1>2. PICK s \in Seq(Nat) : s = aWorker[w] /\ s # <<>> /\ ParaWorker(s)
  BY DEF InvTipos, TiposCorrientes, RecibirOrden, RecibirInesperado, Escucha
<1>3. TiposCorrientes
  BY DEF InvTipos
<1>4. CASE RecibirOrden(w)
  <2>1. Len(s) > 1 /\ Head(s) \in {301, 304}
    BY <1>2, <1>4 DEF RecibirOrden, Escucha, recibir_operacion, OP_DESALOJAR_QUERY,
                      OP_QUERY_DESCONECTADA
  <2>2. Head(s) = s[1]
    BY <1>2, TrasUna
  <2>3. Len(s) > 1
    BY <2>1
  <2>4. Tail(Tail(s)) = Queda(s, 2)
    BY <2>3, TrasDos
  <2>5. s[1] \in {301, 304} /\ 2 =< Len(s)
    BY <2>1, <2>2
  <2>6. ParaWorker(Queda(s, 2))
    BY <1>2, <2>3, <2>5, OrdenLeida
  <2>7. Queda(s, 2) \in Seq(Nat)
    BY <2>5, QuedaEs
  <2>8. aMaster' = aMaster /\ aWorker' = [aWorker EXCEPT ![w] = Queda(s, 2)]
    BY <1>2, <1>4, <2>4 DEF RecibirOrden
  <2> QED BY <1>1, <1>3, <2>6, <2>7, <2>8, CorrienteWorker
<1>5. CASE RecibirInesperado(w)
  <2>1. Head(s) \notin {1, 301, 304}
    BY <1>2, <1>5 DEF RecibirInesperado, OP_ENVIAR_PATH, OP_DESALOJAR_QUERY,
                      OP_QUERY_DESCONECTADA
  <2>2. Tail(s) = Queda(s, 1) /\ Head(s) = s[1]
    BY <1>2, TrasUna
  <2>3. s[1] \notin {1, 301, 304}
    BY <2>1, <2>2
  <2>4. 1 =< Len(s)
    BY <1>2
  <2>5. Queda(s, 1) \in Seq(Nat) /\ ParaWorker(Queda(s, 1))
    BY <1>2, <2>3, <2>4, QuedaEs, PalabraSaltada
  <2>6. aMaster' = aMaster /\ aWorker' = [aWorker EXCEPT ![w] = Queda(s, 1)]
    BY <1>2, <1>5, <2>2 DEF RecibirInesperado
  <2> QED BY <1>1, <1>3, <2>5, <2>6, CorrienteWorker
<1> QED BY <1>4, <1>5

\* What a line sends is nothing or a package.
LEMMA EmiteEs ==
  ASSUME InvTipos, NEW w \in Workers, fase[w] = "ejecuta", NEW instruccion,
         NEW s \in Emite(w, instruccion)
  PROVE  s = <<>> \/ s \in DelWorker
<1>1. qActual[w] \in Queries /\ linea[w] \in Nat
  BY DEF InvTipos, TiposWorker, Ejecucion
<1>2. CASE instruccion = "READ"
  BY <1>1, <1>2 DEF Emite, DelWorker, ResultadoDe
<1>3. CASE instruccion = "END"
  BY <1>1, <1>3 DEF Emite, DelWorker, FinDe
<1>4. CASE instruccion \notin {"READ", "END"}
  BY <1>4 DEF Emite
<1> QED BY <1>2, <1>3, <1>4

\* ciclo_instruccion: what the instruction emits is a package.
LEMMA CicloTipos ==
  ASSUME InvTipos, NEW w \in Workers, ciclo_instruccion(w)
  PROVE  /\ TypeOKStorage' /\ TiposMaster' /\ TiposDesalojo' /\ TiposWorker'
         /\ TiposCorrientes'
<1>1. TypeOKStorage' /\ TiposMaster' /\ TiposDesalojo'
  BY TiposIguales DEF ciclo_instruccion, varsCliente
<1>2. fase[w] = "ejecuta" /\ ~desalojado[w] /\ ~query_cancelada[w]
  BY DEF InvTipos, InvBanderas, OrdenViejaNoAlcanza, ciclo_instruccion
<1>3. PICK s \in Emite(w, guion[qActual[w]][linea[w]]) : AlMaster(w, s)
  BY <1>2 DEF ciclo_instruccion
<1>4. TiposCorrientes'
  <2>1. aWorker' = aWorker /\ TiposCorrientes
    BY DEF ciclo_instruccion, InvTipos
  <2>2. aMaster[w] \in Seq(Nat) /\ ParaMaster(aMaster[w])
    BY <2>1 DEF TiposCorrientes
  <2>3. CASE w \in cortado \/ s = <<>>
    <3>3. aMaster[w] \o <<>> = aMaster[w]
      BY <2>2
    <3>1. aMaster' = [aMaster EXCEPT ![w] = @]
      BY <1>3, <2>3, <3>3 DEF AlMaster
    <3> QED BY <2>1, <2>2, <3>1, CorrienteMaster
  <2>4. CASE w \notin cortado /\ s # <<>>
    <3>1. s \in DelWorker
      BY <1>2, <1>3, <2>4, EmiteEs
    <3>2. aMaster' = [aMaster EXCEPT ![w] = @ \o s]
      BY <1>3, <2>4 DEF AlMaster
    <3>3. aMaster[w] \o s \in Seq(Nat) /\ ParaMaster(aMaster[w] \o s)
      BY <2>2, <3>1, MasParaMaster
    <3> QED BY <2>1, <3>2, <3>3, CorrienteMaster
  <2> QED BY <2>3, <2>4
<1>5. TiposWorker'
  <2>1. PICK L \in Nat : L = Len(guion[qActual[w]]) /\ linea[w] \in 1..L
    <3>1. qActual[w] \in Queries /\ linea[w] \in 1..Len(guion[qActual[w]])
      BY <1>2 DEF InvTipos, TiposWorker, Ejecucion
    <3>2. guion[qActual[w]] \in Seq(Lineas)
      BY <3>1, SupuestosSesion DEF InvTipos, TiposMaster
    <3> QED BY <3>1, <3>2
  <2>2. CASE linea[w] = L
    <3>1. /\ fase' = [fase EXCEPT ![w] = "escucha"] /\ guion' = guion
          /\ qActual' = [qActual EXCEPT ![w] = Nadie]
          /\ linea' = [linea EXCEPT ![w] = 0]
      BY <1>2, <2>1, <2>2 DEF ciclo_instruccion
    <3> QED BY <3>1 DEF InvTipos, TiposWorker, Ejecucion, PasosWorker
  <2>3. CASE linea[w] # L
    <3>1. /\ fase' = fase /\ guion' = guion /\ qActual' = qActual
          /\ linea' = [linea EXCEPT ![w] = @ + 1]
      BY <1>2, <2>1, <2>3 DEF ciclo_instruccion, InvTipos, TiposWorker
    <3>2. linea[w] + 1 \in 1..L /\ linea[w] + 1 \in Nat
      BY <2>1, <2>3
    <3> QED BY <1>2, <2>1, <3>1, <3>2 DEF InvTipos, TiposWorker, Ejecucion
  <2> QED BY <2>2, <2>3
<1> QED BY <1>1, <1>4, <1>5

\* What the thread of a Worker in the Master takes from its stream.
LEMMA RecibirLecturaTipos ==
  ASSUME InvTipos, NEW w \in Workers, RecibirLectura(w)
  PROVE  /\ TypeOKStorage' /\ TiposMaster' /\ TiposDesalojo' /\ TiposWorker'
         /\ TiposCorrientes'
<1>1. TypeOKStorage' /\ TiposMaster' /\ TiposDesalojo' /\ TiposWorker'
  BY TiposIguales DEF RecibirLectura, varsWorker
<1>2. PICK s \in Seq(Nat) : s = aMaster[w] /\ ParaMaster(s)
  BY DEF InvTipos, TiposCorrientes
<1>3. s # <<>> /\ Head(s) = 1020 /\ EsPaquete(Tail(s), 3)
  BY <1>2 DEF RecibirLectura, recibir_operacion, OP_RESP_READ_OK
<1>4. Len(s) > 7 /\ s[1] = 1020 /\ TrasPaquete(Tail(s), 3) = Queda(s, 8)
  BY <1>3, TrasUna, TrasTres
<1>5. ParaMaster(Queda(s, 8))
  BY <1>2, <1>4, LecturaLeida
<1>6. Queda(s, 8) \in Seq(Nat)
  BY <1>4, QuedaEs
<1>7. aWorker' = aWorker /\ aMaster' = [aMaster EXCEPT ![w] = Queda(s, 8)]
  BY <1>2, <1>4 DEF RecibirLectura
<1>8. TiposCorrientes'
  BY <1>5, <1>6, <1>7, CorrienteMaster DEF InvTipos
<1> QED BY <1>1, <1>8

\* RecibirFin, heeded or not.
LEMMA RecibirFinTipos ==
  ASSUME InvTipos, NEW w \in Workers, RecibirFin(w)
  PROVE  /\ TypeOKStorage' /\ TiposMaster' /\ TiposDesalojo' /\ TiposWorker'
         /\ TiposCorrientes'
<1>1. TypeOKStorage' /\ TiposDesalojo' /\ TiposWorker'
  BY TiposIguales DEF RecibirFin, varsWorker
<1>2. PICK s \in Seq(Nat) : s = aMaster[w] /\ ParaMaster(s)
  BY DEF InvTipos, TiposCorrientes
<1>3. s # <<>> /\ Head(s) = 500 /\ EsPaquete(Tail(s), 1)
  BY <1>2 DEF RecibirFin, recibir_operacion, OP_FIN_QUERY
<1>4. Len(s) > 3 /\ s[1] = 500 /\ TrasPaquete(Tail(s), 1) = Queda(s, 4)
  BY <1>3, TrasUna, TrasUno
<1>5. ParaMaster(Queda(s, 4))
  BY <1>2, <1>4, FinLeido
<1>6. Queda(s, 4) \in Seq(Nat)
  BY <1>4, QuedaEs
<1>7. aWorker' = aWorker /\ aMaster' = [aMaster EXCEPT ![w] = Queda(s, 4)]
  BY <1>2, <1>4 DEF RecibirFin
<1>8. TiposCorrientes'
  BY <1>5, <1>6, <1>7, CorrienteMaster DEF InvTipos
<1>9. TiposMaster'
  <2>1. guion' = guion /\ cola' = cola /\ conectados' = conectados
    BY DEF RecibirFin
  <2>2. \/ ejecutando' = ejecutando /\ cortado' = cortado
        \/ /\ ejecutando' = [ejecutando EXCEPT ![w] = Nadie]
           /\ ejecutando[w] # Nadie /\ cortado' = cortado \cup {ejecutando[w]}
    BY DEF RecibirFin, registrar_worker_libre
  <2>3. UNCHANGED <<qPlan, wPlan>>
    BY DEF RecibirFin, varsPlan
  <2> QED BY <2>1, <2>2, <2>3 DEF InvTipos, TiposMaster
<1> QED BY <1>1, <1>8, <1>9

\* RecibirDesconocida: only the code is taken.
LEMMA RecibirDesconocidaTipos ==
  ASSUME InvTipos, NEW w \in Workers, RecibirDesconocida(w)
  PROVE  /\ TypeOKStorage' /\ TiposMaster' /\ TiposDesalojo' /\ TiposWorker'
         /\ TiposCorrientes'
<1>1. TypeOKStorage' /\ TiposMaster' /\ TiposDesalojo' /\ TiposWorker'
  BY TiposIguales DEF RecibirDesconocida, varsWorker, varsCliente
<1>2. PICK s \in Seq(Nat) : s = aMaster[w] /\ ParaMaster(s)
  BY DEF InvTipos, TiposCorrientes
<1>3. s # <<>> /\ Head(s) \notin {0, 500, 1020}
  BY <1>2 DEF RecibirDesconocida, recibir_operacion, OP_FIN_QUERY, OP_RESP_READ_OK
<1>4. Head(s) = s[1] /\ Tail(s) = Queda(s, 1)
  BY <1>3, TrasUna
<1>5. s[1] \notin {0, 500, 1020}
  BY <1>3, <1>4
<1>6. ParaMaster(Queda(s, 1))
  BY <1>2, <1>3, <1>5, ErrorLeido
<1>7. 1 =< Len(s)
  BY <1>3
<1>8. Queda(s, 1) \in Seq(Nat)
  BY <1>7, QuedaEs
<1>9. aWorker' = aWorker /\ aMaster' = [aMaster EXCEPT ![w] = Queda(s, 1)]
  BY <1>2, <1>4 DEF RecibirDesconocida
<1>10. TiposCorrientes'
  BY <1>6, <1>8, <1>9, CorrienteMaster DEF InvTipos
<1> QED BY <1>1, <1>10

\* manejar_desconexion_worker.
LEMMA DesconexionTipos ==
  ASSUME InvTipos, NEW w \in Workers, manejar_desconexion_worker(w)
  PROVE  /\ TypeOKStorage' /\ TiposMaster' /\ TiposDesalojo' /\ TiposWorker'
         /\ TiposCorrientes'
<1>1. TypeOKStorage' /\ TiposDesalojo' /\ TiposWorker'
  BY TiposIguales DEF manejar_desconexion_worker, varsWorker
<1>2. TiposMaster'
  BY DEF InvTipos, TiposMaster, manejar_desconexion_worker, varsPlan
<1>3. TiposCorrientes'
  <2>1. TiposCorrientes /\ aWorker' = aWorker /\ aMaster' = [aMaster EXCEPT ![w] = <<>>]
    BY DEF InvTipos, manejar_desconexion_worker
  <2>2. <<>> \in Seq(Nat)
    OBVIOUS
  <2> QED BY <2>1, <2>2, CorrientesVacias, CorrienteMaster
<1> QED BY <1>1, <1>2, <1>3

\* The planner takes the first of READY for a free Worker ...
LEMMA AsignarTipos ==
  ASSUME InvTipos, NEW w \in Workers, Asignar(w)
  PROVE  /\ TypeOKStorage' /\ TiposMaster' /\ TiposDesalojo' /\ TiposWorker'
         /\ TiposCorrientes'
<1>1. TypeOKStorage' /\ TiposDesalojo' /\ TiposWorker' /\ TiposCorrientes'
  BY TiposIguales DEF Asignar, varsWorker, varsCliente
<1>2. PICK q \in Queries : q = Head(cola) /\ Tail(cola) \in Seq(Queries)
  BY DEF InvTipos, TiposMaster, Asignar
<1>3. PICK c \in Seq(Queries) : c = Tail(cola)
  BY <1>2
<1>4. /\ cola' = c /\ ejecutando' = [ejecutando EXCEPT ![w] = q] /\ qPlan' = q /\ wPlan' = w
      /\ UNCHANGED <<guion, conectados, cortado>>
  BY <1>2, <1>3 DEF Asignar, QuitarDeCola
<1>5. TiposMaster'
  BY <1>4, QueriesNat DEF InvTipos, TiposMaster
<1> QED BY <1>1, <1>5

\* ... sends it its path ...
LEMMA EnviarTipos ==
  ASSUME InvTipos, EnviarPath
  PROVE  /\ TypeOKStorage' /\ TiposMaster' /\ TiposDesalojo' /\ TiposWorker'
         /\ TiposCorrientes'
<1>1. TypeOKStorage' /\ TiposDesalojo' /\ TiposWorker'
  BY TiposIguales DEF EnviarPath, varsWorker, varsCliente
<1>2. TiposMaster'
  BY DEF InvTipos, TiposMaster, EnviarPath
<1>3. PICK w \in Workers, q \in Queries : w = wPlan /\ q = qPlan
  BY DEF InvTipos, TiposMaster, EnviarPath
<1>4. Camino(q) \in DelMaster
  BY DEF DelMaster
<1>5. aMaster' = aMaster /\ AlWorker(w, Camino(q))
  BY <1>3 DEF EnviarPath, Camino
<1>6. TiposCorrientes'
  BY <1>4, <1>5, PaqueteAlWorker DEF InvTipos
<1> QED BY <1>1, <1>2, <1>6

\* ... or puts the query back.
LEMMA FallidoTipos ==
  ASSUME InvTipos, EnvioFallido
  PROVE  /\ TypeOKStorage' /\ TiposMaster' /\ TiposDesalojo' /\ TiposWorker'
         /\ TiposCorrientes'
<1>1. TypeOKStorage' /\ TiposDesalojo' /\ TiposWorker' /\ TiposCorrientes'
  BY TiposIguales DEF EnvioFallido, varsWorker, varsCliente
<1>2. PICK q \in Queries : q = qPlan
  BY DEF InvTipos, TiposMaster, EnvioFallido
<1>3. cola \in Seq(Queries)
  BY DEF InvTipos, TiposMaster
<1>4. PICK c \in Seq(Queries) : c = <<q>> \o cola
  <2>1. <<q>> \in Seq(Queries)
    OBVIOUS
  <2>2. <<q>> \o cola \in Seq(Queries)
    BY <1>3, <2>1
  <2> QED BY <2>2
<1>5. cola' = c /\ qPlan' = Nadie /\ wPlan' = Nadie
  BY <1>2, <1>4 DEF EnvioFallido
<1>6. UNCHANGED <<guion, conectados, ejecutando, cortado>>
  BY DEF EnvioFallido
<1>7. TiposMaster'
  BY <1>5, <1>6 DEF InvTipos, TiposMaster
<1> QED BY <1>1, <1>7

\* list_add and list_sort put the query in READY and keep the others.
LEMMA AntesEs ==
  ASSUME cola \in Seq(Queries), NEW q \in Queries
  PROVE  Antes(q) \in 0..Len(cola)
<1> DEFINE A == {i \in 1..Len(cola) : Prioridad[cola[i]] =< Prioridad[q]}
<1>1. IsFiniteSet(1..Len(cola)) /\ Cardinality(1..Len(cola)) = Len(cola)
  <2>1. 1 \in Int /\ Len(cola) \in Int /\ Len(cola) \in Nat
    OBVIOUS
  <2>2. /\ IsFiniteSet(1..Len(cola))
        /\ Cardinality(1..Len(cola)) = IF 1 > Len(cola) THEN 0 ELSE Len(cola) - 1 + 1
    BY <2>1, FS_Interval
  <2> QED BY <2>1, <2>2
<1>2. A \subseteq 1..Len(cola)
  OBVIOUS
<1>3. Cardinality(A) =< Cardinality(1..Len(cola)) /\ IsFiniteSet(A)
  BY <1>1, <1>2, FS_Subset
<1>4. Cardinality(A) \in Nat
  BY <1>3, FS_CardinalityType
<1>5. Antes(q) = Cardinality(A)
  BY DEF Antes
<1> HIDE DEF A
<1> QED BY <1>1, <1>3, <1>4, <1>5

\* Insertar adds the query and keeps the rest of READY.
LEMMA InsertarEs ==
  ASSUME cola \in Seq(Queries), NEW q \in Queries
  PROVE  /\ Insertar(q) \in Seq(Queries) /\ Len(Insertar(q)) = Len(cola) + 1
         /\ \E k \in 1..(Len(cola) + 1) :
              \A i \in 1..(Len(cola) + 1) :
                Insertar(q)[i] = IF i < k THEN cola[i]
                                 ELSE IF i = k THEN q ELSE cola[i - 1]
<1>1. CASE Algoritmo = "FIFO"
  <2>1. Insertar(q) = Append(cola, q)
    BY <1>1 DEF Insertar
  <2>2. \A i \in 1..(Len(cola) + 1) :
          Append(cola, q)[i] = IF i < Len(cola) + 1 THEN cola[i]
                               ELSE IF i = Len(cola) + 1 THEN q ELSE cola[i - 1]
    OBVIOUS
  <2>3. Len(cola) + 1 \in 1..(Len(cola) + 1)
    OBVIOUS
  <2>4. Append(cola, q) \in Seq(Queries) /\ Len(Append(cola, q)) = Len(cola) + 1
    OBVIOUS
  <2> QED BY <2>1, <2>2, <2>3, <2>4
<1>2. CASE Algoritmo # "FIFO"
  <2>1. PICK a \in 0..Len(cola) : a = Antes(q)
    BY AntesEs
  <2> DEFINE X == SubSeq(cola, 1, a)
             Y == SubSeq(cola, a + 1, Len(cola))
  <2>2. Insertar(q) = X \o <<q>> \o Y
    BY <1>2, <2>1 DEF Insertar
  <2>3. /\ X \in Seq(Queries) /\ Len(X) = a /\ \A i \in 1..a : X[i] = cola[i]
    OBVIOUS
  <2>4. /\ Y \in Seq(Queries) /\ Len(Y) = Len(cola) - a
        /\ \A i \in 1..(Len(cola) - a) : Y[i] = cola[i + a]
    OBVIOUS
  <2> HIDE DEF X, Y
  <2>5. /\ X \o <<q>> \in Seq(Queries) /\ Len(X \o <<q>>) = a + 1
        /\ \A i \in 1..a : (X \o <<q>>)[i] = X[i]
        /\ (X \o <<q>>)[a + 1] = q
    BY <2>3
  <2> DEFINE Z == X \o <<q>>
  <2> HIDE DEF Z
  <2>6. /\ Z \in Seq(Queries) /\ Len(Z) = a + 1
        /\ \A i \in 1..a : Z[i] = cola[i]
        /\ Z[a + 1] = q /\ Insertar(q) = Z \o Y
    BY <2>2, <2>3, <2>5 DEF Z
  <2>7. /\ Z \o Y \in Seq(Queries) /\ Len(Z \o Y) = Len(cola) + 1
        /\ \A i \in 1..(Len(cola) + 1) :
             (Z \o Y)[i] = IF i =< a + 1 THEN Z[i] ELSE Y[i - (a + 1)]
    BY <2>4, <2>6
  <2>8. ASSUME NEW i \in 1..(Len(cola) + 1), i > a + 1
        PROVE  Y[i - (a + 1)] = cola[i - 1]
    <3>1. i - (a + 1) \in 1..(Len(cola) - a) /\ i - (a + 1) + a = i - 1
      BY <2>8
    <3> QED BY <3>1, <2>4
  <2>9. ASSUME NEW i \in 1..(Len(cola) + 1)
        PROVE  Insertar(q)[i] = IF i < a + 1 THEN cola[i]
                                ELSE IF i = a + 1 THEN q ELSE cola[i - 1]
    BY <2>6, <2>7, <2>8
  <2>10. a + 1 \in 1..(Len(cola) + 1)
    OBVIOUS
  <2> QED BY <2>6, <2>7, <2>9, <2>10
<1> QED BY <1>1, <1>2

\* LlegaQuery.
LEMMA LlegaTipos ==
  ASSUME InvTipos, NEW q \in Queries, LlegaQuery(q)
  PROVE  /\ TypeOKStorage' /\ TiposMaster' /\ TiposDesalojo' /\ TiposWorker'
         /\ TiposCorrientes'
<1>1. TypeOKStorage' /\ TiposWorker' /\ TiposCorrientes'
  BY TiposIguales DEF LlegaQuery, varsWorker
<1>2. Insertar(q) \in Seq(Queries)
  BY InsertarEs DEF InvTipos, TiposMaster
<1>3. TiposMaster'
  BY <1>2 DEF InvTipos, TiposMaster, LlegaQuery, varsPlan
<1>4. TiposDesalojo'
  BY DEF InvTipos, TiposDesalojo, LlegaQuery, PasosQC, PasosHiloQ
<1> QED BY <1>1, <1>3, <1>4

\* verificar_desalojo, cut where its locks are released.
LEMMA MirarMejorTipos ==
  ASSUME InvTipos, NEW q \in Queries, MirarMejor(q)
  PROVE  /\ TypeOKStorage' /\ TiposMaster' /\ TiposDesalojo' /\ TiposWorker'
         /\ TiposCorrientes'
<1>1. TypeOKStorage' /\ TiposMaster' /\ TiposWorker' /\ TiposCorrientes'
  BY TiposIguales DEF MirarMejor, varsWorker
<1>2. cola # <<>> => Head(cola) \in Queries /\ Head(cola) # Nadie
  BY QueriesNat DEF InvTipos, TiposMaster
<1>3. TiposDesalojo'
  BY <1>2 DEF InvTipos, TiposDesalojo, MirarMejor, PasosHiloQ, varsCliente
<1> QED BY <1>1, <1>3

\* buscar_peor_query_en_ejecucion.
LEMMA BuscarPeorTipos ==
  ASSUME InvTipos, NEW q \in Queries, buscar_peor_query_en_ejecucion(q)
  PROVE  /\ TypeOKStorage' /\ TiposMaster' /\ TiposDesalojo' /\ TiposWorker'
         /\ TiposCorrientes'
<1>1. TypeOKStorage' /\ TiposMaster' /\ TiposWorker' /\ TiposCorrientes'
  BY TiposIguales DEF buscar_peor_query_en_ejecucion, PeorDe, varsWorker
<1>2. hiloQ[q] = "buscar" /\ qc' = qc
  BY DEF buscar_peor_query_en_ejecucion, PeorDe, varsCliente
<1>3. CASE Ocupados = {}
  <2>1. /\ hiloQ' = [hiloQ EXCEPT ![q] = "loop"] /\ mejor' = [mejor EXCEPT ![q] = Nadie]
        /\ UNCHANGED <<peor, workerPeor>>
    BY <1>3 DEF buscar_peor_query_en_ejecucion, PeorDe
  <2>2. TiposDesalojo'
    BY <1>2, <2>1 DEF InvTipos, TiposDesalojo, PasosHiloQ
  <2> QED BY <1>1, <2>2
<1>4. CASE Ocupados # {}
  <2>1. PICK w \in Ocupados : /\ hiloQ' = [hiloQ EXCEPT ![q] = "pedir"]
                              /\ peor' = [peor EXCEPT ![q] = ejecutando[w]]
                              /\ workerPeor' = [workerPeor EXCEPT ![q] = w]
                              /\ mejor' = mejor
    BY <1>4 DEF buscar_peor_query_en_ejecucion, PeorDe
  <2>2. w \in Workers /\ w # Nadie /\ ejecutando[w] \in Queries /\ ejecutando[w] # Nadie
    BY QueriesNat DEF Ocupados, InvTipos, TiposMaster
  <2>3. TiposDesalojo'
    BY <1>2, <2>1, <2>2 DEF InvTipos, TiposDesalojo, PasosHiloQ
  <2> QED BY <1>1, <2>3
<1> QED BY <1>3, <1>4

\* PedirDesalojo: the order is a package to a Worker.
LEMMA PedirDesalojoTipos ==
  ASSUME InvTipos, NEW q \in Queries, PedirDesalojo(q)
  PROVE  /\ TypeOKStorage' /\ TiposMaster' /\ TiposDesalojo' /\ TiposWorker'
         /\ TiposCorrientes'
<1>1. TypeOKStorage' /\ TiposMaster' /\ TiposWorker'
  BY TiposIguales DEF PedirDesalojo, varsWorker
<1>2. TiposDesalojo'
  BY DEF InvTipos, TiposDesalojo, PedirDesalojo, PasosHiloQ, varsCliente
<1>3. TiposCorrientes'
  <2>1. PICK w \in Workers, p \in Queries : w = workerPeor[q] /\ p = peor[q]
    BY DEF InvTipos, TiposDesalojo, PedirDesalojo
  <2>2. CASE aWorker' = aWorker
    BY <2>2, TiposIguales DEF PedirDesalojo
  <2>3. CASE aWorker' # aWorker
    <3>1. aMaster' = aMaster /\ AlWorker(w, Orden(p))
      BY <2>1, <2>3 DEF PedirDesalojo, Orden
    <3>2. Orden(p) \in DelMaster
      BY DEF DelMaster
    <3> QED BY <3>1, <3>2, PaqueteAlWorker DEF InvTipos
  <2> QED BY <2>2, <2>3
<1> QED BY <1>1, <1>2, <1>3

\* LeerQC.
LEMMA LeerQCTipos ==
  ASSUME InvTipos, NEW q \in Queries, LeerQC(q)
  PROVE  /\ TypeOKStorage' /\ TiposMaster' /\ TiposDesalojo' /\ TiposWorker'
         /\ TiposCorrientes'
<1>1. TypeOKStorage' /\ TiposMaster' /\ TiposWorker' /\ TiposCorrientes'
  BY TiposIguales DEF LeerQC, varsWorker
<1>2. PICK p \in PasosQC : qc' = [qc EXCEPT ![q] = p] /\ p # "fuera"
  BY DEF LeerQC, PasosQC
<1>3. TiposDesalojo'
  BY <1>2 DEF InvTipos, TiposDesalojo, LeerQC, varsDesalojo
<1> QED BY <1>1, <1>3

\* InvTipos is inductive: one step per action.
LEMMA TiposPaso == InvTipos /\ QidsBajos /\ [Next]_vars => InvTipos'
<1> SUFFICES ASSUME InvTipos, QidsBajos, [Next]_vars PROVE InvTipos'
  OBVIOUS
<1>1. InvBanderas'
  BY BanderasPaso DEF InvTipos
<1>2. CASE UNCHANGED vars
  BY <1>1, <1>2, TiposIguales DEF InvTipos, vars, varsWorker, varsCliente
<1>3. ASSUME NEW w \in Workers,
             \/ ArrancarWorker(w) \/ PasoStorage(w) \/ ConectarMaster(w) \/ Morir(w)
             \/ AtenderWorker(w) \/ PasoWorker(w)
      PROVE  InvTipos'
  <2>1. CASE ArrancarWorker(w) \/ PasoStorage(w)
    BY <1>1, <2>1, PasosStorageTipos DEF InvTipos
  <2>2. CASE ConectarMaster(w)
    BY <1>1, <2>2, ConectarTipos DEF InvTipos
  <2>3. CASE Morir(w) \/ RecibirCierre(w)
    <3>1. Salir(w)
      BY <2>3 DEF Morir, RecibirCierre
    <3> QED BY <1>1, <3>1, SalirTipos DEF InvTipos
  <2>4. CASE AtenderWorker(w)
    BY <1>1, <2>4, RecibirLecturaTipos, RecibirFinTipos, RecibirDesconocidaTipos,
       DesconexionTipos DEF InvTipos, AtenderWorker
  <2>5. CASE RecibirQuery(w)
    BY <1>1, <2>5, RecibirQueryTipos DEF InvTipos
  <2>6. CASE RecibirOrden(w) \/ RecibirInesperado(w)
    BY <1>1, <2>6, RecibirOrdenTipos DEF InvTipos
  <2>7. CASE ciclo_instruccion(w)
    BY <1>1, <2>7, CicloTipos DEF InvTipos
  <2> QED BY <1>3, <2>1, <2>2, <2>3, <2>4, <2>5, <2>6, <2>7 DEF PasoWorker
<1>4. ASSUME NEW q \in Queries, LlegaQuery(q) \/ PasoHiloQ(q) \/ LeerQC(q)
      PROVE  InvTipos'
  <2>1. CASE LlegaQuery(q)
    BY <1>1, <2>1, LlegaTipos DEF InvTipos
  <2>2. CASE PasoHiloQ(q)
    BY <1>1, <2>2, MirarMejorTipos, BuscarPeorTipos, PedirDesalojoTipos
       DEF InvTipos, PasoHiloQ
  <2>3. CASE LeerQC(q)
    BY <1>1, <2>3, LeerQCTipos DEF InvTipos
  <2> QED BY <1>4, <2>1, <2>2, <2>3
<1>5. CASE planificador_fifo
  <2>1. CASE \E w \in Workers : Asignar(w)
    BY <1>1, <2>1, AsignarTipos DEF InvTipos
  <2>2. CASE EnviarPath \/ EnvioFallido
    BY <1>1, <2>2, EnviarTipos, FallidoTipos DEF InvTipos
  <2> QED BY <1>5, <2>1, <2>2 DEF planificador_fifo
<1> QED BY <1>2, <1>3, <1>4, <1>5 DEF Next

\* TypeOK, with what is known of the streams: every turn of the Master, of the
\* Workers and of the Query Controls keeps the types (master.c, worker.c and
\* master_planificacion.c).
THEOREM TiposSesion == ASSUME QidsBajos PROVE Spec => []TypeOK
<1>1. InvTipos => TypeOK
  BY DEF InvTipos, TypeOK, TiposMaster, TiposDesalojo, TiposWorker
<1>2. InvTipos /\ [Next]_vars => InvTipos'
  BY TiposPaso
<1> QED BY TiposInit, <1>1, <1>2, PTL DEF Spec

\* RestosConocidos: the only words that are read as a code without being one are
\* the size of an OP_RESP_READ_ERR, which ends the connection of a Worker
\* (master.c:441), and the length and the qid an order to leave a query leaves
\* behind, which the loop of the Worker drops (worker.c:262).  No qid is read as
\* an order, if they are below OP_DESALOJAR_QUERY.
THEOREM Restos == ASSUME QidsBajos PROVE Spec => []RestosConocidos
<1>1. InvTipos => RestosConocidos
  <2> SUFFICES ASSUME InvTipos, NEW w \in Workers
               PROVE  /\ aMaster[w] # <<>> => Head(aMaster[w]) \in {1020, 1021, 500, 0}
                      /\ aWorker[w] # <<>> => Head(aWorker[w]) \in {1, 301, 4} \cup Queries
    BY DEF RestosConocidos, OP_RESP_READ_OK, OP_RESP_READ_ERR, OP_FIN_QUERY,
           OP_ENVIAR_PATH, OP_DESALOJAR_QUERY
  <2>1. PICK s \in Seq(Nat), t \in Seq(Nat) :
          s = aMaster[w] /\ ParaMaster(s) /\ t = aWorker[w] /\ ParaWorker(t)
    BY DEF InvTipos, TiposCorrientes
  <2>2. s # <<>> => s[1] \in {1020, 1021, 500, 0} /\ Head(s) = s[1]
    BY <2>1, AvisoConocido, TrasUna
  <2>3. t # <<>> => t[1] \in {1, 301, 4} \cup Queries /\ Head(t) = t[1]
    BY <2>1, CabezaConocida, TrasUna
  <2> QED BY <2>1, <2>2, <2>3
<1>2. InvTipos /\ [Next]_vars => InvTipos'
  BY TiposPaso
<1> QED BY TiposInit, <1>1, <1>2, PTL DEF Spec

-----------------------------------------------------------------------------
(***************************************************************************)
(* The query that is on its way to a Worker and the end that is on its way *)
(* to the Master.                                                          *)
(***************************************************************************)
\* In a stream to a Worker only a path is a TEXTO, behind its qid and its pc;
\* in one to the Master only the code of an end is OP_FIN_QUERY.
Pend(s)  == {q \in Queries : \E j \in 8..Len(s) : s[j] = TEXTO /\ s[j - 4] = q}
Fines(s) == {q \in Queries : \E j \in 1..Len(s) : s[j] = OP_FIN_QUERY /\ s[j + 3] = q}

UnCamino(s) ==
  \A j \in 1..Len(s) : s[j] = TEXTO =>
    /\ j >= 8 /\ s[j - 7] = OP_ENVIAR_PATH /\ s[j - 4] \in Queries
    /\ \A i \in 1..Len(s) : s[i] = TEXTO => i = j
UnFin(s) ==
  \A j \in 1..Len(s) : s[j] = OP_FIN_QUERY =>
    /\ j + 3 =< Len(s) /\ s[j + 3] \in Queries
    /\ \A i \in 1..Len(s) : s[i] = OP_FIN_QUERY => i = j

\* Nothing is pending on a stream with nothing in it.
LEMMA Vacias == UnCamino(<<>>) /\ Pend(<<>>) = {} /\ UnFin(<<>>) /\ Fines(<<>>) = {}
  BY DEF UnCamino, Pend, UnFin, Fines

\* What is read of the stream before the path does not touch it.
LEMMA PendQueda ==
  ASSUME NEW s \in Seq(Nat), UnCamino(s), NEW k \in Nat, k =< Len(s),
         \A i \in 1..k : s[i] # OP_ENVIAR_PATH
  PROVE  UnCamino(Queda(s, k)) /\ Pend(Queda(s, k)) \subseteq Pend(s)
<1>1. PICK t \in Seq(Nat) : /\ t = Queda(s, k) /\ Len(t) = Len(s) - k
                            /\ \A i \in 1..(Len(s) - k) : t[i] = s[i + k]
  BY QuedaEs
<1>2. Len(s) \in Nat /\ Len(t) \in Nat /\ Len(t) = Len(s) - k
  BY <1>1
<1>3. ASSUME NEW j \in 1..Len(t), t[j] = TEXTO
      PROVE  /\ j >= 8 /\ t[j - 7] = OP_ENVIAR_PATH /\ t[j - 4] = s[j + k - 4]
             /\ s[j + k] = TEXTO /\ s[j + k - 4] \in Queries
             /\ j + k \in 1..Len(s)
             /\ \A i \in 1..Len(t) : t[i] = TEXTO => i = j
  <2>1. j + k \in 1..Len(s) /\ s[j + k] = TEXTO
    <3>1. j \in 1..(Len(s) - k) /\ j + k \in 1..Len(s)
      BY <1>2
    <3>2. t[j] = s[j + k]
      BY <1>1, <3>1
    <3> QED BY <1>3, <3>1, <3>2
  <2>2. /\ j + k >= 8 /\ s[j + k - 7] = OP_ENVIAR_PATH /\ s[j + k - 4] \in Queries
        /\ \A i \in 1..Len(s) : s[i] = TEXTO => i = j + k
    BY <2>1 DEF UnCamino
  <2>3. j >= 8
    <3> SUFFICES ASSUME j < 8 PROVE FALSE
      BY <1>2
    <3>1. j + k >= 8
      BY <2>2
    <3>2. j + k - 7 \in 1..k
      BY <1>2, <3>1
    <3> QED BY <2>2, <3>2
  <2>4. t[j - 7] = s[j + k - 7] /\ t[j - 4] = s[j + k - 4]
    <3>1. j - 7 \in 1..(Len(s) - k) /\ j - 4 \in 1..(Len(s) - k)
      BY <1>2, <2>3
    <3>2. t[j - 7] = s[j - 7 + k] /\ t[j - 4] = s[j - 4 + k]
      BY <1>1, <3>1
    <3>3. j - 7 + k = j + k - 7 /\ j - 4 + k = j + k - 4
      OBVIOUS
    <3> QED BY <3>2, <3>3
  <2>5. ASSUME NEW i \in 1..Len(t), t[i] = TEXTO PROVE i = j
    <3>0. i \in 1..(Len(s) - k) /\ i + k \in 1..Len(s)
      BY <1>2
    <3>1. i + k \in 1..Len(s) /\ s[i + k] = TEXTO
      BY <1>1, <2>5, <3>0
    <3>2. i + k = j + k
      BY <2>2, <3>1
    <3> QED BY <3>2
  <2> QED BY <2>1, <2>2, <2>3, <2>4, <2>5
<1>4. UnCamino(t)
  BY <1>3 DEF UnCamino
<1>5. Pend(t) \subseteq Pend(s)
  <2> SUFFICES ASSUME NEW q \in Pend(t) PROVE q \in Pend(s)
    OBVIOUS
  <2>1. PICK j \in 8..Len(t) : t[j] = TEXTO /\ t[j - 4] = q
    BY DEF Pend
  <2>2. j \in 1..Len(t)
    BY <1>2
  <2>3. s[j + k] = TEXTO /\ s[j + k - 4] = q /\ j + k \in 1..Len(s)
    BY <1>3, <2>1, <2>2
  <2>4. PICK m \in 8..Len(s) : m = j + k
    BY <2>3, <1>2
  <2>5. s[m] = TEXTO /\ s[m - 4] = q
    BY <2>3, <2>4
  <2>6. q \in Queries
    BY DEF Pend
  <2> QED BY <2>5, <2>6 DEF Pend
<1> QED BY <1>1, <1>4, <1>5

\* Once it is read there is no other.
LEMMA PendLeido ==
  ASSUME NEW s \in Seq(Nat), Len(s) > 7, UnCamino(s), s[8] = TEXTO, s[4] \in Queries
  PROVE  s[4] \in Pend(s) /\ UnCamino(Queda(s, 8)) /\ Pend(Queda(s, 8)) = {}
<1>1. PICK t \in Seq(Nat) : /\ t = Queda(s, 8) /\ Len(t) = Len(s) - 8
                            /\ \A i \in 1..(Len(s) - 8) : t[i] = s[i + 8]
  <2>1. 8 \in Nat /\ 8 =< Len(s)
    OBVIOUS
  <2> QED BY <2>1, QuedaEs
<1>2. s[4] \in Pend(s)
  <2>1. 8 \in 8..Len(s) /\ 8 - 4 = 4
    OBVIOUS
  <2> QED BY <2>1 DEF Pend
<1>3. ASSUME NEW j \in 1..Len(t), t[j] = TEXTO PROVE FALSE
  <2>1. j + 8 \in 1..Len(s) /\ s[j + 8] = TEXTO /\ 8 \in 1..Len(s)
    <3>0. Len(t) = Len(s) - 8
      BY <1>1
    <3>1. j \in 1..(Len(s) - 8) /\ j + 8 \in 1..Len(s) /\ 8 \in 1..Len(s)
      BY <3>0
    <3>2. t[j] = s[j + 8]
      BY <1>1, <3>1
    <3> QED BY <1>3, <3>1, <3>2
  <2>2. j + 8 = 8
    BY <2>1 DEF UnCamino
  <2> QED BY <2>2
<1>4. UnCamino(t)
  BY <1>3 DEF UnCamino
<1>5. Pend(t) = {}
  <2> SUFFICES ASSUME NEW q \in Pend(t) PROVE FALSE
    OBVIOUS
  <2>1. PICK j \in 8..Len(t) : t[j] = TEXTO
    BY DEF Pend
  <2>2. j \in 1..Len(t)
    BY <2>1
  <2> QED BY <1>3, <2>1, <2>2
<1> QED BY <1>1, <1>2, <1>4, <1>5

\* The words of s \o p.
LEMMA Pegadas ==
  ASSUME NEW s \in Seq(Nat), NEW p \in Seq(Nat)
  PROVE  /\ s \o p \in Seq(Nat) /\ Len(s \o p) = Len(s) + Len(p)
         /\ Len(s) \in Nat /\ Len(p) \in Nat
         /\ \A i \in 1..Len(s) : (s \o p)[i] = s[i]
         /\ \A i \in 1..Len(p) : (s \o p)[Len(s) + i] = p[i]
         /\ \A i \in 1..Len(s \o p) :
              i \in 1..Len(s) \/ \E j \in 1..Len(p) : i = Len(s) + j
<1>1. /\ s \o p \in Seq(Nat) /\ Len(s \o p) = Len(s) + Len(p)
      /\ Len(s) \in Nat /\ Len(p) \in Nat
      /\ \A i \in 1..Len(s) : (s \o p)[i] = s[i]
  OBVIOUS
<1>2. \A i \in 1..Len(p) : (s \o p)[Len(s) + i] = p[i]
  OBVIOUS
<1>3. ASSUME NEW i \in 1..Len(s \o p), i \notin 1..Len(s)
      PROVE  \E j \in 1..Len(p) : i = Len(s) + j
  <2>1. i - Len(s) \in 1..Len(p) /\ i = Len(s) + (i - Len(s))
    BY <1>1, <1>3
  <2> QED BY <2>1
<1> QED BY <1>1, <1>2, <1>3

\* An order behind it changes nothing.
LEMMA PendMas ==
  ASSUME NEW s \in Seq(Nat), UnCamino(s), NEW p \in Seq(Nat),
         \A j \in 1..Len(p) : p[j] # TEXTO
  PROVE  UnCamino(s \o p) /\ Pend(s \o p) \subseteq Pend(s)
<1>1. PICK t \in Seq(Nat) :
         /\ t = s \o p /\ Len(t) = Len(s) + Len(p) /\ Len(s) \in Nat /\ Len(p) \in Nat
         /\ \A i \in 1..Len(s) : t[i] = s[i]
         /\ \A i \in 1..Len(p) : t[Len(s) + i] = p[i]
         /\ \A i \in 1..Len(t) : i \in 1..Len(s) \/ \E j \in 1..Len(p) : i = Len(s) + j
  BY Pegadas
<1>2. ASSUME NEW j \in 1..Len(t), t[j] = TEXTO PROVE j \in 1..Len(s) /\ s[j] = TEXTO
  BY <1>1, <1>2
<1>3. ASSUME NEW j \in 1..Len(t), t[j] = TEXTO
      PROVE  /\ j >= 8 /\ t[j - 7] = OP_ENVIAR_PATH /\ t[j - 4] = s[j - 4]
             /\ s[j - 4] \in Queries
             /\ \A i \in 1..Len(t) : t[i] = TEXTO => i = j
  <2>1. /\ j >= 8 /\ s[j - 7] = OP_ENVIAR_PATH /\ s[j - 4] \in Queries
        /\ \A i \in 1..Len(s) : s[i] = TEXTO => i = j
    BY <1>2, <1>3 DEF UnCamino
  <2>2. j - 7 \in 1..Len(s) /\ j - 4 \in 1..Len(s)
    BY <2>1, <1>2, <1>3, <1>1
  <2>3. t[j - 7] = s[j - 7] /\ t[j - 4] = s[j - 4]
    BY <1>1, <2>2
  <2> QED BY <1>2, <2>1, <2>3
<1>4. UnCamino(t)
  BY <1>3 DEF UnCamino
<1>5. Pend(t) \subseteq Pend(s)
  <2> SUFFICES ASSUME NEW q \in Pend(t) PROVE q \in Pend(s)
    OBVIOUS
  <2>1. PICK j \in 8..Len(t) : t[j] = TEXTO /\ t[j - 4] = q
    BY DEF Pend
  <2>2. j \in 1..Len(t)
    BY <1>1
  <2>3. j \in 1..Len(s) /\ s[j] = TEXTO /\ s[j - 4] = q
    BY <1>2, <1>3, <2>1, <2>2
  <2>4. j \in 8..Len(s)
    BY <2>1, <2>3
  <2> QED BY <2>3, <2>4 DEF Pend
<1> QED BY <1>1, <1>4, <1>5

\* A path is sent where there is none.
LEMMA PendCamino ==
  ASSUME NEW s \in Seq(Nat), UnCamino(s), Pend(s) = {}, NEW q \in Queries, q < TEXTO
  PROVE  UnCamino(s \o Camino(q)) /\ Pend(s \o Camino(q)) \subseteq {q}
<1>1. PICK p \in Seq(Nat) :
        /\ p = Camino(q) /\ Len(p) = 8 /\ p[1] = 1 /\ p[4] = q /\ p[8] = TEXTO
        /\ \A i \in 1..8 : p[i] = TEXTO => i = 8
  <2>1. PICK d \in Nat : d = TEXTO /\ d > 24 /\ q # d
    BY QueriesNat DEF TEXTO
  <2>2. PICK p : p = <<1, 24, 4, q, 4, 0, 4, d>>
    OBVIOUS
  <2>3. Len(p) = 8 /\ p[1] = 1 /\ p[4] = q /\ p[8] = d
    BY <2>2
  <2>4. ASSUME NEW i \in 1..8, p[i] = d PROVE i = 8
    <3>1. p[1] # d /\ p[2] # d /\ p[3] # d /\ p[4] # d /\ p[5] # d /\ p[6] # d /\ p[7] # d
      BY <2>1, <2>2
    <3> QED BY <2>4, <3>1
  <2>5. p = Camino(q)
    BY <2>1, <2>2, Palabras
  <2>6. Camino(q) \in Seq(Nat)
    BY SonSecuencias DEF DelMaster
  <2> QED BY <2>1, <2>3, <2>4, <2>5, <2>6
<1>2. PICK t \in Seq(Nat) :
         /\ t = s \o p /\ Len(t) = Len(s) + 8 /\ Len(s) \in Nat
         /\ \A i \in 1..Len(s) : t[i] = s[i]
         /\ \A i \in 1..8 : t[Len(s) + i] = p[i]
         /\ \A i \in 1..Len(t) : i \in 1..Len(s) \/ \E j \in 1..8 : i = Len(s) + j
  <2>1. Len(p) = 8
    BY <1>1
  <2>2. /\ s \o p \in Seq(Nat) /\ Len(s \o p) = Len(s) + Len(p) /\ Len(s) \in Nat
        /\ \A i \in 1..Len(s) : (s \o p)[i] = s[i]
        /\ \A i \in 1..Len(p) : (s \o p)[Len(s) + i] = p[i]
        /\ \A i \in 1..Len(s \o p) :
             i \in 1..Len(s) \/ \E j \in 1..Len(p) : i = Len(s) + j
    BY Pegadas
  <2>3. PICK u : u = s \o p
    OBVIOUS
  <2>4. /\ u \in Seq(Nat) /\ Len(u) = Len(s) + 8 /\ Len(s) \in Nat
        /\ \A i \in 1..Len(s) : u[i] = s[i]
        /\ \A i \in 1..8 : u[Len(s) + i] = p[i]
    BY <2>1, <2>2, <2>3
  <2>5. \A i \in 1..Len(u) : i \in 1..Len(s) \/ \E j \in 1..8 : i = Len(s) + j
    BY <2>1, <2>2, <2>3
  <2> QED BY <2>3, <2>4, <2>5
<1>3. ASSUME NEW j \in 1..Len(s) PROVE s[j] # TEXTO
  <2> SUFFICES ASSUME s[j] = TEXTO PROVE FALSE
    OBVIOUS
  <2>1. j >= 8 /\ s[j - 4] \in Queries
    BY DEF UnCamino
  <2>2. j \in 8..Len(s)
    BY <2>1
  <2> QED BY <2>1, <2>2 DEF Pend
<1>4. ASSUME NEW j \in 1..Len(t), t[j] = TEXTO PROVE j = Len(s) + 8
  <2>1. j \notin 1..Len(s)
    BY <1>2, <1>3, <1>4
  <2>2. PICK i \in 1..8 : j = Len(s) + i
    BY <1>2, <2>1
  <2> QED BY <1>1, <1>2, <1>4, <2>2
<1>5. t[Len(s) + 1] = 1 /\ t[Len(s) + 4] = q
  <2>1. 1 \in 1..8 /\ 4 \in 1..8
    OBVIOUS
  <2> QED BY <1>1, <1>2, <2>1
<1>6. ASSUME NEW j \in 1..Len(t), t[j] = TEXTO
      PROVE  /\ j >= 8 /\ t[j - 7] = OP_ENVIAR_PATH /\ t[j - 4] = q
             /\ \A i \in 1..Len(t) : t[i] = TEXTO => i = j
  <2>1. j = Len(s) + 8
    BY <1>4, <1>6
  <2>2. j >= 8 /\ j - 7 = Len(s) + 1 /\ j - 4 = Len(s) + 4
    BY <2>1, <1>2
  <2> QED BY <1>4, <1>5, <2>1, <2>2 DEF OP_ENVIAR_PATH
<1>7. UnCamino(t)
  BY <1>6 DEF UnCamino
<1>8. Pend(t) \subseteq {q}
  <2> SUFFICES ASSUME NEW r \in Pend(t) PROVE r = q
    OBVIOUS
  <2>1. PICK j \in 8..Len(t) : t[j] = TEXTO /\ t[j - 4] = r
    BY DEF Pend
  <2>2. j \in 1..Len(t)
    BY <1>2
  <2> QED BY <1>6, <2>1, <2>2
<1> QED BY <1>1, <1>2, <1>7, <1>8

\* The same for the ends that are on their way to the Master.
LEMMA FinesQueda ==
  ASSUME NEW s \in Seq(Nat), UnFin(s), NEW k \in Nat, k =< Len(s)
  PROVE  UnFin(Queda(s, k)) /\ Fines(Queda(s, k)) \subseteq Fines(s)
<1>1. PICK t \in Seq(Nat) : /\ t = Queda(s, k) /\ Len(t) = Len(s) - k
                            /\ \A i \in 1..(Len(s) - k) : t[i] = s[i + k]
  BY QuedaEs
<1>2. Len(s) \in Nat /\ Len(t) \in Nat
  OBVIOUS
<1>3. ASSUME NEW j \in 1..Len(t), t[j] = OP_FIN_QUERY
      PROVE  /\ j + 3 =< Len(t) /\ t[j + 3] = s[j + k + 3] /\ s[j + k + 3] \in Queries
             /\ s[j + k] = OP_FIN_QUERY /\ j + k \in 1..Len(s)
             /\ \A i \in 1..Len(t) : t[i] = OP_FIN_QUERY => i = j
  <2>1. j + k \in 1..Len(s) /\ s[j + k] = OP_FIN_QUERY
    <3>1. j \in 1..(Len(s) - k) /\ j + k \in 1..Len(s)
      BY <1>1, <1>2
    <3>2. t[j] = s[j + k]
      BY <1>1, <3>1
    <3> QED BY <1>3, <3>1, <3>2
  <2>2. /\ j + k + 3 =< Len(s) /\ s[j + k + 3] \in Queries
        /\ \A i \in 1..Len(s) : s[i] = OP_FIN_QUERY => i = j + k
    BY <2>1 DEF UnFin
  <2>3. j + 3 =< Len(t)
    BY <2>2, <1>1, <1>2
  <2>4. t[j + 3] = s[j + k + 3]
    <3>1. j + 3 \in 1..(Len(s) - k)
      BY <2>3, <1>1, <1>2
    <3>2. t[j + 3] = s[j + 3 + k]
      BY <1>1, <3>1
    <3>3. j + 3 + k = j + k + 3
      OBVIOUS
    <3> QED BY <3>2, <3>3
  <2>5. ASSUME NEW i \in 1..Len(t), t[i] = OP_FIN_QUERY PROVE i = j
    <3>1. i \in 1..(Len(s) - k) /\ i + k \in 1..Len(s)
      BY <1>1, <1>2
    <3>2. s[i + k] = OP_FIN_QUERY
      BY <1>1, <2>5, <3>1
    <3>3. i + k = j + k
      BY <2>2, <3>1, <3>2
    <3> QED BY <3>3
  <2> QED BY <2>1, <2>2, <2>3, <2>4, <2>5
<1>4. UnFin(t)
  BY <1>3 DEF UnFin
<1>5. Fines(t) \subseteq Fines(s)
  <2> SUFFICES ASSUME NEW q \in Fines(t) PROVE q \in Fines(s)
    OBVIOUS
  <2>1. PICK j \in 1..Len(t) : t[j] = OP_FIN_QUERY /\ t[j + 3] = q
    BY DEF Fines
  <2>2. PICK m \in 1..Len(s) : m = j + k
    BY <1>3, <2>1
  <2>3. s[m] = OP_FIN_QUERY /\ s[m + 3] = q
    BY <1>3, <2>1, <2>2
  <2>4. q \in Queries
    BY DEF Fines
  <2> QED BY <2>3, <2>4 DEF Fines
<1> QED BY <1>1, <1>4, <1>5

\* An OP_FIN_QUERY that was taken is the only one there was.
LEMMA FinesLeido ==
  ASSUME NEW s \in Seq(Nat), Len(s) > 3, UnFin(s), s[1] = OP_FIN_QUERY, s[4] \in Queries
  PROVE  s[4] \in Fines(s) /\ UnFin(Queda(s, 4)) /\ Fines(Queda(s, 4)) = {}
<1>1. PICK t \in Seq(Nat) : /\ t = Queda(s, 4) /\ Len(t) = Len(s) - 4
                            /\ \A i \in 1..(Len(s) - 4) : t[i] = s[i + 4]
  <2>1. 4 \in Nat /\ 4 =< Len(s)
    OBVIOUS
  <2> QED BY <2>1, QuedaEs
<1>2. s[4] \in Fines(s)
  <2>1. 1 \in 1..Len(s) /\ 1 + 3 = 4
    OBVIOUS
  <2> QED BY <2>1 DEF Fines
<1>3. ASSUME NEW j \in 1..Len(t), t[j] = OP_FIN_QUERY PROVE FALSE
  <2>1. j + 4 \in 1..Len(s) /\ s[j + 4] = OP_FIN_QUERY /\ 1 \in 1..Len(s)
    <3>0. Len(t) = Len(s) - 4
      BY <1>1
    <3>1. j \in 1..(Len(s) - 4) /\ j + 4 \in 1..Len(s) /\ 1 \in 1..Len(s)
      BY <3>0
    <3>2. t[j] = s[j + 4]
      BY <1>1, <3>1
    <3> QED BY <1>3, <3>1, <3>2
  <2>2. j + 4 = 1
    BY <2>1 DEF UnFin
  <2> QED BY <2>2
<1> QED BY <1>1, <1>2, <1>3 DEF UnFin, Fines

\* A result of a READ, or its failure, behind it.
LEMMA FinesMas ==
  ASSUME NEW s \in Seq(Nat), UnFin(s), NEW p \in Seq(Nat),
         \A j \in 1..Len(p) : p[j] # OP_FIN_QUERY
  PROVE  UnFin(s \o p) /\ Fines(s \o p) \subseteq Fines(s)
<1>1. PICK t \in Seq(Nat) :
         /\ t = s \o p /\ Len(t) = Len(s) + Len(p) /\ Len(s) \in Nat /\ Len(p) \in Nat
         /\ \A i \in 1..Len(s) : t[i] = s[i]
         /\ \A i \in 1..Len(p) : t[Len(s) + i] = p[i]
         /\ \A i \in 1..Len(t) : i \in 1..Len(s) \/ \E j \in 1..Len(p) : i = Len(s) + j
  BY Pegadas
<1>2. ASSUME NEW j \in 1..Len(t), t[j] = OP_FIN_QUERY
      PROVE  j \in 1..Len(s) /\ s[j] = OP_FIN_QUERY
  BY <1>1, <1>2
<1>3. ASSUME NEW j \in 1..Len(t), t[j] = OP_FIN_QUERY
      PROVE  /\ j + 3 =< Len(t) /\ t[j + 3] = s[j + 3] /\ s[j + 3] \in Queries
             /\ \A i \in 1..Len(t) : t[i] = OP_FIN_QUERY => i = j
  <2>1. /\ j + 3 =< Len(s) /\ s[j + 3] \in Queries
        /\ \A i \in 1..Len(s) : s[i] = OP_FIN_QUERY => i = j
    BY <1>2, <1>3 DEF UnFin
  <2>2. j + 3 \in 1..Len(s)
    BY <2>1, <1>2, <1>3, <1>1
  <2>3. t[j + 3] = s[j + 3]
    BY <1>1, <2>2
  <2>4. j + 3 =< Len(t)
    BY <1>1, <2>2
  <2> QED BY <1>2, <2>1, <2>3, <2>4
<1>4. UnFin(t)
  BY <1>3 DEF UnFin
<1>5. Fines(t) \subseteq Fines(s)
  BY <1>2, <1>3 DEF Fines
<1> QED BY <1>1, <1>4, <1>5

\* The end of a query behind no other.
LEMMA FinesFin ==
  ASSUME NEW s \in Seq(Nat), UnFin(s), Fines(s) = {}, NEW q \in Queries, q < OP_FIN_QUERY
  PROVE  UnFin(s \o FinDe(q)) /\ Fines(s \o FinDe(q)) \subseteq {q}
<1>1. PICK p \in Seq(Nat) :
        /\ p = FinDe(q) /\ Len(p) = 4 /\ p[4] = q
        /\ \A i \in 1..4 : p[i] = OP_FIN_QUERY => i = 1
  <2>1. q \in Nat /\ q # 500
    BY QueriesNat DEF OP_FIN_QUERY
  <2>2. PICK p : p = <<500, 8, 4, q>>
    OBVIOUS
  <2>3. Len(p) = 4 /\ p[4] = q
    BY <2>2
  <2>4. ASSUME NEW i \in 1..4, p[i] = OP_FIN_QUERY PROVE i = 1
    <3>1. p[2] # 500 /\ p[3] # 500 /\ p[4] # 500
      BY <2>1, <2>2
    <3> QED BY <2>4, <3>1 DEF OP_FIN_QUERY
  <2>5. p = FinDe(q)
    BY <2>2, Palabras
  <2>6. p \in Seq(Nat)
    BY <2>5, SonSecuencias DEF DelWorker
  <2> QED BY <2>3, <2>4, <2>5, <2>6
<1>2. PICK t \in Seq(Nat) :
         /\ t = s \o p /\ Len(t) = Len(s) + 4 /\ Len(s) \in Nat
         /\ \A i \in 1..Len(s) : t[i] = s[i]
         /\ \A i \in 1..4 : t[Len(s) + i] = p[i]
         /\ \A i \in 1..Len(t) : i \in 1..Len(s) \/ \E j \in 1..4 : i = Len(s) + j
  <2>1. Len(p) = 4
    BY <1>1
  <2>2. /\ s \o p \in Seq(Nat) /\ Len(s \o p) = Len(s) + Len(p) /\ Len(s) \in Nat
        /\ \A i \in 1..Len(s) : (s \o p)[i] = s[i]
        /\ \A i \in 1..Len(p) : (s \o p)[Len(s) + i] = p[i]
        /\ \A i \in 1..Len(s \o p) :
             i \in 1..Len(s) \/ \E j \in 1..Len(p) : i = Len(s) + j
    BY Pegadas
  <2>3. PICK u : u = s \o p
    OBVIOUS
  <2>4. /\ u \in Seq(Nat) /\ Len(u) = Len(s) + 4 /\ Len(s) \in Nat
        /\ \A i \in 1..Len(s) : u[i] = s[i]
        /\ \A i \in 1..4 : u[Len(s) + i] = p[i]
    BY <2>1, <2>2, <2>3
  <2>5. \A i \in 1..Len(u) : i \in 1..Len(s) \/ \E j \in 1..4 : i = Len(s) + j
    BY <2>1, <2>2, <2>3
  <2> QED BY <2>3, <2>4, <2>5
<1>3. ASSUME NEW j \in 1..Len(s) PROVE s[j] # OP_FIN_QUERY
  BY DEF UnFin, Fines
<1>4. ASSUME NEW j \in 1..Len(t), t[j] = OP_FIN_QUERY PROVE j = Len(s) + 1
  <2>1. j \notin 1..Len(s)
    BY <1>2, <1>3, <1>4
  <2>2. PICK i \in 1..4 : j = Len(s) + i
    BY <1>2, <2>1
  <2>3. p[i] = OP_FIN_QUERY
    BY <1>2, <1>4, <2>2
  <2>4. i = 1
    BY <1>1, <2>3
  <2> QED BY <2>2, <2>4
<1>5. t[Len(s) + 4] = q
  <2>1. 4 \in 1..4
    OBVIOUS
  <2> QED BY <1>1, <1>2, <2>1
<1>6. ASSUME NEW j \in 1..Len(t), t[j] = OP_FIN_QUERY
      PROVE  /\ j + 3 =< Len(t) /\ t[j + 3] = q
             /\ \A i \in 1..Len(t) : t[i] = OP_FIN_QUERY => i = j
  <2>1. j = Len(s) + 1
    BY <1>4, <1>6
  <2>2. j + 3 = Len(s) + 4 /\ j + 3 =< Len(t)
    BY <2>1, <1>2
  <2> QED BY <1>4, <1>5, <2>1, <2>2
<1>7. UnFin(t)
  BY <1>6 DEF UnFin
<1>8. Fines(t) \subseteq {q}
  BY <1>6 DEF Fines
<1> QED BY <1>1, <1>2, <1>7, <1>8

\* The packages that are not a path, and those that are not an end.
LEMMA OrdenSinTexto ==
  ASSUME NEW q \in Queries, q < TEXTO
  PROVE  Orden(q) \in Seq(Nat) /\ \A j \in 1..Len(Orden(q)) : Orden(q)[j] # TEXTO
<1>1. PICK d \in Nat : d = TEXTO /\ d > 301 /\ q # d
  BY QueriesNat DEF TEXTO
<1>2. PICK p : p = <<301, 8, 4, q>>
  OBVIOUS
<1>3. Len(p) = 4 /\ p[1] # d /\ p[2] # d /\ p[3] # d /\ p[4] # d
  BY <1>1, <1>2
<1>4. \A j \in 1..Len(p) : p[j] # d
  BY <1>3
<1>5. p = Orden(q)
  BY <1>2, Palabras
<1>6. Orden(q) \in Seq(Nat)
  BY SonSecuencias DEF DelMaster
<1> QED BY <1>1, <1>4, <1>5, <1>6

\* A package that is not OP_FIN_QUERY ends no query.
LEMMA SinFin ==
  ASSUME NEW p \in DelWorker, \A q \in Queries : p # FinDe(q)
  PROVE  p \in Seq(Nat) /\ \A j \in 1..Len(p) : p[j] # OP_FIN_QUERY
<1>1. p \in Seq(Nat)
  BY SonSecuencias
<1>2. CASE p = Paquete(OP_RESP_READ_ERR, <<>>)
  <2>1. p = <<1021, 0>>
    BY <1>2, PalabrasError
  <2>2. Len(p) = 2 /\ p[1] # 500 /\ p[2] # 500
    BY <2>1
  <2>3. \A j \in 1..Len(p) : p[j] # 500
    BY <2>2
  <2> QED BY <1>1, <2>3 DEF OP_FIN_QUERY
<1>3. CASE \E q \in Queries, n \in Nat : p = ResultadoDe(q, n)
  <2>1. PICK q \in Queries, n \in Nat : p = ResultadoDe(q, n)
    BY <1>3
  <2>2. PICK d \in Nat, t \in Nat : d = Dato(q, n) /\ t = TEXTO /\ d > 500 /\ t > 500
    BY DatoNat DEF TEXTO
  <2>3. p = <<1020, 24, 4, t, 4, 4, 4, d>>
    BY <2>1, <2>2, Palabras
  <2>4. /\ Len(p) = 8 /\ p[1] # 500 /\ p[2] # 500 /\ p[3] # 500 /\ p[4] # 500
        /\ p[5] # 500 /\ p[6] # 500 /\ p[7] # 500 /\ p[8] # 500
    BY <2>2, <2>3
  <2>5. \A j \in 1..Len(p) : p[j] # 500
    BY <2>4
  <2> QED BY <1>1, <2>5 DEF OP_FIN_QUERY
<1> QED BY <1>2, <1>3 DEF DelWorker

-----------------------------------------------------------------------------
(***************************************************************************)
(* The Master and its Workers agree on the query that runs.                *)
(***************************************************************************)
\* No script has a second END, which would end a query that has ended.
UnSoloEnd ==
  \A g \in Guiones, q \in Queries : \A i, j \in 1..Len(g[q]) :
    g[q][i] = "END" /\ g[q][j] = "END" => i = j

QuedaEnd(w) ==
  \E n \in linea[w]..Len(guion[qActual[w]]) : guion[qActual[w]][n] = "END"

\* w runs q or will read its path; q waits in READY.
Tiene(w, q) == qActual[w] = q \/ q \in Pend(aWorker[w])
EnCola(q)   == \E i \in 1..Len(cola) : cola[i] = q

Corriente(w) == UnCamino(aWorker[w]) /\ UnFin(aMaster[w])

\* The query the Master gives to w, while its path, its script or its end is
\* on the way.
Conocida(w) ==
  /\ \A q \in Pend(aWorker[w]) : ejecutando[w] = q /\ Fines(aMaster[w]) = {}
  /\ \A q \in Fines(aMaster[w]) :
       ejecutando[w] = q /\ (fase[w] = "ejecuta" => ~QuedaEnd(w))
  /\ fase[w] = "ejecuta" /\ QuedaEnd(w) => ejecutando[w] = qActual[w]

\* Before it is listed nothing is on the way; what it writes after it was cut
\* is lost.
Arranque(w) ==
  /\ fase[w] = "arranque" => /\ w \notin conectados
                             /\ Pend(aWorker[w]) = {} /\ Fines(aMaster[w]) = {}
  /\ fase[w] \in {"escucha", "ejecuta"} => w \in conectados \/ w \in cortado

UnSolo ==
  \A q \in Queries, w \in Workers :
    /\ ~(qActual[w] = q /\ q \in Pend(aWorker[w]))
    /\ \A v \in Workers : Tiene(w, q) /\ Tiene(v, q) => w = v
Espera ==
  /\ \A i, j \in 1..Len(cola) : cola[i] = cola[j] => i = j
  /\ \A q \in Queries : qc[q] = "fuera" \/ EnCola(q) => \A w \in Workers : ~Tiene(w, q)
  /\ \A q \in Queries : EnCola(q) => qc[q] # "fuera"
  /\ \A q \in Queries : q = qPlan =>
       /\ qc[q] # "fuera" /\ ~EnCola(q) /\ \A w \in Workers : ~Tiene(w, q)

\* The Worker the planner holds was listed, and while it is nothing but the
\* path that is about to be sent can start a query on it.
Apartado(w) ==
  /\ fase[w] # "arranque" /\ (w \in conectados \/ w \in cortado)
  /\ w \in conectados => /\ ejecutando[w] = qPlan
                         /\ Pend(aWorker[w]) = {} /\ Fines(aMaster[w]) = {}
                         /\ ~(fase[w] = "ejecuta" /\ QuedaEnd(w))

InvMisma ==
  /\ \A w \in Workers : Corriente(w) /\ Arranque(w)
  /\ \A w \in conectados : Conocida(w)
  /\ UnSolo /\ Espera
  /\ \A w \in Workers : w = wPlan => Apartado(w)

\* Nothing runs when the Workers start.
LEMMA MismaInit == Init => InvMisma
<1> SUFFICES ASSUME Init PROVE InvMisma
  OBVIOUS
<1>1. ASSUME NEW w \in Workers
      PROVE  /\ aWorker[w] = <<>> /\ aMaster[w] = <<>> /\ qActual[w] = Nadie
  BY DEF Init
<1>7. \A w \in Workers : fase[w] = "arranque"
  BY DEF Init
<1>2. conectados = {} /\ cola = <<>>
  BY DEF Init
<1>3. \A w \in Workers : Corriente(w) /\ Arranque(w)
  BY <1>1, <1>2, <1>7, Vacias DEF Corriente, Arranque
<1>4. \A q \in Queries, w \in Workers : ~Tiene(w, q)
  BY <1>1, Vacias, QueriesNat DEF Tiene
<1>5. UnSolo
  BY <1>4 DEF UnSolo, Tiene
<1>8. qPlan = Nadie /\ wPlan = Nadie
  BY DEF Init
<1>6. Espera
  BY <1>2, <1>4, <1>8, QueriesNat DEF Espera, EnCola
<1> QED BY <1>2, <1>3, <1>5, <1>6, <1>8, QueriesNat DEF InvMisma

\* What a step leaves on the way, when nothing is added to it.
Menos(w) ==
  /\ UnCamino(aWorker[w])' /\ Pend(aWorker[w])' \subseteq Pend(aWorker[w])
  /\ UnFin(aMaster[w])' /\ Fines(aMaster[w])' \subseteq Fines(aMaster[w])

\* A Worker whose streams did not change.
LEMMA MenosIgual ==
  ASSUME InvMisma, NEW w \in Workers, UNCHANGED <<aWorker[w], aMaster[w]>>
  PROVE  Menos(w)
  BY DEF InvMisma, Corriente, Menos

\* The steps that give no query to a Worker and take none from it.
LEMMA MismaIgual ==
  ASSUME InvTipos, InvMisma, UNCHANGED <<guion, varsMaster, fase, qActual, linea, cortado>>,
         \A q \in Queries : qc'[q] = "fuera" => qc[q] = "fuera",
         \A w \in Workers : Menos(w)
  PROVE  InvMisma'
<1>1. UNCHANGED <<conectados, cola, ejecutando, qPlan, wPlan>>
  BY DEF varsMaster, varsPlan
<1>2. ASSUME NEW w \in Workers PROVE Corriente(w)' /\ Arranque(w)'
  BY <1>1, <1>2 DEF InvMisma, Corriente, Arranque, Menos
<1>3. ASSUME NEW w \in conectados, w \in Workers PROVE Conocida(w)'
  <2>1. Conocida(w) /\ Menos(w)
    BY <1>3 DEF InvMisma
  <2>2. QuedaEnd(w)' <=> QuedaEnd(w)
    BY DEF QuedaEnd
  <2> QED BY <2>1, <2>2, <1>1 DEF Conocida, Menos
<1>4. ASSUME NEW w \in Workers, NEW q PROVE Tiene(w, q)' => Tiene(w, q)
  BY DEF Tiene, Menos
<1>5. UnSolo'
  BY <1>4 DEF InvMisma, UnSolo, Menos
<1>6. \A q : EnCola(q)' <=> EnCola(q)
  BY <1>1 DEF EnCola
<1>7. Espera'
  BY <1>1, <1>4, <1>6 DEF InvMisma, Espera
<1>8. conectados \subseteq Workers
  BY DEF InvTipos, TiposMaster
<1>9. ASSUME NEW w \in Workers, w = wPlan PROVE Apartado(w)'
  <2>1. Apartado(w) /\ Menos(w)
    BY <1>9 DEF InvMisma
  <2>2. QuedaEnd(w)' <=> QuedaEnd(w)
    BY DEF QuedaEnd
  <2> QED BY <2>1, <2>2, <1>1 DEF Apartado, Menos
<1> QED BY <1>1, <1>2, <1>3, <1>5, <1>7, <1>8, <1>9 DEF InvMisma

\* One stream changes: what was read of it, or what is added to it.
LEMMA MenosWorker ==
  ASSUME InvTipos, InvMisma, NEW w \in Workers, NEW s, UNCHANGED aMaster,
         aWorker' = [aWorker EXCEPT ![w] = s],
         UnCamino(s), Pend(s) \subseteq Pend(aWorker[w])
  PROVE  \A v \in Workers : Menos(v)
<1>1. aWorker \in [Workers -> Seq(Nat)]
  BY DEF InvTipos, TiposCorrientes
<1>2. ASSUME NEW v \in Workers, v # w PROVE Menos(v)
  BY <1>1, <1>2, MenosIgual
<1>3. Menos(w)
  BY <1>1 DEF Menos, InvMisma, Corriente
<1> QED BY <1>2, <1>3

\* A stream to the Master that ends no query it did not end before.
LEMMA MenosMaster ==
  ASSUME InvTipos, InvMisma, NEW w \in Workers, NEW s, UNCHANGED aWorker,
         aMaster' = [aMaster EXCEPT ![w] = s],
         UnFin(s), Fines(s) \subseteq Fines(aMaster[w])
  PROVE  \A v \in Workers : Menos(v)
<1>1. aMaster \in [Workers -> Seq(Nat)]
  BY DEF InvTipos, TiposCorrientes
<1>2. ASSUME NEW v \in Workers, v # w PROVE Menos(v)
  BY <1>1, <1>2, MenosIgual
<1>3. Menos(w)
  BY <1>1 DEF Menos, InvMisma, Corriente
<1> QED BY <1>2, <1>3

\* The steps that touch none of it.
LEMMA MismaQuieto ==
  ASSUME InvTipos, InvMisma, UNCHANGED <<guion, varsMaster, fase, qActual, linea,
                                         aWorker, aMaster, cortado>>,
         \A q \in Queries : qc'[q] = "fuera" => qc[q] = "fuera"
  PROVE  InvMisma'
<1>1. \A w \in Workers : Menos(w)
  BY MenosIgual
<1> QED BY <1>1, MismaIgual

\* The steps of StorageConexiones.
LEMMA MismaStorage ==
  ASSUME InvTipos, InvMisma, NEW w \in Workers, ArrancarWorker(w) \/ PasoStorage(w)
  PROVE  InvMisma'
  BY MismaQuieto DEF ArrancarWorker, PasoStorage, varsResto, varsWorker, varsCliente

\* LeerQC.
LEMMA MismaLeerQC ==
  ASSUME InvTipos, InvMisma, NEW q \in Queries, LeerQC(q)
  PROVE  InvMisma'
<1>1. PICK p \in PasosQC : qc' = [qc EXCEPT ![q] = p] /\ p # "fuera"
  BY DEF LeerQC, PasosQC
<1>2. \A r \in Queries : qc'[r] = "fuera" => qc[r] = "fuera"
  BY <1>1 DEF InvTipos, TiposDesalojo
<1> QED BY <1>2, MismaQuieto DEF LeerQC, varsWorker

\* PedirDesalojo sends an order: no query is given to anyone by it.
LEMMA MenosPedir ==
  ASSUME InvTipos, QidsBajos, InvMisma, NEW q \in Queries, PedirDesalojo(q)
  PROVE  \A w \in Workers : Menos(w)
<1>1. PICK w \in Workers, p \in Queries : w = workerPeor[q] /\ p = peor[q]
  BY DEF InvTipos, TiposDesalojo, PedirDesalojo
<1>2. CASE aWorker' = aWorker
  BY <1>2, MenosIgual DEF PedirDesalojo
<1>3. CASE aWorker' # aWorker
  <2>6. aMaster' = aMaster /\ AlWorker(w, Orden(p))
    BY <1>1, <1>3 DEF PedirDesalojo, Orden
  <2>7. CASE ~Alcanza(w)
    <3>1. aWorker' = [aWorker EXCEPT ![w] = aWorker[w]]
      BY <2>6, <2>7 DEF AlWorker
    <3>2. aWorker \in [Workers -> Seq(Nat)]
      BY DEF InvTipos, TiposCorrientes
    <3>3. aWorker' = aWorker
      BY <3>1, <3>2
    <3> QED BY <1>3, <3>3
  <2>2. p < TEXTO
    BY QueriesNat DEF QidsBajos, OP_DESALOJAR_QUERY, TEXTO
  <2>3. Orden(p) \in Seq(Nat) /\ \A j \in 1..Len(Orden(p)) : Orden(p)[j] # TEXTO
    BY <2>2, OrdenSinTexto
  <2>4. aWorker[w] \in Seq(Nat) /\ UnCamino(aWorker[w])
    BY DEF InvTipos, TiposCorrientes, InvMisma, Corriente
  <2>5. /\ UnCamino(aWorker[w] \o Orden(p))
        /\ Pend(aWorker[w] \o Orden(p)) \subseteq Pend(aWorker[w])
    BY <2>3, <2>4, PendMas
  <2>1. CASE Alcanza(w)
    <3>1. aWorker' = [aWorker EXCEPT ![w] = aWorker[w] \o Orden(p)]
      BY <2>1, <2>6 DEF AlWorker
    <3> QED BY <3>1, <2>5, <2>6, MenosWorker
  <2> QED BY <2>1, <2>7
<1> QED BY <1>2, <1>3

\* verificar_desalojo.
LEMMA MismaHiloQ ==
  ASSUME InvTipos, QidsBajos, InvMisma, NEW q \in Queries, PasoHiloQ(q)
  PROVE  InvMisma'
<1>1. CASE MirarMejor(q)
  BY <1>1, MismaQuieto DEF MirarMejor, varsWorker, varsCliente
<1>2. CASE buscar_peor_query_en_ejecucion(q)
  BY <1>2, MismaQuieto DEF buscar_peor_query_en_ejecucion, PeorDe, varsWorker, varsCliente
<1>3. CASE PedirDesalojo(q)
  <2>1. \A w \in Workers : Menos(w)
    BY <1>3, MenosPedir
  <2>2. UNCHANGED <<guion, varsMaster, fase, qActual, linea, qc, cortado>>
    BY <1>3 DEF PedirDesalojo, varsWorker, varsCliente
  <2> QED BY <2>1, <2>2, MismaIgual
<1> QED BY <1>1, <1>2, <1>3 DEF PasoHiloQ

\* What RecibirOrden takes behind the code is the size of the package.
LEMMA OrdenEntera ==
  ASSUME NEW s \in Seq(Nat), s # <<>>, ParaWorker(s), s[1] \in {301, 304}, QidsBajos
  PROVE  s[2] = 8
<1>1. PICK P : /\ Flujo(s, P, DelMaster)
               /\ 1 \in P \/ s[1] \in Queries \/ s[1] = 4
  BY DEF ParaWorker
<1>2. s[1] \notin Queries
  BY QueriesNat DEF QidsBajos, OP_DESALOJAR_QUERY
<1>3. 1 \in P
  BY <1>1, <1>2
<1> QED BY <1>1, <1>3, FrenteWorker

\* RecibirOrden and RecibirInesperado start nothing.
LEMMA MenosOrden ==
  ASSUME InvTipos, QidsBajos, InvMisma, NEW w \in Workers,
         RecibirOrden(w) \/ RecibirInesperado(w)
  PROVE  \A v \in Workers : Menos(v)
<1>1. PICK s \in Seq(Nat) : s = aWorker[w] /\ s # <<>> /\ ParaWorker(s) /\ UnCamino(s)
  BY DEF InvTipos, TiposCorrientes, InvMisma, Corriente, RecibirOrden, RecibirInesperado,
         Escucha
<1>2. PICK k \in {1, 2} :
        /\ k =< Len(s) /\ aWorker' = [aWorker EXCEPT ![w] = Queda(s, k)]
        /\ \A i \in 1..k : s[i] # OP_ENVIAR_PATH
  <2>1. CASE RecibirOrden(w)
    <3>1. Len(s) > 1 /\ Head(s) \in {301, 304}
      BY <1>1, <2>1 DEF RecibirOrden, Escucha, recibir_operacion, OP_DESALOJAR_QUERY,
                        OP_QUERY_DESCONECTADA
    <3>2. Len(s) > 1
      BY <3>1
    <3>3. Tail(Tail(s)) = Queda(s, 2)
      BY <3>2, TrasDos
    <3>4. Head(s) = s[1]
      BY <1>1, TrasUna
    <3>5. s[2] = 8
      BY <1>1, <3>2, <3>1, <3>4, OrdenEntera
    <3>6. s[1] # 1 /\ s[2] # 1
      BY <3>1, <3>4, <3>5
    <3>7. \A i \in 1..2 : s[i] # OP_ENVIAR_PATH
      BY <3>6 DEF OP_ENVIAR_PATH
    <3>8. aWorker' = [aWorker EXCEPT ![w] = Queda(s, 2)]
      BY <1>1, <2>1, <3>3 DEF RecibirOrden
    <3> QED BY <3>2, <3>7, <3>8
  <2>2. CASE RecibirInesperado(w)
    <3>1. Head(s) # 1
      BY <1>1, <2>2 DEF RecibirInesperado, OP_ENVIAR_PATH
    <3>2. Tail(s) = Queda(s, 1) /\ Head(s) = s[1]
      BY <1>1, TrasUna
    <3>3. \A i \in 1..1 : s[i] # OP_ENVIAR_PATH
      BY <3>1, <3>2 DEF OP_ENVIAR_PATH
    <3>4. aWorker' = [aWorker EXCEPT ![w] = Queda(s, 1)]
      BY <1>1, <2>2, <3>2 DEF RecibirInesperado
    <3>5. 1 =< Len(s)
      BY <1>1
    <3> QED BY <3>3, <3>4, <3>5
  <2> QED BY <2>1, <2>2
<1>3. UnCamino(Queda(s, k)) /\ Pend(Queda(s, k)) \subseteq Pend(aWorker[w])
  <2>1. k \in Nat
    OBVIOUS
  <2> QED BY <1>1, <1>2, <2>1, PendQueda
<1>4. aMaster' = aMaster
  BY DEF RecibirOrden, RecibirInesperado
<1> QED BY <1>2, <1>3, <1>4, MenosWorker

\* RecibirOrden and RecibirInesperado.
LEMMA MismaOrden ==
  ASSUME InvTipos, QidsBajos, InvMisma, NEW w \in Workers,
         RecibirOrden(w) \/ RecibirInesperado(w)
  PROVE  InvMisma'
<1>1. \A v \in Workers : Menos(v)
  BY MenosOrden
<1>2. UNCHANGED <<guion, varsMaster, fase, qActual, linea, qc, cortado>>
  BY DEF RecibirOrden, RecibirInesperado, varsWorker, varsCliente
<1> QED BY <1>1, <1>2, MismaIgual

\* RecibirLectura and RecibirDesconocida take no OP_FIN_QUERY.
LEMMA MismaLectura ==
  ASSUME InvTipos, InvMisma, NEW w \in Workers, RecibirLectura(w) \/ RecibirDesconocida(w)
  PROVE  InvMisma'
<1>1. PICK s \in Seq(Nat) : s = aMaster[w] /\ UnFin(s)
  BY DEF InvTipos, TiposCorrientes, InvMisma, Corriente
<1>2. PICK k \in {1, 8} :
        k =< Len(s) /\ aMaster' = [aMaster EXCEPT ![w] = Queda(s, k)]
  <2>1. CASE RecibirLectura(w)
    <3>1. s # <<>> /\ EsPaquete(Tail(s), 3)
      BY <1>1, <2>1 DEF RecibirLectura, recibir_operacion, OP_RESP_READ_OK
    <3>2. Len(s) > 7 /\ TrasPaquete(Tail(s), 3) = Queda(s, 8)
      BY <3>1, TrasTres
    <3>3. 8 =< Len(s)
      BY <3>2
    <3>4. aMaster' = [aMaster EXCEPT ![w] = Queda(s, 8)]
      BY <1>1, <2>1, <3>2 DEF RecibirLectura
    <3> QED BY <3>3, <3>4
  <2>2. CASE RecibirDesconocida(w)
    <3>1. s # <<>>
      BY <1>1, <2>2 DEF RecibirDesconocida, recibir_operacion
    <3>2. Tail(s) = Queda(s, 1)
      BY <3>1, TrasUna
    <3>3. 1 =< Len(s)
      BY <3>1
    <3>4. aMaster' = [aMaster EXCEPT ![w] = Queda(s, 1)]
      BY <1>1, <2>2, <3>2 DEF RecibirDesconocida
    <3> QED BY <3>3, <3>4
  <2> QED BY <2>1, <2>2
<1>3. UnFin(Queda(s, k)) /\ Fines(Queda(s, k)) \subseteq Fines(aMaster[w])
  <2>1. k \in Nat
    OBVIOUS
  <2> QED BY <1>1, <1>2, <2>1, FinesQueda
<1>4. aWorker' = aWorker /\ UNCHANGED <<guion, varsMaster, fase, qActual, linea, qc, cortado>>
  BY DEF RecibirLectura, RecibirDesconocida, varsWorker, varsCliente
<1>5. \A v \in Workers : Menos(v)
  BY <1>2, <1>3, <1>4, MenosMaster
<1> QED BY <1>4, <1>5, MismaIgual

\* No step but those of the planner gives a query to a Worker.
LEMMA TieneMenos ==
  ASSUME InvMisma, UNCHANGED <<cola, qPlan>>,
         \A q \in Queries : qc'[q] = "fuera" => qc[q] = "fuera",
         \A w \in Workers, q \in Queries : Tiene(w, q)' => Tiene(w, q),
         \A w \in Workers, q \in Queries : ~(qActual[w] = q /\ q \in Pend(aWorker[w]))'
  PROVE  UnSolo' /\ Espera'
<1>1. \A q \in Queries : EnCola(q)' <=> EnCola(q)
  BY DEF EnCola
<1>2. UnSolo'
  BY DEF InvMisma, UnSolo
<1>3. Espera'
  BY <1>1 DEF InvMisma, Espera
<1> QED BY <1>2, <1>3

\* ConectarMaster: a listed Worker has no query yet.
LEMMA MismaConectar ==
  ASSUME InvTipos, InvMisma, NEW w \in Workers, ConectarMaster(w)
  PROVE  InvMisma'
<1>1. /\ UNCHANGED <<guion, cola, ejecutando, qPlan, wPlan, qActual, linea, aWorker,
                    aMaster, qc, cortado>>
      /\ fase[w] = "arranque" /\ fase' = [fase EXCEPT ![w] = "escucha"]
      /\ conectados' = conectados \cup {w}
  BY DEF ConectarMaster, varsCliente, varsPlan
<1>2. fase \in [Workers -> PasosWorker] /\ conectados \subseteq Workers
  BY DEF InvTipos, TiposWorker, TiposMaster
<1>3. Pend(aWorker[w]) = {} /\ Fines(aMaster[w]) = {}
  BY <1>1 DEF InvMisma, Arranque
<1>4. ASSUME NEW v \in Workers PROVE Corriente(v)' /\ Arranque(v)'
  BY <1>1, <1>2 DEF InvMisma, Corriente, Arranque
<1>5. ASSUME NEW v \in conectados' PROVE Conocida(v)'
  <2>1. CASE v = w
    BY <1>1, <1>2, <1>3, <2>1 DEF Conocida
  <2>2. CASE v # w
    <3>1. v \in Workers /\ Conocida(v) /\ fase'[v] = fase[v]
      BY <1>1, <1>2, <1>5, <2>2 DEF InvMisma
    <3>2. QuedaEnd(v)' <=> QuedaEnd(v)
      BY <1>1 DEF QuedaEnd
    <3> QED BY <1>1, <3>1, <3>2 DEF Conocida
  <2> QED BY <2>1, <2>2
<1>6. \A v \in Workers, q \in Queries :
        /\ Tiene(v, q)' => Tiene(v, q)
        /\ ~(qActual[v] = q /\ q \in Pend(aWorker[v]))'
  BY <1>1 DEF Tiene, InvMisma, UnSolo
<1>7. UnSolo' /\ Espera'
  BY <1>1, <1>6, TieneMenos
<1>8. ASSUME NEW v \in Workers, v = wPlan PROVE Apartado(v)'
  <2>1. Apartado(v)
    BY <1>8 DEF InvMisma
  <2>2. v # w
    BY <1>1, <2>1 DEF Apartado
  <2>3. QuedaEnd(v)' <=> QuedaEnd(v)
    BY <1>1 DEF QuedaEnd
  <2>4. fase'[v] = fase[v] /\ (v \in conectados' <=> v \in conectados)
    BY <1>1, <1>2, <2>2
  <2> QED BY <1>1, <2>1, <2>3, <2>4 DEF Apartado
<1> QED BY <1>1, <1>4, <1>5, <1>7, <1>8 DEF InvMisma

\* Salir: a process that ends runs nothing.
LEMMA MismaSalir ==
  ASSUME InvTipos, InvMisma, NEW w \in Workers, Salir(w)
  PROVE  InvMisma'
<1>1. /\ UNCHANGED <<guion, cola, conectados, ejecutando, qPlan, wPlan, aMaster, qc, cortado>>
      /\ fase' = [fase EXCEPT ![w] = "fuera"]
      /\ qActual' = [qActual EXCEPT ![w] = Nadie]
      /\ linea' = [linea EXCEPT ![w] = 0]
      /\ aWorker' = [aWorker EXCEPT ![w] = <<>>]
  BY DEF Salir, varsMaster, varsCliente, varsPlan
<1>2. /\ fase \in [Workers -> PasosWorker] /\ conectados \subseteq Workers
      /\ qActual \in [Workers -> Queries \cup {Nadie}] /\ linea \in [Workers -> Nat]
      /\ aWorker \in [Workers -> Seq(Nat)]
  BY DEF InvTipos, TiposWorker, TiposMaster, TiposCorrientes
<1>3. ASSUME NEW v \in Workers PROVE Corriente(v)' /\ Arranque(v)'
  BY <1>1, <1>2, Vacias DEF InvMisma, Corriente, Arranque
<1>4. ASSUME NEW v \in conectados PROVE Conocida(v)'
  <2>1. CASE v = w
    BY <1>1, <1>2, <2>1, Vacias DEF InvMisma, Conocida
  <2>2. CASE v # w
    <3>1. /\ v \in Workers /\ Conocida(v) /\ fase'[v] = fase[v] /\ qActual'[v] = qActual[v]
          /\ linea'[v] = linea[v] /\ aWorker'[v] = aWorker[v]
      BY <1>1, <1>2, <2>2 DEF InvMisma
    <3>2. QuedaEnd(v)' <=> QuedaEnd(v)
      BY <1>1, <3>1 DEF QuedaEnd
    <3> QED BY <1>1, <3>1, <3>2 DEF Conocida
  <2> QED BY <2>1, <2>2
<1>5. \A v \in Workers, q \in Queries :
        /\ Tiene(v, q)' => Tiene(v, q)
        /\ ~(qActual[v] = q /\ q \in Pend(aWorker[v]))'
  BY <1>1, <1>2, Vacias, QueriesNat DEF Tiene, InvMisma, UnSolo
<1>6. UnSolo' /\ Espera'
  BY <1>1, <1>5, TieneMenos
<1>7. ASSUME NEW v \in Workers, v = wPlan PROVE Apartado(v)'
  <2>1. Apartado(v)
    BY <1>7 DEF InvMisma
  <2>2. CASE v = w
    BY <1>1, <1>2, <2>1, <2>2, Vacias DEF Apartado
  <2>3. CASE v # w
    <3>1. /\ fase'[v] = fase[v] /\ qActual'[v] = qActual[v]
          /\ linea'[v] = linea[v] /\ aWorker'[v] = aWorker[v]
      BY <1>1, <1>2, <2>3
    <3>2. QuedaEnd(v)' <=> QuedaEnd(v)
      BY <1>1, <3>1 DEF QuedaEnd
    <3> QED BY <1>1, <2>1, <3>1, <3>2 DEF Apartado
  <2> QED BY <2>2, <2>3
<1> QED BY <1>1, <1>3, <1>4, <1>6, <1>7 DEF InvMisma

\* manejar_desconexion_worker: the Master forgets the query it cancels.
LEMMA MismaDesconexion ==
  ASSUME InvTipos, InvMisma, NEW w \in Workers, manejar_desconexion_worker(w)
  PROVE  InvMisma'
<1>1. /\ UNCHANGED <<guion, cola, qPlan, wPlan, fase, qActual, linea, aWorker, qc>>
      /\ conectados' = conectados \ {w} /\ cortado \cup {w} \subseteq cortado'
      /\ ejecutando' = [ejecutando EXCEPT ![w] = Nadie]
      /\ aMaster' = [aMaster EXCEPT ![w] = <<>>]
  BY DEF manejar_desconexion_worker, varsWorker, varsPlan
<1>2. /\ conectados \subseteq Workers /\ ejecutando \in [Workers -> Queries \cup {Nadie}]
      /\ aMaster \in [Workers -> Seq(Nat)]
  BY DEF InvTipos, TiposMaster, TiposCorrientes
<1>3. ASSUME NEW v \in Workers PROVE Corriente(v)' /\ Arranque(v)'
  BY <1>1, <1>2, Vacias DEF InvMisma, Corriente, Arranque
<1>4. ASSUME NEW v \in conectados' PROVE Conocida(v)'
  <2>1. /\ v \in Workers /\ Conocida(v) /\ ejecutando'[v] = ejecutando[v]
        /\ aMaster'[v] = aMaster[v]
    BY <1>1, <1>2, <1>4 DEF InvMisma
  <2>2. QuedaEnd(v)' <=> QuedaEnd(v)
    BY <1>1 DEF QuedaEnd
  <2> QED BY <1>1, <2>1, <2>2 DEF Conocida
<1>5. \A v \in Workers, q \in Queries :
        /\ Tiene(v, q)' => Tiene(v, q)
        /\ ~(qActual[v] = q /\ q \in Pend(aWorker[v]))'
  BY <1>1 DEF Tiene, InvMisma, UnSolo
<1>6. UnSolo' /\ Espera'
  BY <1>1, <1>5, TieneMenos
<1>7. ASSUME NEW v \in Workers, v = wPlan PROVE Apartado(v)'
  <2>1. Apartado(v)
    BY <1>7 DEF InvMisma
  <2>2. QuedaEnd(v)' <=> QuedaEnd(v)
    BY <1>1 DEF QuedaEnd
  <2>3. v # w => ejecutando'[v] = ejecutando[v] /\ aMaster'[v] = aMaster[v]
    BY <1>1, <1>2
  <2>4. v = w => v \notin conectados' /\ v \in cortado'
    BY <1>1
  <2>5. v \in conectados' => v \in conectados
    BY <1>1
  <2>6. v \in conectados' \/ v \in cortado'
    BY <1>1, <2>1 DEF Apartado
  <2> QED BY <1>1, <2>1, <2>2, <2>3, <2>4, <2>5, <2>6 DEF Apartado
<1> QED BY <1>1, <1>3, <1>4, <1>6, <1>7 DEF InvMisma

\* The end of a query comes when its path was read and its END run: nothing of
\* the next one is on the way.
LEMMA MismaFin ==
  ASSUME InvTipos, InvMisma, NEW w \in Workers, RecibirFin(w)
  PROVE  InvMisma'
<1>1. PICK s \in Seq(Nat) : s = aMaster[w] /\ ParaMaster(s) /\ UnFin(s)
  BY DEF InvTipos, TiposCorrientes, InvMisma, Corriente
<1>2. s # <<>> /\ Head(s) = 500 /\ EsPaquete(Tail(s), 1)
  BY <1>1 DEF RecibirFin, recibir_operacion, OP_FIN_QUERY
<1>3. /\ Len(s) > 3 /\ s[1] = 500 /\ TrasPaquete(Tail(s), 1) = Queda(s, 4)
      /\ Campo(Tail(s), 1) = s[4]
  BY <1>2, TrasUna, TrasUno
<1>4. s[4] \in Queries
  BY <1>1, <1>3, FinLeido
<1>5. s[4] \in Fines(s) /\ UnFin(Queda(s, 4)) /\ Fines(Queda(s, 4)) = {}
  BY <1>1, <1>3, <1>4, FinesLeido DEF OP_FIN_QUERY
<1>6. w \in conectados /\ Conocida(w)
  BY DEF RecibirFin, InvMisma
<1>7. /\ ejecutando[w] = s[4] /\ (fase[w] = "ejecuta" => ~QuedaEnd(w))
      /\ Pend(aWorker[w]) = {}
  BY <1>1, <1>5, <1>6 DEF Conocida
<1>8. /\ UNCHANGED <<guion, cola, conectados, qPlan, wPlan, fase, qActual, linea, aWorker, qc>>
      /\ ejecutando' = [ejecutando EXCEPT ![w] = Nadie] /\ cortado \subseteq cortado'
      /\ aMaster' = [aMaster EXCEPT ![w] = Queda(s, 4)]
  <2>1. ejecutando[w] # Nadie /\ ejecutando[w] = Campo(Tail(aMaster[w]), 1)
    BY <1>1, <1>3, <1>4, <1>7, QueriesNat
  <2>2. cortado \subseteq cortado'
    BY DEF RecibirFin
  <2> QED BY <1>1, <1>3, <2>1, <2>2 
           DEF RecibirFin, registrar_worker_libre, varsWorker, varsPlan
<1>9. /\ conectados \subseteq Workers /\ ejecutando \in [Workers -> Queries \cup {Nadie}]
      /\ aMaster \in [Workers -> Seq(Nat)]
  BY DEF InvTipos, TiposMaster, TiposCorrientes
<1>10. ASSUME NEW v \in Workers PROVE Corriente(v)' /\ Arranque(v)'
  BY <1>5, <1>8, <1>9 DEF InvMisma, Corriente, Arranque
<1>11. ASSUME NEW v \in conectados PROVE Conocida(v)'
  <2>1. QuedaEnd(v)' <=> QuedaEnd(v)
    BY <1>8 DEF QuedaEnd
  <2>2. CASE v = w
    BY <1>5, <1>7, <1>8, <1>9, <2>1, <2>2 DEF Conocida
  <2>3. CASE v # w
    <3>1. /\ v \in Workers /\ Conocida(v) /\ ejecutando'[v] = ejecutando[v]
          /\ aMaster'[v] = aMaster[v]
      BY <1>8, <1>9, <2>3 DEF InvMisma
    <3> QED BY <1>8, <2>1, <3>1 DEF Conocida
  <2> QED BY <2>2, <2>3
<1>12. \A v \in Workers, q \in Queries :
        /\ Tiene(v, q)' => Tiene(v, q)
        /\ ~(qActual[v] = q /\ q \in Pend(aWorker[v]))'
  BY <1>8 DEF Tiene, InvMisma, UnSolo
<1>13. UnSolo' /\ Espera'
  BY <1>8, <1>12, TieneMenos
<1>14. ASSUME NEW v \in Workers, v = wPlan PROVE Apartado(v)'
  <2>1. Apartado(v)
    BY <1>14 DEF InvMisma
  <2>2. v # w
    BY <1>1, <1>5, <1>6, <2>1 DEF Apartado
  <2>3. ejecutando'[v] = ejecutando[v] /\ aMaster'[v] = aMaster[v]
    BY <1>8, <1>9, <2>2
  <2>4. QuedaEnd(v)' <=> QuedaEnd(v)
    BY <1>8 DEF QuedaEnd
  <2> QED BY <1>8, <2>1, <2>3, <2>4 DEF Apartado
<1> QED BY <1>8, <1>10, <1>11, <1>13, <1>14 DEF InvMisma

\* What is left in READY was there, and the query that leaves is there no more.
LEMMA QuitarUna ==
  ASSUME InvMisma, cola \in Seq(Queries), cola # <<>>, cola' = Tail(cola)
  PROVE  /\ \A i, j \in 1..Len(cola') : cola'[i] = cola'[j] => i = j
         /\ \A q \in Queries : EnCola(q)' => EnCola(q) /\ q # cola[1]
<1>1. PICK c \in Seq(Queries), n \in Nat :
        /\ c = Tail(cola) /\ Len(c) = n /\ Len(cola) = n + 1
        /\ \A i \in 1..n : c[i] = cola[i + 1]
  <2>1. /\ Tail(cola) \in Seq(Queries) /\ Len(Tail(cola)) = Len(cola) - 1
        /\ Len(cola) - 1 \in Nat /\ Len(cola) = (Len(cola) - 1) + 1
        /\ \A i \in 1..(Len(cola) - 1) : Tail(cola)[i] = cola[i + 1]
    OBVIOUS
  <2> QED BY <2>1
<1>2. \A i, j \in 1..(n + 1) : cola[i] = cola[j] => i = j
  BY <1>1 DEF InvMisma, Espera
<1>3. ASSUME NEW i \in 1..n, NEW j \in 1..n, c[i] = c[j] PROVE i = j
  <2>1. i + 1 \in 1..(n + 1) /\ j + 1 \in 1..(n + 1) /\ cola[i + 1] = cola[j + 1]
    BY <1>1, <1>3
  <2>2. i + 1 = j + 1
    BY <1>2, <2>1
  <2> QED BY <2>2
<1>4. ASSUME NEW i \in 1..n PROVE EnCola(c[i]) /\ c[i] # cola[1]
  <2>1. i + 1 \in 1..(n + 1) /\ 1 \in 1..(n + 1) /\ i + 1 # 1 /\ c[i] = cola[i + 1]
    BY <1>1
  <2>2. cola[i + 1] # cola[1]
    BY <1>2, <2>1
  <2> QED BY <1>1, <2>1, <2>2 DEF EnCola
<1>5. cola' = c
  BY <1>1
<1> QED BY <1>1, <1>3, <1>4, <1>5 DEF EnCola

\* The planner takes a query no Worker has for a Worker that has none.
LEMMA MismaAsignar ==
  ASSUME InvTipos, InvMisma, NEW w \in Workers, Asignar(w)
  PROVE  InvMisma'
<1>1. cola \in Seq(Queries) /\ cola # <<>>
  BY DEF InvTipos, TiposMaster, Asignar
<1>2. PICK h \in Queries : h = Head(cola) /\ h = cola[1]
  BY <1>1
<1>3. EnCola(h)
  <2>1. 1 \in 1..Len(cola)
    BY <1>1
  <2> QED BY <1>2, <2>1 DEF EnCola
<1>4. (\A v \in Workers : ~Tiene(v, h)) /\ qc[h] # "fuera"
  BY <1>3 DEF InvMisma, Espera
<1>5. /\ UNCHANGED <<guion, conectados, fase, qActual, linea, aWorker, aMaster, qc, cortado>>
      /\ w \in conectados /\ ejecutando[w] = Nadie /\ cola' = Tail(cola)
      /\ ejecutando' = [ejecutando EXCEPT ![w] = h] /\ qPlan' = h /\ wPlan' = w
  BY <1>2 DEF Asignar, QuitarDeCola, varsWorker, varsCliente
<1>6. /\ conectados \subseteq Workers /\ ejecutando \in [Workers -> Queries \cup {Nadie}]
      /\ \A v \in Workers : Ejecucion(v)
  BY DEF InvTipos, TiposMaster, TiposWorker
<1>7. Pend(aWorker[w]) = {} /\ Fines(aMaster[w]) = {} /\ ~(fase[w] = "ejecuta" /\ QuedaEnd(w))
  <2>1. Conocida(w)
    BY <1>5 DEF InvMisma
  <2>2. Pend(aWorker[w]) \subseteq Queries /\ Fines(aMaster[w]) \subseteq Queries
    BY DEF Pend, Fines
  <2> QED BY <1>5, <1>6, <2>1, <2>2, QueriesNat DEF Conocida, Ejecucion
<1>8. ASSUME NEW v \in Workers PROVE Corriente(v)' /\ Arranque(v)'
  BY <1>5 DEF InvMisma, Corriente, Arranque
<1>9. \A v \in Workers : QuedaEnd(v)' <=> QuedaEnd(v)
  BY <1>5 DEF QuedaEnd
<1>10. ASSUME NEW v \in conectados PROVE Conocida(v)'
  <2>1. CASE v = w
    BY <1>5, <1>6, <1>7, <1>9, <2>1 DEF Conocida
  <2>2. CASE v # w
    <3>1. v \in Workers /\ Conocida(v) /\ ejecutando'[v] = ejecutando[v]
      BY <1>5, <1>6, <2>2 DEF InvMisma
    <3> QED BY <1>5, <1>9, <3>1 DEF Conocida
  <2> QED BY <2>1, <2>2
<1>11. \A v \in Workers, q \in Queries : Tiene(v, q)' <=> Tiene(v, q)
  BY <1>5 DEF Tiene
<1>12. UnSolo'
  BY <1>5, <1>11 DEF InvMisma, UnSolo
<1>13. /\ \A i, j \in 1..Len(cola') : cola'[i] = cola'[j] => i = j
       /\ \A q \in Queries : EnCola(q)' => EnCola(q) /\ q # h
  BY <1>1, <1>2, <1>5, QuitarUna
<1>14. Espera'
  BY <1>4, <1>5, <1>11, <1>13 DEF InvMisma, Espera
<1>15. ASSUME NEW v \in Workers, v = wPlan' PROVE Apartado(v)'
  <2>1. v = w /\ ejecutando'[w] = h /\ fase[w] # "arranque"
    BY <1>5, <1>6, <1>15 DEF InvMisma, Arranque
  <2> QED BY <1>5, <1>7, <1>9, <2>1 DEF Apartado
<1> QED BY <1>5, <1>8, <1>10, <1>12, <1>14, <1>15 DEF InvMisma

\* The path of the query it holds is the only one on the way to its Worker.
LEMMA MismaEnviar ==
  ASSUME InvTipos, QidsBajos, InvMisma, EnviarPath
  PROVE  InvMisma'
<1>1. PICK w \in Workers, h \in Queries : w = wPlan /\ h = qPlan
  BY DEF InvTipos, TiposMaster, EnviarPath
<1>2. /\ UNCHANGED <<guion, cola, conectados, ejecutando, fase, qActual, linea, aMaster, qc,
                    cortado>>
      /\ w \notin cortado /\ qPlan' = Nadie /\ wPlan' = Nadie
      /\ AlWorker(w, Camino(h))
  BY <1>1 DEF EnviarPath, Camino, varsWorker, varsCliente
<1>3. (\A v \in Workers : ~Tiene(v, h)) /\ qc[h] # "fuera" /\ ~EnCola(h)
  BY <1>1 DEF InvMisma, Espera
<1>4. /\ w \in conectados /\ ejecutando[w] = h /\ fase[w] # "arranque"
      /\ Pend(aWorker[w]) = {} /\ Fines(aMaster[w]) = {}
      /\ ~(fase[w] = "ejecuta" /\ QuedaEnd(w))
  BY <1>1, <1>2 DEF InvMisma, Apartado
<1>5. /\ conectados \subseteq Workers /\ aWorker \in [Workers -> Seq(Nat)]
  BY DEF InvTipos, TiposMaster, TiposCorrientes
<1>6. PICK s \in Seq(Nat) : /\ aWorker' = [aWorker EXCEPT ![w] = s]
                            /\ UnCamino(s) /\ Pend(s) \subseteq {h}
  <2>1. UnCamino(aWorker[w]) /\ aWorker[w] \in Seq(Nat)
    BY <1>5 DEF InvMisma, Corriente
  <2>2. CASE ~Alcanza(w)
    <3>1. aWorker' = [aWorker EXCEPT ![w] = aWorker[w]]
      BY <1>2, <2>2 DEF AlWorker
    <3> QED BY <1>4, <2>1, <3>1
  <2>3. CASE Alcanza(w)
    <3>1. aWorker' = [aWorker EXCEPT ![w] = aWorker[w] \o Camino(h)]
      BY <1>2, <2>3 DEF AlWorker
    <3>2. h < TEXTO
      BY QueriesNat DEF QidsBajos, OP_DESALOJAR_QUERY, TEXTO
    <3>3. /\ UnCamino(aWorker[w] \o Camino(h))
          /\ Pend(aWorker[w] \o Camino(h)) \subseteq {h}
      BY <1>4, <2>1, <3>2, PendCamino
    <3>4. aWorker[w] \o Camino(h) \in Seq(Nat)
      <4>1. Camino(h) \in Seq(Nat)
        BY SonSecuencias DEF DelMaster
      <4> QED BY <2>1, <4>1
    <3> QED BY <3>1, <3>3, <3>4
  <2> QED BY <2>2, <2>3
<1>7. ASSUME NEW v \in Workers PROVE Corriente(v)' /\ Arranque(v)'
  BY <1>2, <1>4, <1>5, <1>6 DEF InvMisma, Corriente, Arranque
<1>8. \A v \in Workers : QuedaEnd(v)' <=> QuedaEnd(v)
  BY <1>2 DEF QuedaEnd
<1>9. ASSUME NEW v \in conectados PROVE Conocida(v)'
  <2>1. CASE v = w
    BY <1>2, <1>4, <1>5, <1>6, <1>8, <2>1 DEF Conocida
  <2>2. CASE v # w
    <3>1. v \in Workers /\ Conocida(v) /\ aWorker'[v] = aWorker[v]
      BY <1>5, <1>6, <2>2 DEF InvMisma
    <3> QED BY <1>2, <1>8, <3>1 DEF Conocida
  <2> QED BY <2>1, <2>2
<1>10. \A v \in Workers, q \in Queries : Tiene(v, q)' => Tiene(v, q) \/ (v = w /\ q = h)
  BY <1>2, <1>5, <1>6 DEF Tiene
<1>11. \A v \in Workers, q \in Queries : ~(qActual[v] = q /\ q \in Pend(aWorker[v]))'
  <2> SUFFICES ASSUME NEW v \in Workers, NEW q \in Queries,
                      qActual[v] = q, q \in Pend(aWorker[v])'
               PROVE  FALSE
    BY <1>2
  <2>1. CASE v = w
    BY <1>3, <1>5, <1>6, <2>1 DEF Tiene
  <2>2. CASE v # w
    BY <1>5, <1>6, <2>2 DEF InvMisma, UnSolo
  <2> QED BY <2>1, <2>2
<1>12. UnSolo'
  BY <1>3, <1>10, <1>11 DEF InvMisma, UnSolo
<1>13. \A q \in Queries : EnCola(q)' <=> EnCola(q)
  BY <1>2 DEF EnCola
<1>14. Espera'
  BY <1>2, <1>3, <1>10, <1>13, QueriesNat DEF InvMisma, Espera
<1> QED BY <1>2, <1>7, <1>9, <1>12, <1>14, QueriesNat DEF InvMisma

\* A query that goes back to the head of READY is there once.
LEMMA PonerPrimera ==
  ASSUME InvMisma, cola \in Seq(Queries), NEW q \in Queries, ~EnCola(q), cola' = <<q>> \o cola
  PROVE  /\ \A i, j \in 1..Len(cola') : cola'[i] = cola'[j] => i = j
         /\ \A r \in Queries : EnCola(r)' => EnCola(r) \/ r = q
<1>1. PICK c \in Seq(Queries), n \in Nat :
        /\ c = <<q>> \o cola /\ Len(cola) = n /\ Len(c) = n + 1 /\ c[1] = q
        /\ \A i \in 1..n : c[i + 1] = cola[i]
  <2>1. /\ <<q>> \o cola \in Seq(Queries) /\ Len(<<q>> \o cola) = Len(cola) + 1
        /\ Len(cola) \in Nat /\ (<<q>> \o cola)[1] = q
        /\ \A i \in 1..Len(cola) : (<<q>> \o cola)[i + 1] = cola[i]
    OBVIOUS
  <2> QED BY <2>1
<1>2. \A i, j \in 1..n : cola[i] = cola[j] => i = j
  BY <1>1 DEF InvMisma, Espera
<1>3. \A i \in 1..n : cola[i] # q
  BY <1>1 DEF EnCola
<1>4. ASSUME NEW i \in 1..(n + 1), i # 1
      PROVE  i - 1 \in 1..n /\ c[i] = cola[i - 1] /\ c[i] # q
  <2>1. i - 1 \in 1..n /\ i = (i - 1) + 1
    BY <1>4
  <2>2. c[i] = cola[i - 1]
    BY <1>1, <2>1
  <2> QED BY <1>3, <2>1, <2>2
<1>5. ASSUME NEW i \in 1..(n + 1), NEW j \in 1..(n + 1), c[i] = c[j] PROVE i = j
  <2>1. CASE i = 1 \/ j = 1
    BY <1>1, <1>4, <1>5, <2>1
  <2>2. CASE i # 1 /\ j # 1
    <3>1. i - 1 \in 1..n /\ j - 1 \in 1..n /\ cola[i - 1] = cola[j - 1]
      BY <1>4, <1>5, <2>2
    <3>2. i - 1 = j - 1
      BY <1>2, <3>1
    <3> QED BY <3>2
  <2> QED BY <2>1, <2>2
<1>6. ASSUME NEW i \in 1..(n + 1) PROVE c[i] = q \/ EnCola(c[i])
  BY <1>1, <1>4 DEF EnCola
<1>7. cola' = c
  BY <1>1
<1> QED BY <1>1, <1>5, <1>6, <1>7 DEF EnCola

\* The send that failed left nothing on the way.
LEMMA MismaFallido ==
  ASSUME InvTipos, InvMisma, EnvioFallido
  PROVE  InvMisma'
<1>1. PICK h \in Queries : h = qPlan
  BY DEF InvTipos, TiposMaster, EnvioFallido
<1>2. /\ UNCHANGED <<guion, conectados, ejecutando, fase, qActual, linea, aWorker, aMaster, qc,
                    cortado>>
      /\ qPlan' = Nadie /\ wPlan' = Nadie /\ cola' = <<h>> \o cola
  BY <1>1 DEF EnvioFallido, varsWorker, varsCliente
<1>3. (\A v \in Workers : ~Tiene(v, h)) /\ qc[h] # "fuera" /\ ~EnCola(h)
  BY <1>1 DEF InvMisma, Espera
<1>4. cola \in Seq(Queries) /\ conectados \subseteq Workers
  BY DEF InvTipos, TiposMaster
<1>5. /\ \A i, j \in 1..Len(cola') : cola'[i] = cola'[j] => i = j
      /\ \A q \in Queries : EnCola(q)' => EnCola(q) \/ q = h
  BY <1>2, <1>3, <1>4, PonerPrimera
<1>6. ASSUME NEW v \in Workers PROVE Corriente(v)' /\ Arranque(v)'
  BY <1>2 DEF InvMisma, Corriente, Arranque
<1>7. \A v \in Workers : QuedaEnd(v)' <=> QuedaEnd(v)
  BY <1>2 DEF QuedaEnd
<1>8. ASSUME NEW v \in conectados PROVE Conocida(v)'
  BY <1>2, <1>4, <1>7 DEF InvMisma, Conocida
<1>9. \A v \in Workers, q \in Queries : Tiene(v, q)' <=> Tiene(v, q)
  BY <1>2 DEF Tiene
<1>10. UnSolo'
  BY <1>2, <1>9 DEF InvMisma, UnSolo
<1>11. Espera'
  BY <1>2, <1>3, <1>5, <1>9, QueriesNat DEF InvMisma, Espera
<1> QED BY <1>2, <1>6, <1>8, <1>10, <1>11, QueriesNat DEF InvMisma

\* A query comes once.
LEMMA InsertarUna ==
  ASSUME cola \in Seq(Queries), NEW q \in Queries, ~EnCola(q),
         \A i, j \in 1..Len(cola) : cola[i] = cola[j] => i = j
  PROVE  /\ \A i, j \in 1..Len(Insertar(q)) : Insertar(q)[i] = Insertar(q)[j] => i = j
         /\ \A i \in 1..Len(Insertar(q)) : Insertar(q)[i] = q \/ EnCola(Insertar(q)[i])
<1>1. PICK c \in Seq(Queries), n \in Nat, k \in Nat :
        /\ c = Insertar(q) /\ Len(cola) = n /\ Len(c) = n + 1 /\ k \in 1..(n + 1)
        /\ \A i \in 1..(n + 1) : c[i] = IF i < k THEN cola[i]
                                        ELSE IF i = k THEN q ELSE cola[i - 1]
  <2>1. /\ Insertar(q) \in Seq(Queries) /\ Len(Insertar(q)) = Len(cola) + 1
        /\ \E k \in 1..(Len(cola) + 1) :
             \A i \in 1..(Len(cola) + 1) :
               Insertar(q)[i] = IF i < k THEN cola[i]
                                ELSE IF i = k THEN q ELSE cola[i - 1]
    BY InsertarEs
  <2>2. PICK n \in Nat : n = Len(cola)
    OBVIOUS
  <2>3. PICK k \in 1..(n + 1) :
          \A i \in 1..(n + 1) :
            Insertar(q)[i] = IF i < k THEN cola[i] ELSE IF i = k THEN q ELSE cola[i - 1]
    BY <2>1, <2>2
  <2>4. k \in Nat
    BY <2>2, <2>3
  <2> QED BY <2>1, <2>2, <2>3, <2>4
<1>2. ASSUME NEW i \in 1..(n + 1), i # k
      PROVE  \E m \in 1..n : c[i] = cola[m] /\ m = IF i < k THEN i ELSE i - 1
  <2>1. CASE i < k
    BY <1>1, <2>1
  <2>2. CASE i > k
    <3>1. i - 1 \in 1..n /\ c[i] = cola[i - 1]
      BY <1>1, <2>2
    <3> QED BY <3>1, <2>2
  <2> QED BY <1>2, <2>1, <2>2
<1>3. \A m \in 1..n : cola[m] # q
  BY <1>1 DEF EnCola
<1>4. c[k] = q
  BY <1>1
<1>5. ASSUME NEW i \in 1..(n + 1), NEW j \in 1..(n + 1), c[i] = c[j] PROVE i = j
  <2>1. CASE i = k \/ j = k
    BY <1>2, <1>3, <1>4, <1>5, <2>1
  <2>2. CASE i # k /\ j # k
    <3>1. PICK m \in 1..n : c[i] = cola[m] /\ m = IF i < k THEN i ELSE i - 1
      BY <1>2, <2>2
    <3>2. PICK l \in 1..n : c[j] = cola[l] /\ l = IF j < k THEN j ELSE j - 1
      BY <1>2, <2>2
    <3>3. m = l
      BY <1>1, <1>5, <3>1, <3>2
    <3> QED BY <2>2, <3>1, <3>2, <3>3
  <2> QED BY <2>1, <2>2
<1>6. ASSUME NEW i \in 1..(n + 1) PROVE c[i] = q \/ EnCola(c[i])
  <2>1. CASE i = k
    BY <1>4, <2>1
  <2>2. CASE i # k
    <3>1. PICK m \in 1..n : c[i] = cola[m]
      BY <1>2, <2>2
    <3> QED BY <1>1, <3>1 DEF EnCola
  <2> QED BY <2>1, <2>2
<1> QED BY <1>1, <1>5, <1>6

\* LlegaQuery: a new query is in READY and nowhere else.
LEMMA MismaLlega ==
  ASSUME InvTipos, InvMisma, NEW q \in Queries, LlegaQuery(q)
  PROVE  InvMisma'
<1>1. /\ UNCHANGED <<guion, conectados, ejecutando, qPlan, wPlan, fase, qActual, linea,
                    aWorker, aMaster, cortado>>
      /\ qc[q] = "fuera" /\ qc' = [qc EXCEPT ![q] = "espera"] /\ cola' = Insertar(q)
  BY DEF LlegaQuery, varsWorker, varsPlan
<1>2. cola \in Seq(Queries) /\ qc \in [Queries -> PasosQC] /\ conectados \subseteq Workers
  BY DEF InvTipos, TiposMaster, TiposDesalojo
<1>3. /\ ~EnCola(q) /\ \A w \in Workers : ~Tiene(w, q)
      /\ \A i, j \in 1..Len(cola) : cola[i] = cola[j] => i = j
  BY <1>1 DEF InvMisma, Espera
<1>4. /\ \A i, j \in 1..Len(cola') : cola'[i] = cola'[j] => i = j
      /\ \A r \in Queries : EnCola(r)' => r = q \/ EnCola(r)
  BY <1>1, <1>2, <1>3, InsertarUna DEF EnCola
<1>5. ASSUME NEW w \in Workers PROVE Corriente(w)' /\ Arranque(w)'
  BY <1>1 DEF InvMisma, Corriente, Arranque
<1>6. ASSUME NEW w \in conectados PROVE Conocida(w)'
  <2>1. QuedaEnd(w)' <=> QuedaEnd(w)
    BY <1>1 DEF QuedaEnd
  <2> QED BY <1>1, <2>1 DEF InvMisma, Conocida
<1>7. \A w \in Workers, r \in Queries : Tiene(w, r)' <=> Tiene(w, r)
  BY <1>1 DEF Tiene
<1>8. UnSolo'
  BY <1>1, <1>7 DEF InvMisma, UnSolo
<1>9. Espera'
  BY <1>1, <1>2, <1>3, <1>4, <1>7 DEF InvMisma, Espera
<1>10. ASSUME NEW v \in Workers, v = wPlan PROVE Apartado(v)'
  <2>1. Apartado(v)
    BY <1>10 DEF InvMisma
  <2>2. QuedaEnd(v)' <=> QuedaEnd(v)
    BY <1>1 DEF QuedaEnd
  <2> QED BY <1>1, <2>1, <2>2 DEF Apartado
<1> QED BY <1>1, <1>5, <1>6, <1>8, <1>9, <1>10 DEF InvMisma

\* The path that is read is the one on the way.
LEMMA MismaRecibirQuery ==
  ASSUME InvTipos, InvMisma, NEW w \in Workers, RecibirQuery(w)
  PROVE  InvMisma'
<1>1. PICK s \in Seq(Nat) : s = aWorker[w] /\ ParaWorker(s) /\ UnCamino(s)
  BY DEF InvTipos, TiposCorrientes, InvMisma, Corriente
<1>2. s # <<>> /\ Head(s) = 1 /\ fase[w] = "escucha"
  BY <1>1 DEF RecibirQuery, Escucha, recibir_operacion, OP_ENVIAR_PATH
<1>3. s[1] = 1
  BY <1>2, TrasUna
<1>4. UNCHANGED <<guion, cola, conectados, ejecutando, qPlan, wPlan, aMaster, qc, cortado>>
  BY DEF RecibirQuery, varsMaster, varsCliente, varsPlan
<1>5. /\ fase \in [Workers -> PasosWorker] /\ conectados \subseteq Workers
      /\ qActual \in [Workers -> Queries \cup {Nadie}] /\ linea \in [Workers -> Nat]
      /\ aWorker \in [Workers -> Seq(Nat)] /\ qActual[w] = Nadie
  BY <1>2 DEF InvTipos, TiposWorker, TiposMaster, TiposCorrientes, Ejecucion
<1>6. CASE EsPaquete(Tail(s), 3)
  <2>1. /\ Len(s) > 7 /\ s[2] = 24 /\ TrasPaquete(Tail(s), 3) = Queda(s, 8)
        /\ Campo(Tail(s), 1) = s[4]
    BY <1>2, <1>6, TrasTres
  <2>2. s[4] \in Queries /\ s[8] = TEXTO
    BY <1>1, <1>3, <2>1, CaminoLeido
  <2>3. s[4] \in Pend(aWorker[w]) /\ UnCamino(Queda(s, 8)) /\ Pend(Queda(s, 8)) = {}
    BY <1>1, <2>1, <2>2, PendLeido
  <2>4. /\ fase' = [fase EXCEPT ![w] = "ejecuta"]
        /\ qActual' = [qActual EXCEPT ![w] = s[4]]
        /\ linea' = [linea EXCEPT ![w] = PrimeraLinea(Campo(Tail(s), 2))]
        /\ aWorker' = [aWorker EXCEPT ![w] = Queda(s, 8)]
    BY <1>1, <1>6, <2>1 DEF RecibirQuery
  <2>5. PICK q \in Queries, r \in {Queda(s, 8)} : q = s[4]
    BY <2>2
  <2>6. ASSUME NEW v \in Workers PROVE Corriente(v)' /\ Arranque(v)'
    BY <1>2, <1>4, <1>5, <2>3, <2>4, <2>5 DEF InvMisma, Corriente, Arranque
  <2>7. ASSUME NEW v \in conectados PROVE Conocida(v)'
    <3>1. CASE v = w
      <4>1. ejecutando[w] = q /\ Fines(aMaster[w]) = {}
        BY <2>3, <2>5, <2>7, <3>1 DEF InvMisma, Conocida
      <4>2. Pend(aWorker'[w]) = {} /\ qActual'[w] = q
        BY <1>5, <2>3, <2>4, <2>5
      <4> QED BY <1>4, <3>1, <4>1, <4>2 DEF Conocida
    <3>2. CASE v # w
      <4>1. /\ v \in Workers /\ Conocida(v) /\ fase'[v] = fase[v]
            /\ qActual'[v] = qActual[v] /\ linea'[v] = linea[v] /\ aWorker'[v] = aWorker[v]
        BY <1>5, <2>4, <2>7, <3>2 DEF InvMisma
      <4>2. QuedaEnd(v)' <=> QuedaEnd(v)
        BY <1>4, <4>1 DEF QuedaEnd
      <4> QED BY <1>4, <4>1, <4>2 DEF Conocida
    <3> QED BY <3>1, <3>2
  <2>8. ASSUME NEW v \in Workers, NEW p \in Queries
        PROVE  /\ Tiene(v, p)' => Tiene(v, p)
               /\ ~(qActual[v] = p /\ p \in Pend(aWorker[v]))'
    <3>1. CASE v = w
      <4>1. qActual'[w] = q /\ Pend(aWorker'[w]) = {} /\ q \in Pend(aWorker[w])
        BY <1>5, <2>3, <2>4, <2>5
      <4> QED BY <3>1, <4>1 DEF Tiene
    <3>2. CASE v # w
      <4>1. qActual'[v] = qActual[v] /\ aWorker'[v] = aWorker[v]
        BY <1>5, <2>4, <3>2
      <4> QED BY <4>1 DEF Tiene, InvMisma, UnSolo
    <3> QED BY <3>1, <3>2
  <2>9. UnSolo' /\ Espera'
    BY <1>4, <2>8, TieneMenos
  <2>10. ASSUME NEW v \in Workers, v = wPlan PROVE Apartado(v)'
    <3>1. Apartado(v)
      BY <2>10 DEF InvMisma
    <3>2. CASE v = w
      <4>1. v \notin conectados
        BY <2>3, <3>1, <3>2 DEF Apartado
      <4>2. fase'[v] = "ejecuta"
        BY <1>5, <2>4, <3>2
      <4> QED BY <1>4, <3>1, <4>1, <4>2 DEF Apartado
    <3>3. CASE v # w
      <4>1. /\ fase'[v] = fase[v] /\ qActual'[v] = qActual[v]
            /\ linea'[v] = linea[v] /\ aWorker'[v] = aWorker[v]
        BY <1>5, <2>4, <3>3
      <4>2. QuedaEnd(v)' <=> QuedaEnd(v)
        BY <1>4, <4>1 DEF QuedaEnd
      <4> QED BY <1>4, <3>1, <4>1, <4>2 DEF Apartado
    <3> QED BY <3>2, <3>3
  <2> QED BY <1>4, <2>6, <2>7, <2>9, <2>10 DEF InvMisma
<1>7. CASE ~EsPaquete(Tail(s), 3)
  <2>1. UNCHANGED <<qActual, linea, aWorker>> /\ fase' = [fase EXCEPT ![w] = "perdido"]
    BY <1>1, <1>7 DEF RecibirQuery
  <2>2. ASSUME NEW v \in Workers PROVE Corriente(v)' /\ Arranque(v)'
    BY <1>4, <1>5, <2>1 DEF InvMisma, Corriente, Arranque
  <2>3. ASSUME NEW v \in conectados PROVE Conocida(v)'
    <3>1. QuedaEnd(v)' <=> QuedaEnd(v)
      BY <1>4, <2>1 DEF QuedaEnd
    <3>2. v \in Workers /\ Conocida(v) /\ (fase'[v] = "ejecuta" => fase[v] = "ejecuta")
      BY <1>5, <2>1, <2>3 DEF InvMisma
    <3> QED BY <1>4, <2>1, <3>1, <3>2 DEF Conocida
  <2>4. \A v \in Workers, p \in Queries :
          /\ Tiene(v, p)' => Tiene(v, p)
          /\ ~(qActual[v] = p /\ p \in Pend(aWorker[v]))'
    BY <2>1 DEF Tiene, InvMisma, UnSolo
  <2>5. UnSolo' /\ Espera'
    BY <1>4, <2>4, TieneMenos
  <2>6. ASSUME NEW v \in Workers, v = wPlan PROVE Apartado(v)'
    <3>1. Apartado(v)
      BY <2>6 DEF InvMisma
    <3>2. QuedaEnd(v)' <=> QuedaEnd(v)
      BY <1>4, <2>1 DEF QuedaEnd
    <3>3. fase'[v] # "arranque" /\ (fase'[v] = "ejecuta" => fase[v] = "ejecuta")
      BY <1>5, <2>1, <3>1 DEF Apartado
    <3> QED BY <1>4, <2>1, <3>1, <3>2, <3>3 DEF Apartado
  <2> QED BY <1>4, <2>2, <2>3, <2>5, <2>6 DEF InvMisma
<1> QED BY <1>6, <1>7

\* Only an END sends the end of the query.
LEMMA EmiteSinFin ==
  ASSUME InvTipos, NEW w \in Workers, fase[w] = "ejecuta", NEW instruccion,
         instruccion # "END", NEW s \in Emite(w, instruccion), s # <<>>
  PROVE  \A r \in Queries : s # FinDe(r)
<1> SUFFICES ASSUME NEW r \in Queries, s = FinDe(r) PROVE FALSE
  OBVIOUS
<1>1. qActual[w] \in Queries /\ linea[w] \in Nat
  BY DEF InvTipos, TiposWorker, Ejecucion
<1>2. s = <<500, 8, 4, r>>
  BY Palabras
<1>3. s[1] = 500
  BY <1>2
<1>4. instruccion = "READ"
  BY DEF Emite
<1>5. s = ResultadoDe(qActual[w], linea[w]) \/ s = Paquete(OP_RESP_READ_ERR, <<>>)
  BY <1>4 DEF Emite, ResultadoDe
<1>6. CASE s = ResultadoDe(qActual[w], linea[w])
  <2>1. PICK d, t : s = <<1020, 24, 4, t, 4, 4, 4, d>>
    BY <1>1, <1>6, Palabras
  <2>2. s[1] = 1020
    BY <2>1
  <2> QED BY <1>3, <2>2
<1>7. CASE s = Paquete(OP_RESP_READ_ERR, <<>>)
  <2>1. s = <<1021, 0>>
    BY <1>7, PalabrasError
  <2>2. s[1] = 1021
    BY <2>1
  <2> QED BY <1>3, <2>2
<1> QED BY <1>5, <1>6, <1>7

\* What a line sends: after its END nothing else of the query can come, and its
\* path was read, so the end is alone on the way.
LEMMA EmiteFin ==
  ASSUME InvTipos, QidsBajos, InvMisma, NEW w \in Workers, fase[w] = "ejecuta",
         NEW s \in Emite(w, guion[qActual[w]][linea[w]]), AlMaster(w, s),
         NEW q \in Queries, q = qActual[w]
  PROVE  /\ UnFin(aMaster'[w])
         /\ \/ Fines(aMaster'[w]) \subseteq Fines(aMaster[w])
            \/ /\ guion[q][linea[w]] = "END" /\ Fines(aMaster'[w]) \subseteq {q}
               /\ w \in conectados => ejecutando[w] = q /\ Pend(aWorker[w]) = {}
<1>1. /\ aMaster \in [Workers -> Seq(Nat)] /\ UnFin(aMaster[w])
      /\ linea[w] \in 1..Len(guion[q]) /\ linea[w] \in Nat
  BY DEF InvTipos, TiposCorrientes, TiposWorker, Ejecucion, InvMisma, Corriente
<1>2. CASE aMaster' = aMaster
  BY <1>1, <1>2
<1>3. CASE aMaster' # aMaster
  <2>1. w \notin cortado /\ s # <<>> /\ aMaster' = [aMaster EXCEPT ![w] = aMaster[w] \o s]
    <3>1. aMaster[w] \o <<>> = aMaster[w]
      BY <1>1
    <3> QED BY <1>1, <1>3, <3>1 DEF AlMaster
  <2>2. w \in conectados /\ Conocida(w)
    BY <2>1 DEF InvMisma, Arranque
  <2>3. CASE guion[q][linea[w]] # "END"
    <3>1. s \in DelWorker /\ \A r \in Queries : s # FinDe(r)
      <4>1. s \in DelWorker
        BY <2>1, EmiteEs
      <4> QED BY <2>1, <2>3, <4>1, EmiteSinFin
    <3>2. s \in Seq(Nat) /\ \A j \in 1..Len(s) : s[j] # OP_FIN_QUERY
      BY <3>1, SinFin
    <3>3. /\ UnFin(aMaster[w] \o s)
          /\ Fines(aMaster[w] \o s) \subseteq Fines(aMaster[w])
      BY <1>1, <3>2, FinesMas
    <3> QED BY <1>1, <2>1, <3>3
  <2>4. CASE guion[q][linea[w]] = "END"
    <3>1. s = FinDe(q)
      BY <2>4 DEF Emite, FinDe
    <3>2. QuedaEnd(w)
      BY <1>1, <2>4 DEF QuedaEnd
    <3>3. ejecutando[w] = q
      BY <2>2, <3>2 DEF Conocida
    <3>4. Fines(aMaster[w]) = {} /\ Pend(aWorker[w]) = {}
      <4>1. Fines(aMaster[w]) = {}
        BY <2>2, <3>2 DEF Conocida
      <4>2. q \notin Pend(aWorker[w])
        BY DEF InvMisma, UnSolo
      <4> QED BY <2>2, <3>3, <4>1, <4>2 DEF Conocida
    <3>5. q < OP_FIN_QUERY
      BY QueriesNat DEF QidsBajos, OP_DESALOJAR_QUERY, OP_FIN_QUERY
    <3>6. UnFin(aMaster[w] \o FinDe(q)) /\ Fines(aMaster[w] \o FinDe(q)) \subseteq {q}
      BY <1>1, <3>4, <3>5, FinesFin
    <3> QED BY <1>1, <2>1, <2>4, <3>1, <3>3, <3>4, <3>6
  <2> QED BY <2>3, <2>4
<1> QED BY <1>2, <1>3

\* ciclo_instruccion: the OP_FIN_QUERY of the last END is on its way.
LEMMA MismaCiclo ==
  ASSUME InvTipos, QidsBajos, UnSoloEnd, InvMisma, NEW w \in Workers, ciclo_instruccion(w)
  PROVE  InvMisma'
<1>1. fase[w] = "ejecuta" /\ ~desalojado[w] /\ ~query_cancelada[w]
  BY DEF InvTipos, InvBanderas, OrdenViejaNoAlcanza, ciclo_instruccion
<1>2. PICK s \in Emite(w, guion[qActual[w]][linea[w]]) : AlMaster(w, s)
  BY <1>1 DEF ciclo_instruccion
<1>3. PICK q \in Queries : q = qActual[w]
  BY <1>1 DEF InvTipos, TiposWorker, Ejecucion
<1>4. /\ UnFin(aMaster'[w])
      /\ \/ Fines(aMaster'[w]) \subseteq Fines(aMaster[w])
         \/ /\ guion[q][linea[w]] = "END" /\ Fines(aMaster'[w]) \subseteq {q}
            /\ w \in conectados => ejecutando[w] = q /\ Pend(aWorker[w]) = {}
  BY <1>1, <1>2, <1>3, EmiteFin
<1>5. /\ fase \in [Workers -> PasosWorker] /\ conectados \subseteq Workers
      /\ qActual \in [Workers -> Queries \cup {Nadie}] /\ linea \in [Workers -> Nat]
      /\ aMaster \in [Workers -> Seq(Nat)]
  BY DEF InvTipos, TiposWorker, TiposMaster, TiposCorrientes
<1>6. PICK L \in Nat : L = Len(guion[q]) /\ linea[w] \in 1..L /\ guion \in Guiones
  <2>1. linea[w] \in 1..Len(guion[q]) /\ guion \in Guiones
    BY <1>1, <1>3 DEF InvTipos, TiposWorker, Ejecucion, TiposMaster
  <2>2. guion[q] \in Seq(Lineas)
    BY <2>1, SupuestosSesion
  <2> QED BY <2>1, <2>2
<1>7. /\ UNCHANGED <<guion, cola, conectados, ejecutando, qPlan, wPlan, aWorker, qc, cortado>>
      /\ fase' = [fase EXCEPT ![w] = IF linea[w] = L THEN "escucha" ELSE @]
      /\ qActual' = [qActual EXCEPT ![w] = IF linea[w] = L THEN Nadie ELSE @]
      /\ linea' = [linea EXCEPT ![w] = IF linea[w] = L THEN 0 ELSE @ + 1]
  BY <1>1, <1>3, <1>6 DEF ciclo_instruccion, varsMaster, varsCliente, varsPlan
<1>8. \A v \in Workers \ {w} : aMaster'[v] = aMaster[v]
  BY <1>2, <1>5 DEF AlMaster
<1>9. ASSUME NEW v \in Workers PROVE Corriente(v)' /\ Arranque(v)'
  <2>1. CASE v = w
    BY <1>1, <1>4, <1>5, <1>7, <2>1 DEF InvMisma, Corriente, Arranque
  <2>2. CASE v # w
    BY <1>5, <1>7, <1>8, <2>2 DEF InvMisma, Corriente, Arranque
  <2> QED BY <2>1, <2>2
<1>13. fase'[w] = "ejecuta" => /\ qActual'[w] = q /\ linea'[w] = linea[w] + 1
  BY <1>3, <1>5, <1>7
<1>14. fase'[w] = "ejecuta" /\ QuedaEnd(w)' => QuedaEnd(w) /\ guion[q][linea[w]] # "END"
  <2> SUFFICES ASSUME fase'[w] = "ejecuta", QuedaEnd(w)'
               PROVE  QuedaEnd(w) /\ guion[q][linea[w]] # "END"
    OBVIOUS
  <2>1. PICK n \in (linea[w] + 1)..L : guion[q][n] = "END"
    BY <1>6, <1>7, <1>13 DEF QuedaEnd
  <2>2. n \in linea[w]..L /\ n \in 1..L /\ n # linea[w]
    BY <1>6, <2>1
  <2>3. guion[q][linea[w]] # "END"
    BY <1>6, <2>1, <2>2 DEF UnSoloEnd
  <2>4. QuedaEnd(w)
    BY <1>3, <1>6, <2>1, <2>2 DEF QuedaEnd
  <2> QED BY <2>3, <2>4
<1>10. ASSUME NEW v \in conectados PROVE Conocida(v)'
  <2>1. CASE v # w
    <3>1. /\ v \in Workers /\ Conocida(v) /\ fase'[v] = fase[v] /\ aMaster'[v] = aMaster[v]
          /\ qActual'[v] = qActual[v] /\ linea'[v] = linea[v]
      BY <1>5, <1>7, <1>8, <1>10, <2>1 DEF InvMisma
    <3>2. QuedaEnd(v)' <=> QuedaEnd(v)
      BY <1>7, <3>1 DEF QuedaEnd
    <3> QED BY <1>7, <3>1, <3>2 DEF Conocida
  <2>2. CASE v = w
    <3>1. Conocida(w) /\ w \in conectados
      BY <1>10, <2>2 DEF InvMisma
    <3>4. CASE Fines(aMaster'[w]) \subseteq Fines(aMaster[w])
      BY <1>1, <1>3, <1>7, <2>2, <1>13, <1>14, <3>1, <3>4 DEF Conocida
    <3>5. CASE guion[q][linea[w]] = "END" /\ Fines(aMaster'[w]) \subseteq {q}
               /\ ejecutando[w] = q /\ Pend(aWorker[w]) = {}
      BY <1>7, <1>14, <2>2, <3>5 DEF Conocida
    <3> QED BY <1>4, <3>1, <3>4, <3>5
  <2> QED BY <2>1, <2>2
<1>11. ASSUME NEW v \in Workers, NEW p \in Queries
       PROVE  /\ Tiene(v, p)' => Tiene(v, p)
              /\ ~(qActual[v] = p /\ p \in Pend(aWorker[v]))'
  <2>1. qActual'[v] = qActual[v] \/ qActual'[v] = Nadie
    BY <1>5, <1>7
  <2> QED BY <1>7, <2>1, QueriesNat DEF Tiene, InvMisma, UnSolo
<1>12. UnSolo' /\ Espera'
  BY <1>7, <1>11, TieneMenos
<1>15. ASSUME NEW v \in Workers, v = wPlan PROVE Apartado(v)'
  <2>1. Apartado(v)
    BY <1>15 DEF InvMisma
  <2>2. CASE v # w
    <3>1. /\ fase'[v] = fase[v] /\ aMaster'[v] = aMaster[v]
          /\ qActual'[v] = qActual[v] /\ linea'[v] = linea[v]
      BY <1>5, <1>7, <1>8, <2>2
    <3>2. QuedaEnd(v)' <=> QuedaEnd(v)
      BY <1>7, <3>1 DEF QuedaEnd
    <3> QED BY <1>7, <2>1, <3>1, <3>2 DEF Apartado
  <2>3. CASE v = w
    <3>1. fase'[w] # "arranque"
      BY <1>1, <1>5, <1>7
    <3>2. CASE w \notin conectados
      BY <1>7, <2>1, <2>3, <3>1, <3>2 DEF Apartado
    <3>3. CASE w \in conectados
      <4>1. ~QuedaEnd(w) /\ Fines(aMaster[w]) = {}
        BY <1>1, <2>1, <2>3, <3>3 DEF Apartado
      <4>2. guion[q][linea[w]] # "END"
        <5>1. linea[w] \in linea[w]..L
          BY <1>6
        <5> QED BY <1>3, <1>6, <4>1, <5>1 DEF QuedaEnd
      <4>3. Fines(aMaster'[w]) = {}
        BY <1>4, <4>1, <4>2
      <4>4. ~(fase'[w] = "ejecuta" /\ QuedaEnd(w)')
        BY <1>14, <4>1
      <4> QED BY <1>7, <2>1, <2>3, <3>1, <3>3, <4>3, <4>4 DEF Apartado
    <3> QED BY <3>2, <3>3
  <2> QED BY <2>2, <2>3
<1> QED BY <1>7, <1>9, <1>10, <1>12, <1>15 DEF InvMisma

InvSesion == InvTipos /\ InvMisma

\* InvSesion is inductive: one step per action.
LEMMA MismaPaso == InvSesion /\ QidsBajos /\ UnSoloEnd /\ [Next]_vars => InvSesion'
<1> SUFFICES ASSUME InvSesion, QidsBajos, UnSoloEnd, [Next]_vars PROVE InvSesion'
  OBVIOUS
<1>1. InvTipos'
  BY TiposPaso DEF InvSesion
<1>2. CASE UNCHANGED vars
  BY <1>1, <1>2, MismaQuieto DEF InvSesion, vars, varsWorker, varsCliente
<1>3. ASSUME NEW w \in Workers,
             \/ ArrancarWorker(w) \/ PasoStorage(w) \/ ConectarMaster(w) \/ Morir(w)
             \/ AtenderWorker(w) \/ PasoWorker(w)
      PROVE  InvMisma'
  <2>1. CASE ArrancarWorker(w) \/ PasoStorage(w) \/ ConectarMaster(w)
    BY <2>1, MismaStorage, MismaConectar DEF InvSesion
  <2>2. CASE Morir(w) \/ RecibirCierre(w)
    <3>1. Salir(w)
      BY <2>2 DEF Morir, RecibirCierre
    <3> QED BY <3>1, MismaSalir DEF InvSesion
  <2>3. CASE AtenderWorker(w)
    BY <2>3, MismaLectura, MismaFin, MismaDesconexion DEF InvSesion, AtenderWorker
  <2>4. CASE RecibirQuery(w)
    BY <2>4, MismaRecibirQuery DEF InvSesion
  <2>5. CASE RecibirOrden(w) \/ RecibirInesperado(w)
    BY <2>5, MismaOrden DEF InvSesion
  <2>6. CASE ciclo_instruccion(w)
    BY <2>6, MismaCiclo DEF InvSesion
  <2> QED BY <1>3, <2>1, <2>2, <2>3, <2>4, <2>5, <2>6 DEF PasoWorker
<1>4. ASSUME NEW q \in Queries, LlegaQuery(q) \/ PasoHiloQ(q) \/ LeerQC(q)
      PROVE  InvMisma'
  BY <1>4, MismaLlega, MismaHiloQ, MismaLeerQC DEF InvSesion
<1>5. CASE planificador_fifo
  <2>1. CASE \E w \in Workers : Asignar(w)
    BY <1>1, <2>1, MismaAsignar DEF InvSesion
  <2>2. CASE EnviarPath \/ EnvioFallido
    BY <1>1, <2>2, MismaEnviar, MismaFallido DEF InvSesion
  <2> QED BY <1>5, <2>1, <2>2 DEF planificador_fifo
<1> QED BY <1>1, <1>2, <1>3, <1>4, <1>5 DEF Next, InvSesion

\* InvSesion says what MismaQuery does.
LEMMA MismaDice == InvSesion => MismaQuery
<1> SUFFICES ASSUME InvSesion, NEW w \in Workers, fase[w] = "ejecuta"
             PROVE  /\ w \in conectados /\ QuedaEnd(w) => ejecutando[w] = qActual[w]
                    /\ \A v \in Workers \ {w} : qActual[v] # qActual[w]
  BY DEF MismaQuery, QuedaEnd
<1>1. qActual[w] \in Queries
  BY DEF InvSesion, InvTipos, TiposWorker, Ejecucion
<1>2. \A v \in Workers \ {w} : qActual[v] # qActual[w]
  BY <1>1 DEF InvSesion, InvMisma, UnSolo, Tiene
<1>3. w \in conectados /\ QuedaEnd(w) => ejecutando[w] = qActual[w]
  BY DEF InvSesion, InvMisma, Conocida
<1> QED BY <1>2, <1>3

\* MismaQuery: from the turn of the planner that gives a query to a Worker
\* (master_planificacion.c:204) and its start there (worker.c:219) until its END
\* is heeded (master.c:482), the Master and the Worker agree on the query that
\* runs; and no query runs on two Workers.
THEOREM UnaQueryPorWorker ==
  ASSUME QidsBajos, UnSoloEnd PROVE Spec => []MismaQuery
<1>1. Init => InvSesion
  BY TiposInit, MismaInit DEF InvSesion
<1>2. InvSesion /\ [Next]_vars => InvSesion'
  BY MismaPaso
<1> QED BY <1>1, <1>2, MismaDice, PTL DEF Spec

-----------------------------------------------------------------------------
(***************************************************************************)
(* The code implements Servicio.                                           *)
(***************************************************************************)
\* What a script reads, line by line.
LEMMA LineasHasta ==
  ASSUME NEW q \in Queries, guion \in Guiones
  PROVE  /\ guion[q] \in Seq(Lineas) /\ Len(guion[q]) \in Nat /\ Len(guion[q]) >= 1
         /\ DOMAIN guion[q] = 1..Len(guion[q])
<1>1. guion[q] \in Seq(Lineas) \ {<<>>}
  BY SupuestosSesion
<1> QED BY <1>1

\* The READs up to a line are a natural number, as many as those before and
\* one more at a READ.
LEMMA LeidasEs ==
  ASSUME NEW q \in Queries, guion \in Guiones, NEW n \in Nat
  PROVE  /\ Leidas(q, n) \in Nat
         /\ Leidas(q, n + 1) = IF guion[q][n + 1] = "READ" THEN Leidas(q, n) + 1
                               ELSE Leidas(q, n)
         /\ \A k \in Nat : k =< n => Leidas(q, k) =< Leidas(q, n)
         /\ n = 0 => Leidas(q, n) = 0
<1> DEFINE A(k) == {m \in 1..k : guion[q][m] = "READ"}
<1>1. ASSUME NEW k \in Nat PROVE IsFiniteSet(A(k)) /\ Cardinality(A(k)) \in Nat
  <2>1. IsFiniteSet(1..k)
    BY FS_Interval
  <2>2. A(k) \subseteq 1..k
    OBVIOUS
  <2>3. IsFiniteSet(A(k))
    BY <2>1, <2>2, FS_Subset
  <2> QED BY <2>3, FS_CardinalityType
<1>2. \A k \in Nat : Leidas(q, k) = Cardinality(A(k))
  BY DEF Leidas
<1>3. ASSUME NEW k \in Nat, k =< n PROVE Cardinality(A(k)) =< Cardinality(A(n))
  <2>1. A(k) \subseteq A(n)
    BY <1>3
  <2> QED BY <1>1, <2>1, FS_Subset
<1>4. CASE guion[q][n + 1] = "READ"
  <2>1. A(n + 1) = A(n) \cup {n + 1}
    BY <1>4
  <2>2. n + 1 \notin A(n)
    OBVIOUS
  <2>3. Cardinality(A(n + 1)) = Cardinality(A(n)) + 1
    BY <1>1, <2>1, <2>2, FS_AddElement
  <2>4. n + 1 \in Nat
    OBVIOUS
  <2>5. n = 0 => A(n) = {}
    OBVIOUS
  <2>6. n = 0 => Cardinality(A(n)) = 0
    BY <2>5, FS_EmptySet
  <2> HIDE DEF A
  <2> QED BY <1>1, <1>2, <1>3, <1>4, <2>3, <2>4, <2>6
<1>5. CASE guion[q][n + 1] # "READ"
  <2>1. A(n + 1) = A(n)
    BY <1>5
  <2>2. n + 1 \in Nat
    OBVIOUS
  <2>3. n = 0 => A(n) = {}
    OBVIOUS
  <2>4. n = 0 => Cardinality(A(n)) = 0
    BY <2>3, FS_EmptySet
  <2> HIDE DEF A
  <2> QED BY <1>1, <1>2, <1>3, <1>5, <2>1, <2>2, <2>4
<1> QED BY <1>4, <1>5

Total(q) == Leidas(q, Len(guion[q]))

\* The READ of line n is as many reads from the first as READs come before it.
LEMMA LecturaDeLinea ==
  ASSUME NEW q \in Queries, guion \in Guiones, NEW n \in 1..Len(guion[q]),
         guion[q][n] = "READ"
  PROVE  /\ Leidas(q, n - 1) \in Nat /\ Leidas(q, n) = Leidas(q, n - 1) + 1
         /\ Leidas(q, n - 1) < Total(q)
         /\ LecturasDe(q)[Leidas(q, n - 1) + 1] = Dato(q, n)
<1>1. PICK L \in Nat : L = Len(guion[q]) /\ n \in 1..L /\ DOMAIN guion[q] = 1..L
  BY LineasHasta
<1>2. PICK p \in Nat : p = n - 1 /\ p + 1 = n
  BY <1>1
<1>3. Leidas(q, p) \in Nat /\ Leidas(q, n) = Leidas(q, p) + 1
  <2>1. /\ Leidas(q, p) \in Nat
        /\ Leidas(q, p + 1) = IF guion[q][p + 1] = "READ" THEN Leidas(q, p) + 1
                              ELSE Leidas(q, p)
    BY LeidasEs
  <2> QED BY <1>2, <2>1
<1>4. Leidas(q, L) \in Nat /\ Leidas(q, n) =< Leidas(q, L) /\ Total(q) = Leidas(q, L)
  <2>1. n \in Nat /\ n =< L
    BY <1>1
  <2>2. Leidas(q, L) \in Nat /\ \A k \in Nat : k =< L => Leidas(q, k) =< Leidas(q, L)
    BY LeidasEs
  <2> QED BY <1>1, <2>1, <2>2 DEF Total
<1>5. PICK i \in 1..Leidas(q, L) : i = Leidas(q, p) + 1
  BY <1>3, <1>4
<1>6. {m \in 1..L : Leidas(q, m) < i} = 1..p
  <2>1. ASSUME NEW m \in 1..L, m =< p PROVE Leidas(q, m) < i
    <3>1. Leidas(q, m) =< Leidas(q, p) /\ Leidas(q, m) \in Nat
      BY <2>1, LeidasEs
    <3> QED BY <1>3, <1>5, <3>1
  <2>2. ASSUME NEW m \in 1..L, m > p PROVE ~(Leidas(q, m) < i)
    <3>1. n =< m /\ n \in Nat /\ m \in Nat
      BY <1>2, <2>2
    <3>2. Leidas(q, n) =< Leidas(q, m) /\ Leidas(q, m) \in Nat
      BY <3>1, LeidasEs
    <3> QED BY <1>3, <1>5, <3>2
  <2>3. 1..p \subseteq 1..L
    BY <1>1, <1>2
  <2> QED BY <2>1, <2>2, <2>3
<1>7. Cardinality(1..p) = p
  <2>1. Cardinality(1..p) = IF 1 > p THEN 0 ELSE p - 1 + 1
    BY FS_Interval
  <2> QED BY <2>1
<1>8. LecturasDe(q)[i] = Dato(q, 1 + p)
  <2>1. LecturasDe(q)[i] = Dato(q, 1 + Cardinality({m \in 1..L : Leidas(q, m) < i}))
    BY <1>1, <1>5 DEF LecturasDe
  <2> QED BY <1>6, <1>7, <2>1
<1>9. 1 + p = n
  BY <1>2
<1>10. Leidas(q, p) < Total(q)
  BY <1>3, <1>4
<1> QED BY <1>2, <1>3, <1>5, <1>8, <1>9, <1>10

\* What a script reads is a sequence of texts, one for each READ.
LEMMA LecturasEs ==
  ASSUME NEW q \in Queries, guion \in Guiones
  PROVE  LecturasDe(q) \in Seq(Nat) /\ Len(LecturasDe(q)) = Total(q) /\ Total(q) \in Nat
<1>1. PICK L \in Nat : L = Len(guion[q]) /\ DOMAIN guion[q] = 1..L
  BY LineasHasta
<1>2. PICK t \in Nat : t = Total(q) /\ t = Leidas(q, L)
  BY <1>1, LeidasEs DEF Total
<1>3. ASSUME NEW i \in 1..t
      PROVE  Dato(q, 1 + Cardinality({n \in 1..L : Leidas(q, n) < i})) \in Nat
  <2>1. IsFiniteSet(1..L) /\ {n \in 1..L : Leidas(q, n) < i} \subseteq 1..L
    BY FS_Interval
  <2>2. IsFiniteSet({n \in 1..L : Leidas(q, n) < i})
    BY <2>1, FS_Subset
  <2>3. PICK c \in Nat : c = Cardinality({n \in 1..L : Leidas(q, n) < i})
    BY <2>2, FS_CardinalityType
  <2>4. 1 + c \in Nat
    OBVIOUS
  <2>5. Dato(q, 1 + c) \in Nat
    BY <2>4, DatoNat
  <2> QED BY <2>3, <2>5
<1>4. LecturasDe(q) =
        [i \in 1..t |-> Dato(q, 1 + Cardinality({n \in 1..L : Leidas(q, n) < i}))]
  BY <1>1, <1>2 DEF LecturasDe
<1>5. PICK f : f = LecturasDe(q)
  OBVIOUS
<1>6. DOMAIN f = 1..t /\ \A i \in 1..t : f[i] \in Nat
  BY <1>3, <1>4, <1>5
<1>7. f = [i \in 1..t |-> f[i]]
  BY <1>4, <1>5
<1>8. f \in Seq(Nat) /\ Len(f) = t
  BY <1>6, <1>7
<1> QED BY <1>2, <1>5, <1>8

\* A line that is no READ adds nothing to what the script read.
LEMMA TrasElEnd ==
  ASSUME NEW q \in Queries, guion \in Guiones, NEW n \in 1..Len(guion[q]),
         guion[q][n] # "READ"
  PROVE  Leidas(q, n - 1) \in Nat /\ Leidas(q, n) = Leidas(q, n - 1)
<1>1. PICK p \in Nat : p = n - 1 /\ p + 1 = n
  BY LineasHasta
<1>2. /\ Leidas(q, p) \in Nat
      /\ Leidas(q, p + 1) = IF guion[q][p + 1] = "READ" THEN Leidas(q, p) + 1
                            ELSE Leidas(q, p)
  BY LeidasEs
<1> QED BY <1>1, <1>2

\* What a Worker has sent of a script that reads L: K[i] of its results come
\* before the word i of the stream, up to an OP_RESP_READ_ERR.  The Master took
\* r of them and the Worker has sent k.
Cuenta(s, K, L, i) ==
  /\ K[i] \in Nat
  /\ \/ i = Len(s) + 1
     \/ /\ s[i] = OP_RESP_READ_OK /\ i + 8 \in DOMAIN K /\ K[i + 8] = K[i] + 1
        /\ K[i] < Len(L) /\ s[i + 7] = L[K[i] + 1]
     \/ s[i] = OP_FIN_QUERY /\ i + 4 = Len(s) + 1 /\ K[i] = Len(L)
     \/ s[i] = OP_RESP_READ_ERR
Avance(s, K, L) ==
  DOMAIN K \subseteq 1..(Len(s) + 1) /\ \A i \in DOMAIN K : Cuenta(s, K, L, i)
Relato(s, L, r, k) ==
  \/ s # <<>> /\ s[1] = 0
  \/ \E K : /\ Avance(s, K, L) /\ 1 \in DOMAIN K /\ K[1] = r
            /\ Len(s) + 1 \in DOMAIN K => K[Len(s) + 1] = k

\* A Worker that has sent nothing and of which nothing was taken.
LEMMA RelatoVacio ==
  ASSUME NEW L \in Seq(Nat), NEW r \in Nat
  PROVE  Relato(<<>>, L, r, r)
<1>1. PICK K : K = [i \in {1} |-> r]
  OBVIOUS
<1>2. DOMAIN K = {1} /\ K[1] = r
  BY <1>1
<1>3. Len(<<>>) + 1 = 1
  OBVIOUS
<1>4. Avance(<<>>, K, L)
  BY <1>2, <1>3 DEF Avance, Cuenta
<1> QED BY <1>2, <1>3, <1>4 DEF Relato

\* The Master takes the next result.
LEMMA RelatoLectura ==
  ASSUME NEW s \in Seq(Nat), Len(s) > 7, s[1] = OP_RESP_READ_OK, NEW L \in Seq(Nat),
         NEW r \in Nat, NEW k, Relato(s, L, r, k)
  PROVE  r < Len(L) /\ s[8] = L[r + 1] /\ Relato(Queda(s, 8), L, r + 1, k)
<1>1. s[1] # 0
  BY DEF OP_RESP_READ_OK
<1>2. PICK K : /\ Avance(s, K, L) /\ 1 \in DOMAIN K /\ K[1] = r
               /\ Len(s) + 1 \in DOMAIN K => K[Len(s) + 1] = k
  BY <1>1 DEF Relato
<1>3. /\ 9 \in DOMAIN K /\ K[9] = r + 1 /\ r < Len(L) /\ s[8] = L[r + 1]
  <2>1. PICK i \in DOMAIN K : i = 1
    BY <1>2
  <2>2. i # Len(s) + 1 /\ s[i] # OP_FIN_QUERY /\ s[i] # OP_RESP_READ_ERR
    BY <2>1 DEF OP_FIN_QUERY, OP_RESP_READ_ERR, OP_RESP_READ_OK
  <2>3. /\ i + 8 \in DOMAIN K /\ K[i + 8] = K[i] + 1
        /\ K[i] < Len(L) /\ s[i + 7] = L[K[i] + 1]
    BY <1>2, <2>2 DEF Avance, Cuenta
  <2>4. i + 8 = 9 /\ i + 7 = 8
    BY <2>1
  <2> QED BY <1>2, <2>1, <2>3, <2>4
<1>4. PICK t \in Seq(Nat) : /\ t = Queda(s, 8) /\ Len(t) = Len(s) - 8
                            /\ \A i \in 1..(Len(s) - 8) : t[i] = s[i + 8]
  <2>1. 8 \in Nat /\ 8 =< Len(s)
    OBVIOUS
  <2> QED BY <2>1, QuedaEs
<1>5. PICK n \in Nat : n = Len(t) /\ Len(s) = n + 8
  BY <1>4
<1>6. PICK D : D = {i \in 1..(n + 1) : i + 8 \in DOMAIN K}
  OBVIOUS
<1>7. PICK J : J = [i \in D |-> K[i + 8]]
  OBVIOUS
<1>8. DOMAIN J = D /\ \A i \in D : J[i] = K[i + 8]
  BY <1>7
<1>9. 1 \in D /\ J[1] = r + 1
  <2>1. 1 \in 1..(n + 1) /\ 1 + 8 = 9
    OBVIOUS
  <2>2. 1 \in D
    BY <1>3, <1>6, <2>1
  <2> QED BY <1>3, <1>8, <2>1, <2>2
<1>10. ASSUME NEW i \in D
       PROVE  Cuenta(t, J, L, i)
  <2>1. PICK m \in DOMAIN K : m = i + 8 /\ i \in 1..(n + 1)
    BY <1>6
  <2>2. /\ K[m] \in Nat
        /\ \/ m = Len(s) + 1
           \/ /\ s[m] = OP_RESP_READ_OK /\ m + 8 \in DOMAIN K /\ K[m + 8] = K[m] + 1
              /\ K[m] < Len(L) /\ s[m + 7] = L[K[m] + 1]
           \/ s[m] = OP_FIN_QUERY /\ m + 4 = Len(s) + 1 /\ K[m] = Len(L)
           \/ s[m] = OP_RESP_READ_ERR
    BY <1>2 DEF Avance, Cuenta
  <2>3. J[i] = K[m]
    BY <1>8, <2>1
  <2>4. CASE i = n + 1
    BY <1>5, <2>2, <2>3, <2>4 DEF Cuenta
  <2>5. CASE i # n + 1
    <3>1. i \in 1..n /\ m # Len(s) + 1
      BY <1>5, <2>1, <2>5
    <3>2. t[i] = s[m]
      BY <1>4, <1>5, <2>1, <3>1
    <3>3. CASE s[m] = OP_FIN_QUERY /\ m + 4 = Len(s) + 1 /\ K[m] = Len(L)
      <4>1. i + 4 = n + 1
        BY <1>5, <2>1, <3>3
      <4> QED BY <1>5, <2>2, <2>3, <3>2, <3>3, <4>1 DEF Cuenta
    <3>4. CASE s[m] = OP_RESP_READ_ERR
      BY <2>2, <2>3, <3>2, <3>4 DEF Cuenta
    <3>5. CASE /\ s[m] = OP_RESP_READ_OK /\ m + 8 \in DOMAIN K /\ K[m + 8] = K[m] + 1
               /\ K[m] < Len(L) /\ s[m + 7] = L[K[m] + 1]
      <4>1. PICK e \in DOMAIN K : e = m + 8 /\ e =< Len(s) + 1 /\ e \in Nat
        BY <1>2, <3>5 DEF Avance
      <4>2. i + 8 \in 1..(n + 1) /\ (i + 8) + 8 = m + 8
        BY <1>5, <2>1, <4>1
      <4>3. i + 8 \in D
        BY <1>6, <3>5, <4>2
      <4>4. J[i + 8] = K[m + 8]
        BY <1>8, <4>2, <4>3
      <4>5. i + 7 \in 1..n /\ (i + 7) + 8 = m + 7
        BY <1>5, <2>1, <4>1
      <4>6. t[i + 7] = s[m + 7]
        BY <1>4, <1>5, <4>5
      <4> QED BY <1>8, <2>2, <2>3, <3>2, <3>5, <4>3, <4>4, <4>6 DEF Cuenta
    <3> QED BY <2>2, <3>1, <3>3, <3>4, <3>5
  <2> QED BY <2>4, <2>5
<1>11. Avance(t, J, L)
  <2>1. D \subseteq 1..(Len(t) + 1)
    BY <1>5, <1>6
  <2> QED BY <1>8, <1>10, <2>1 DEF Avance
<1>12. Len(t) + 1 \in D => J[Len(t) + 1] = k
  <2> SUFFICES ASSUME n + 1 \in D PROVE J[n + 1] = k
    BY <1>5
  <2>1. (n + 1) + 8 = Len(s) + 1
    BY <1>5
  <2> QED BY <1>2, <1>6, <1>8, <2>1
<1>13. Relato(t, L, r + 1, k)
  BY <1>5, <1>8, <1>9, <1>11, <1>12 DEF Relato
<1> QED BY <1>3, <1>4, <1>13

\* The end comes behind every result, and nothing behind it.
LEMMA RelatoFin ==
  ASSUME NEW s \in Seq(Nat), Len(s) > 3, s[1] = OP_FIN_QUERY, NEW L \in Seq(Nat),
         NEW r \in Nat, NEW k, Relato(s, L, r, k)
  PROVE  r = Len(L) /\ Queda(s, 4) = <<>>
<1>1. s[1] # 0
  BY DEF OP_FIN_QUERY
<1>2. PICK K : Avance(s, K, L) /\ 1 \in DOMAIN K /\ K[1] = r
  BY <1>1 DEF Relato
<1>3. PICK i \in DOMAIN K : i = 1
  BY <1>2
<1>4. i # Len(s) + 1 /\ s[i] # OP_RESP_READ_OK /\ s[i] # OP_RESP_READ_ERR
  BY <1>3 DEF OP_FIN_QUERY, OP_RESP_READ_ERR, OP_RESP_READ_OK
<1>5. i + 4 = Len(s) + 1 /\ K[i] = Len(L)
  <2>1. Cuenta(s, K, L, i)
    BY <1>2 DEF Avance
  <2> QED BY <1>4, <2>1 DEF Cuenta
<1>6. Len(s) = 4 /\ r = Len(L)
  <2>1. PICK n \in Nat : n = Len(s)
    OBVIOUS
  <2>2. 1 + 4 = n + 1
    BY <1>3, <1>5, <2>1
  <2>3. n = 4
    BY <2>2
  <2> QED BY <1>2, <1>3, <1>5, <2>1, <2>3
<1>7. Queda(s, 4) \in Seq(Nat) /\ Len(Queda(s, 4)) = 0
  <2>1. 4 \in Nat /\ 4 =< Len(s)
    BY <1>6
  <2>2. Queda(s, 4) \in Seq(Nat) /\ Len(Queda(s, 4)) = Len(s) - 4
    BY <2>1, QuedaEs
  <2> QED BY <1>6, <2>2
<1>8. Queda(s, 4) = <<>>
  BY <1>7
<1> QED BY <1>6, <1>8

\* No end of a query is on the way.
Abierto(s) == \A i \in 1..Len(s) : s[i] # OP_FIN_QUERY

\* What the next line may send after k results, which are j with it.
Sigue(p, L, k, j) ==
  /\ Len(p) >= 1
  /\ \/ /\ p[1] = OP_RESP_READ_OK /\ Len(p) = 8 /\ p[8] = L[k + 1]
        /\ k < Len(L) /\ j = k + 1
     \/ p[1] = OP_FIN_QUERY /\ Len(p) = 4 /\ k = Len(L)
     \/ p[1] = OP_RESP_READ_ERR

\* Behind its words the Worker sends the next result, its failure or the end.
LEMMA RelatoMas ==
  ASSUME NEW s \in Seq(Nat), NEW p \in Seq(Nat), NEW L \in Seq(Nat),
         Abierto(s), NEW r \in Nat, NEW k \in Nat, NEW j \in Nat, Relato(s, L, r, k),
         Sigue(p, L, k, j)
  PROVE  Relato(s \o p, L, r, j)
<1>0. /\ Len(p) >= 1
      /\ \/ /\ p[1] = OP_RESP_READ_OK /\ Len(p) = 8 /\ p[8] = L[k + 1]
            /\ k < Len(L) /\ j = k + 1
         \/ p[1] = OP_FIN_QUERY /\ Len(p) = 4 /\ k = Len(L)
         \/ p[1] = OP_RESP_READ_ERR
  BY DEF Sigue
<1>1. PICK t \in Seq(Nat) :
         /\ t = s \o p /\ Len(t) = Len(s) + Len(p) /\ Len(s) \in Nat /\ Len(p) \in Nat
         /\ \A i \in 1..Len(s) : t[i] = s[i]
         /\ \A i \in 1..Len(p) : t[Len(s) + i] = p[i]
  <2>1. /\ s \o p \in Seq(Nat) /\ Len(s \o p) = Len(s) + Len(p)
        /\ Len(s) \in Nat /\ Len(p) \in Nat
        /\ \A i \in 1..Len(s) : (s \o p)[i] = s[i]
        /\ \A i \in 1..Len(p) : (s \o p)[Len(s) + i] = p[i]
    BY Pegadas
  <2> QED BY <2>1
<1>2. CASE s # <<>> /\ s[1] = 0
  <2>1. 1 \in 1..Len(s) /\ t # <<>>
    BY <1>1, <1>2
  <2>2. t[1] = 0
    BY <1>1, <1>2, <2>1
  <2> QED BY <1>1, <2>1, <2>2 DEF Relato
<1>3. CASE ~(s # <<>> /\ s[1] = 0)
  <2>1. PICK K : /\ Avance(s, K, L) /\ 1 \in DOMAIN K /\ K[1] = r
                 /\ Len(s) + 1 \in DOMAIN K => K[Len(s) + 1] = k
    BY <1>3 DEF Relato
  <2>2. PICK n \in Nat : n = Len(s) /\ DOMAIN K \subseteq 1..(n + 1)
    BY <1>1, <2>1 DEF Avance
  <2>3. ASSUME NEW i \in DOMAIN K, i # n + 1
        PROVE  /\ i \in 1..n /\ K[i] \in Nat
               /\ \/ /\ t[i] = OP_RESP_READ_OK /\ i + 8 \in DOMAIN K /\ K[i + 8] = K[i] + 1
                     /\ K[i] < Len(L) /\ t[i + 7] = L[K[i] + 1]
                  \/ t[i] = OP_RESP_READ_ERR
    <3>1. i \in 1..n
      <4>1. i \in 1..(n + 1)
        BY <2>2
      <4> QED BY <2>3, <4>1
    <3>2. /\ K[i] \in Nat
          /\ \/ /\ s[i] = OP_RESP_READ_OK /\ i + 8 \in DOMAIN K /\ K[i + 8] = K[i] + 1
                /\ K[i] < Len(L) /\ s[i + 7] = L[K[i] + 1]
             \/ s[i] = OP_RESP_READ_ERR
      BY <2>1, <2>2, <2>3, <3>1 DEF Avance, Cuenta, Abierto
    <3>3. t[i] = s[i]
      BY <1>1, <2>2, <3>1
    <3>4. i + 8 \in DOMAIN K => t[i + 7] = s[i + 7]
      <4> SUFFICES ASSUME i + 8 \in DOMAIN K PROVE t[i + 7] = s[i + 7]
        OBVIOUS
      <4>1. i + 8 \in 1..(n + 1)
        BY <2>2
      <4>2. i + 7 \in 1..n
        BY <3>1, <4>1
      <4> QED BY <1>1, <2>2, <4>2
    <3> QED BY <3>1, <3>2, <3>3, <3>4
  <2>4. t[n + 1] = p[1] /\ Len(t) = n + Len(p)
    <3>1. 1 \in 1..Len(p)
      BY <1>0, <1>1
    <3> QED BY <1>1, <2>2, <3>1
  <2>5. n + 1 \in DOMAIN K => K[n + 1] = k
    BY <2>1, <2>2
  <2>6. CASE /\ p[1] = OP_RESP_READ_OK /\ Len(p) = 8 /\ p[8] = L[k + 1]
             /\ k < Len(L) /\ j = k + 1 /\ n + 1 \in DOMAIN K
    <3>1. PICK D : D = DOMAIN K \cup {n + 9}
      OBVIOUS
    <3>2. PICK J : J = [i \in D |-> IF i = n + 9 THEN k + 1 ELSE K[i]]
      OBVIOUS
    <3>3. DOMAIN J = D /\ J[n + 9] = k + 1 /\ \A i \in DOMAIN K : J[i] = K[i]
      <4>1. n + 9 \notin DOMAIN K
        BY <2>2
      <4> QED BY <3>1, <3>2, <4>1
    <3>4. Len(t) + 1 = n + 9 /\ (n + 1) + 8 = n + 9 /\ t[(n + 1) + 7] = p[8]
      <4>1. 8 \in 1..Len(p) /\ (n + 1) + 7 = Len(s) + 8
        BY <2>2, <2>6
      <4>2. t[Len(s) + 8] = p[8]
        BY <1>1, <4>1
      <4>3. Len(t) = n + 8 /\ t[(n + 1) + 7] = p[8]
        BY <2>4, <2>6, <4>1, <4>2
      <4>4. n + 8 + 1 = n + 9 /\ (n + 1) + 8 = n + 9
        OBVIOUS
      <4> QED BY <4>3, <4>4
    <3>5. D \subseteq 1..(Len(t) + 1)
      <4>1. 1..(n + 1) \subseteq 1..(n + 9) /\ n + 9 \in 1..(n + 9)
        OBVIOUS
      <4>2. DOMAIN K \subseteq 1..(n + 9)
        BY <2>2, <4>1
      <4> QED BY <3>1, <3>4, <4>1, <4>2
    <3>6. ASSUME NEW i \in D
          PROVE  Cuenta(t, J, L, i)
      <4>1. CASE i = n + 9
        <5>1. i = Len(t) + 1 /\ J[i] = k + 1
          BY <3>3, <3>4, <4>1
        <5> QED BY <5>1 DEF Cuenta
      <4>2. CASE i = n + 1
        <5>1. J[i] = k /\ i + 8 = n + 9 /\ J[i + 8] = k + 1 /\ i + 8 \in D
          BY <2>5, <2>6, <3>1, <3>3, <3>4, <4>2
        <5>2. t[i] = OP_RESP_READ_OK /\ t[i + 7] = L[k + 1]
          BY <2>4, <2>6, <3>4, <4>2
        <5> QED BY <2>6, <3>3, <5>1, <5>2 DEF Cuenta
      <4>3. CASE i # n + 9 /\ i # n + 1
        <5>1. i \in DOMAIN K /\ J[i] = K[i]
          BY <3>1, <3>3, <4>3
        <5>2. i + 8 \in DOMAIN K => i + 8 \in D /\ J[i + 8] = K[i + 8]
          BY <3>1, <3>3
        <5> QED BY <2>3, <3>3, <4>3, <5>1, <5>2 DEF Cuenta
      <4> QED BY <4>1, <4>2, <4>3
    <3>7. Avance(t, J, L)
      BY <3>3, <3>5, <3>6 DEF Avance
    <3>8. 1 \in D /\ J[1] = r /\ J[Len(t) + 1] = j
      BY <2>1, <2>6, <3>1, <3>3, <3>4
    <3> QED BY <1>1, <3>3, <3>7, <3>8 DEF Relato
  <2>7. CASE ~(p[1] = OP_RESP_READ_OK /\ n + 1 \in DOMAIN K)
    <3>1. Len(t) + 1 \notin DOMAIN K /\ DOMAIN K \subseteq 1..(Len(t) + 1)
      <4>1. PICK l \in Nat : l >= 1 /\ l = Len(p)
        BY <1>0, <1>1
      <4>2. Len(t) + 1 = n + l + 1
        BY <2>4, <4>1
      <4>3. n + l + 1 \notin 1..(n + 1) /\ 1..(n + 1) \subseteq 1..(n + l + 1)
        BY <4>1
      <4> QED BY <2>2, <4>2, <4>3
    <3>2. ASSUME NEW i \in DOMAIN K
          PROVE  Cuenta(t, K, L, i)
      <4>1. CASE i # n + 1
        BY <2>3, <4>1 DEF Cuenta
      <4>2. CASE i = n + 1
        <5>1. K[i] = k
          BY <2>5, <4>2
        <5>2. CASE p[1] = OP_FIN_QUERY /\ Len(p) = 4 /\ k = Len(L)
          <6>1. i + 4 = Len(t) + 1
            BY <2>4, <4>2, <5>2
          <6> QED BY <2>4, <4>2, <5>1, <5>2, <6>1 DEF Cuenta
        <5>3. CASE p[1] = OP_RESP_READ_ERR
          BY <2>4, <4>2, <5>1, <5>3 DEF Cuenta
        <5> QED BY <1>0, <2>7, <4>2, <5>2, <5>3
      <4> QED BY <4>1, <4>2
    <3>3. Avance(t, K, L)
      BY <3>1, <3>2 DEF Avance
    <3> QED BY <1>1, <2>1, <3>1, <3>3 DEF Relato
  <2> QED BY <1>0, <2>6, <2>7 DEF OP_FIN_QUERY, OP_RESP_READ_ERR, OP_RESP_READ_OK
<1> QED BY <1>2, <1>3

\* Every END closes its script: what is behind it would be read for nobody.
EndAlFinal ==
  \A g \in Guiones, q \in Queries : \A i \in 1..Len(g[q]) :
    g[q][i] = "END" => i = Len(g[q])

\* What was sent and what was taken of the reads of the query w has: all that
\* was taken was forwarded while the client could be told.
EnMarcha(w, q) ==
  \E r, k \in Nat :
    /\ Relato(aMaster[w], LecturasDe(q), r, k)
    /\ q \notin cortado => r = Len(reenviadas[q])
    /\ fase[w] = "ejecuta" => /\ qActual[w] = q /\ k = Leidas(q, linea[w] - 1)
                              /\ Fines(aMaster[w]) = {}
    /\ Pend(aWorker[w]) # {} => k = 0

EnCurso(w, q) == EnMarcha(w, q) /\ qc[q] # "fuera"

\* w has nothing on its way; or it also died, and has nothing to read.
Ocioso(w)  == aMaster[w] = <<>> /\ fase[w] # "ejecuta"
Perdido(w) == aMaster[w] = <<>> /\ fase[w] = "fuera" /\ Pend(aWorker[w]) = {}

Vinculo(w) ==
  /\ w \notin conectados => ejecutando[w] = Nadie
  /\ fase[w] = "arranque" => aMaster[w] = <<>>
  /\ w \in conectados \/ fase[w] = "arranque" => w \notin cortado

Atendido(w) ==
  w \in conectados =>
    /\ ejecutando[w] = Nadie \/ w = wPlan => Ocioso(w)
    /\ \A q \in Queries : ejecutando[w] = q => EnCurso(w, q)

\* A query that is to be given to a Worker has sent nothing, or nothing more
\* will be told of it; a Worker that still has it is the one the planner holds,
\* or it died before the query reached it.
PorDar(q) == EnCola(q) \/ qc[q] = "fuera" \/ q = qPlan
SinServir(q) ==
  /\ PorDar(q) => q \in cortado \/ reenviadas[q] = <<>>
  /\ \A v \in Workers : ejecutando[v] = q => /\ EnCola(q) => Perdido(v)
                                             /\ q = qPlan => v = wPlan \/ Perdido(v)

Entregadas(q) ==
  /\ Len(reenviadas[q]) =< Total(q)
  /\ \A i \in 1..Len(reenviadas[q]) : reenviadas[q][i] = LecturasDe(q)[i]

Unica ==
  \A q \in Queries : \A v, w \in Workers :
    ejecutando[v] = q /\ ejecutando[w] = q => v = w \/ Perdido(v) \/ Perdido(w)

InvServicio ==
  /\ reenviadas \in [Queries -> Seq(Nat)]
  /\ avisos \in [Queries -> Seq({"fin", "cancelada"})]
  /\ \A w \in Workers : Vinculo(w) /\ Atendido(w)
  /\ \A q \in Queries : q \notin cortado => avisos[q] = <<>>
  /\ \A q \in Queries : SinServir(q)
  /\ \A q \in Queries : Entregadas(q)
  /\ Unica

\* Nothing was sent when nothing runs.
LEMMA ServicioInit == Init => InvServicio
<1> SUFFICES ASSUME Init PROVE InvServicio
  OBVIOUS
<1>1. /\ guion \in Guiones /\ conectados = {} /\ cola = <<>> /\ cortado = {}
      /\ ejecutando = [w \in Workers |-> Nadie]
      /\ aMaster = [w \in Workers |-> <<>>]
      /\ reenviadas = [q \in Queries |-> <<>>] /\ avisos = [q \in Queries |-> <<>>]
  BY DEF Init
<1>2. \A w \in Workers : Vinculo(w) /\ Atendido(w)
  BY <1>1 DEF Vinculo, Atendido
<1>3. \A q \in Queries : reenviadas[q] = <<>> /\ avisos[q] = <<>>
  BY <1>1
<1>4. \A w \in Workers, q \in Queries : ejecutando[w] # q
  BY <1>1, QueriesNat
<1>5. \A q \in Queries : SinServir(q)
  BY <1>3, <1>4 DEF SinServir
<1>6. ASSUME NEW q \in Queries PROVE Entregadas(q)
  <2>1. Total(q) \in Nat /\ Len(<<>>) = 0 /\ 1..0 = {}
    BY <1>1, LecturasEs
  <2> QED BY <1>3, <2>1 DEF Entregadas
<1>7. Unica
  BY <1>4 DEF Unica
<1>8. /\ reenviadas \in [Queries -> Seq(Nat)]
      /\ avisos \in [Queries -> Seq({"fin", "cancelada"})]
  BY <1>1
<1> QED BY <1>2, <1>3, <1>5, <1>6, <1>7, <1>8 DEF InvServicio

\* The scripts do not change, nor what they read.
LEMMA LecturasFijas ==
  ASSUME UNCHANGED guion, NEW q
  PROVE  LecturasDe(q)' = LecturasDe(q) /\ Total(q)' = Total(q)
         /\ \A n : Leidas(q, n)' = Leidas(q, n)
<1>1. \A n : Leidas(q, n)' = Leidas(q, n)
  BY DEF Leidas
<1>2. Total(q)' = Total(q)
  BY <1>1 DEF Total
<1>3. LecturasDe(q)' = LecturasDe(q)
  BY DEF LecturasDe, Leidas
<1> QED BY <1>1, <1>2, <1>3

\* A Worker, or a query, that the step does not touch.
LEMMA MarchaIgual ==
  ASSUME NEW w, NEW q, EnCurso(w, q),
         UNCHANGED <<guion, aMaster[w], fase[w], qActual[w], linea[w]>>,
         q \notin cortado' => q \notin cortado /\ reenviadas'[q] = reenviadas[q],
         qc'[q] = "fuera" => qc[q] = "fuera",
         Pend(aWorker[w])' \subseteq Pend(aWorker[w])
  PROVE  EnCurso(w, q)'
<1>1. PICK r, k \in Nat :
        /\ Relato(aMaster[w], LecturasDe(q), r, k)
        /\ q \notin cortado => r = Len(reenviadas[q])
        /\ fase[w] = "ejecuta" => /\ qActual[w] = q /\ k = Leidas(q, linea[w] - 1)
                                  /\ Fines(aMaster[w]) = {}
        /\ Pend(aWorker[w]) # {} => k = 0
  BY DEF EnCurso, EnMarcha
<1>2. LecturasDe(q)' = LecturasDe(q) /\ Leidas(q, linea[w] - 1)' = Leidas(q, linea[w] - 1)
  <2>1. \A n : Leidas(q, n)' = Leidas(q, n)
    BY LecturasFijas
  <2>2. LecturasDe(q)' = LecturasDe(q)
    BY LecturasFijas
  <2> QED BY <2>1, <2>2 DEF Leidas
<1>3. EnMarcha(w, q)'
  BY <1>1, <1>2 DEF EnMarcha
<1> QED BY <1>3 DEF EnCurso

\* Whatever was forwarded for it, a query sent nothing by a Worker that died
\* before it started.
LEMMA PerdidoCurso ==
  ASSUME NEW w \in Workers, NEW q \in Queries, guion \in Guiones, UNCHANGED guion,
         Perdido(w)', reenviadas'[q] \in Seq(Nat), qc'[q] # "fuera"
  PROVE  EnCurso(w, q)'
<1>1. PICK r \in Nat : r = Len(reenviadas'[q])
  OBVIOUS
<1>2. LecturasDe(q) \in Seq(Nat) /\ LecturasDe(q)' = LecturasDe(q)
  <2>1. LecturasDe(q) \in Seq(Nat)
    BY LecturasEs
  <2> QED BY <2>1, LecturasFijas
<1>3. Relato(<<>>, LecturasDe(q), r, r)
  BY <1>2, RelatoVacio
<1>4. Relato(aMaster[w], LecturasDe(q), r, r)'
  BY <1>2, <1>3 DEF Perdido
<1>5. EnMarcha(w, q)'
  BY <1>1, <1>4 DEF EnMarcha, Perdido
<1> QED BY <1>5 DEF EnCurso

\* What was forwarded to a query the step does not touch.
LEMMA EntregadasIgual ==
  ASSUME NEW q, Entregadas(q), UNCHANGED <<guion, reenviadas[q]>>
  PROVE  Entregadas(q)'
<1>1. LecturasDe(q)' = LecturasDe(q) /\ Total(q)' = Total(q)
  BY LecturasFijas
<1> QED BY <1>1 DEF Entregadas

\* A Worker that the step does not touch, nor its query.
LEMMA OtroIgual ==
  ASSUME InvTipos, InvServicio, NEW v \in Workers,
         UNCHANGED <<guion, ejecutando[v], aMaster[v], fase[v], qActual[v], linea[v]>>,
         Pend(aWorker[v])' \subseteq Pend(aWorker[v]),
         v \in conectados' <=> v \in conectados, v \in cortado' <=> v \in cortado,
         v = wPlan' => v = wPlan,
         cortado \subseteq cortado', reenviadas' \in [Queries -> Seq(Nat)],
         \A q \in Queries : qc'[q] = "fuera" => qc[q] = "fuera",
         \A q \in Queries : ejecutando[v] = q =>
           q \in cortado' \/ reenviadas'[q] = reenviadas[q] \/ Perdido(v)
  PROVE  Vinculo(v)' /\ Atendido(v)'
<1>1. Vinculo(v) /\ Atendido(v)
  BY DEF InvServicio
<1>2. ASSUME NEW q \in Queries, v \in conectados, ejecutando[v] = q PROVE EnCurso(v, q)'
  <2>1. EnCurso(v, q)
    BY <1>1, <1>2 DEF Atendido
  <2>2. CASE Perdido(v)
    <3>1. Perdido(v)'
      BY <2>2 DEF Perdido
    <3>2. guion \in Guiones /\ qc'[q] # "fuera" /\ reenviadas'[q] \in Seq(Nat)
      BY <2>1 DEF InvTipos, TiposMaster, EnCurso
    <3> QED BY <3>1, <3>2, PerdidoCurso
  <2>3. CASE ~Perdido(v)
    <3>1. q \notin cortado' => q \notin cortado /\ reenviadas'[q] = reenviadas[q]
      BY <1>2, <2>3
    <3> QED BY <2>1, <3>1, MarchaIgual
  <2> QED BY <2>2, <2>3
<1>3. Vinculo(v)'
  BY <1>1 DEF Vinculo
<1>4. Atendido(v)'
  BY <1>1, <1>2 DEF Atendido, Ocioso
<1> QED BY <1>3, <1>4

\* The steps that give no query: those that wait go on waiting.
LEMMA EsperasIgual ==
  ASSUME InvServicio, UNCHANGED <<cola, qPlan, wPlan>>,
         \A v \in Workers : ejecutando'[v] = ejecutando[v] \/ ejecutando'[v] = Nadie,
         \A v \in Workers : Perdido(v) => Perdido(v)',
         \A q \in Queries : qc'[q] = "fuera" => qc[q] = "fuera",
         cortado \subseteq cortado',
         \A q \in Queries : PorDar(q) => q \in cortado' \/ reenviadas'[q] = reenviadas[q]
  PROVE  (\A q \in Queries : SinServir(q)') /\ Unica'
<1>1. \A q \in Queries : EnCola(q)' <=> EnCola(q)
  BY DEF EnCola
<1>2. \A q \in Queries : PorDar(q)' => PorDar(q)
  BY <1>1 DEF PorDar
<1>3. \A v \in Workers, q \in Queries : ejecutando'[v] = q => ejecutando[v] = q
  BY QueriesNat
<1>4. ASSUME NEW q \in Queries PROVE SinServir(q)'
  <2>1. SinServir(q)
    BY DEF InvServicio
  <2>2. PorDar(q)' => q \in cortado' \/ reenviadas'[q] = <<>>
    BY <1>2, <2>1 DEF SinServir
  <2>3. ASSUME NEW v \in Workers, ejecutando'[v] = q
        PROVE  /\ EnCola(q)' => Perdido(v)'
               /\ q = qPlan' => v = wPlan' \/ Perdido(v)'
    BY <1>1, <1>3, <2>1, <2>3 DEF SinServir
  <2> QED BY <2>2, <2>3 DEF SinServir
<1>5. Unica'
  BY <1>3 DEF InvServicio, Unica
<1> QED BY <1>4, <1>5

\* The steps that neither give a query nor serve one.
LEMMA ServicioIgual ==
  ASSUME InvTipos, InvServicio,
         UNCHANGED <<guion, varsMaster, fase, qActual, linea, cortado, aMaster,
                     reenviadas, avisos>>,
         \A q \in Queries : qc'[q] = "fuera" => qc[q] = "fuera",
         \A w \in Workers : Pend(aWorker[w])' \subseteq Pend(aWorker[w])
  PROVE  InvServicio'
<1>1. UNCHANGED <<conectados, cola, ejecutando, qPlan, wPlan>>
  BY DEF varsMaster, varsPlan
<1>2. ASSUME NEW w \in Workers PROVE Vinculo(w)' /\ Atendido(w)'
  <2>1. reenviadas' \in [Queries -> Seq(Nat)]
    BY DEF InvServicio
  <2> QED BY <1>1, <2>1, OtroIgual
<1>3. ASSUME NEW v \in Workers PROVE Perdido(v) => Perdido(v)'
  BY <1>3 DEF Perdido
<1>4. (\A q \in Queries : SinServir(q)') /\ Unica'
  BY <1>1, <1>3, EsperasIgual
<1>5. \A q \in Queries : Entregadas(q)'
  BY EntregadasIgual DEF InvServicio
<1> QED BY <1>2, <1>4, <1>5 DEF InvServicio

\* The steps that touch none of it.
LEMMA ServicioQuieto ==
  ASSUME InvTipos, InvServicio,
         UNCHANGED <<guion, varsMaster, fase, qActual, linea, cortado, aWorker, aMaster,
                     reenviadas, avisos>>,
         \A q \in Queries : qc'[q] = "fuera" => qc[q] = "fuera"
  PROVE  InvServicio'
<1>1. \A w \in Workers : Pend(aWorker[w])' \subseteq Pend(aWorker[w])
  OBVIOUS
<1> QED BY <1>1, ServicioIgual

\* The steps of StorageConexiones.
LEMMA ServicioStorage ==
  ASSUME InvTipos, InvServicio, NEW w \in Workers, ArrancarWorker(w) \/ PasoStorage(w)
  PROVE  InvServicio' /\ UNCHANGED <<guion, qc, reenviadas, avisos>>
  BY ServicioQuieto DEF ArrancarWorker, PasoStorage, varsResto, varsWorker, varsCliente

\* LeerQC.
LEMMA ServicioLeerQC ==
  ASSUME InvTipos, InvServicio, NEW q \in Queries, LeerQC(q)
  PROVE  /\ InvServicio' /\ UNCHANGED <<guion, reenviadas, avisos>>
         /\ \A p \in Queries : qc'[p] = "fuera" <=> qc[p] = "fuera"
<1>1. PICK p \in PasosQC : qc' = [qc EXCEPT ![q] = p] /\ p # "fuera" /\ qc[q] # "fuera"
  BY DEF LeerQC, PasosQC
<1>2. \A r \in Queries : qc'[r] = "fuera" <=> qc[r] = "fuera"
  BY <1>1 DEF InvTipos, TiposDesalojo
<1> QED BY <1>2, ServicioQuieto DEF LeerQC, varsWorker

\* verificar_desalojo.
LEMMA ServicioHiloQ ==
  ASSUME InvTipos, QidsBajos, InvMisma, InvServicio, NEW q \in Queries, PasoHiloQ(q)
  PROVE  InvServicio' /\ UNCHANGED <<guion, qc, reenviadas, avisos>>
<1>1. CASE MirarMejor(q)
  BY <1>1, ServicioQuieto DEF MirarMejor, varsWorker, varsCliente
<1>2. CASE buscar_peor_query_en_ejecucion(q)
  BY <1>2, ServicioQuieto DEF buscar_peor_query_en_ejecucion, PeorDe, varsWorker, varsCliente
<1>3. CASE PedirDesalojo(q)
  <2>1. \A w \in Workers : Menos(w)
    BY <1>3, MenosPedir
  <2>2. UNCHANGED <<guion, varsMaster, fase, qActual, linea, cortado, aMaster,
                    reenviadas, avisos, qc>>
    BY <1>3 DEF PedirDesalojo, varsWorker, varsCliente
  <2> QED BY <2>1, <2>2, ServicioIgual DEF Menos
<1> QED BY <1>1, <1>2, <1>3 DEF PasoHiloQ

\* RecibirOrden and RecibirInesperado.
LEMMA ServicioOrden ==
  ASSUME InvTipos, QidsBajos, InvMisma, InvServicio, NEW w \in Workers,
         RecibirOrden(w) \/ RecibirInesperado(w)
  PROVE  InvServicio' /\ UNCHANGED <<guion, qc, reenviadas, avisos>>
<1>1. \A v \in Workers : Menos(v)
  BY MenosOrden
<1>2. UNCHANGED <<guion, varsMaster, fase, qActual, linea, cortado, aMaster,
                  reenviadas, avisos, qc>>
  BY DEF RecibirOrden, RecibirInesperado, varsWorker, varsCliente
<1> QED BY <1>1, <1>2, ServicioIgual DEF Menos

\* No Worker has a query that did not arrive.
LEMMA NadieLaTiene ==
  ASSUME InvServicio, NEW q \in Queries, qc[q] = "fuera", NEW w \in Workers
  PROVE  ejecutando[w] # q
<1> SUFFICES ASSUME ejecutando[w] = q PROVE FALSE
  OBVIOUS
<1>1. w \in conectados
  BY QueriesNat DEF InvServicio, Vinculo
<1> QED BY <1>1 DEF InvServicio, Atendido, EnCurso

\* LlegaQuery: nothing was sent for a query that arrives.
LEMMA ServicioLlega ==
  ASSUME InvTipos, InvMisma, InvServicio, NEW q \in Queries, LlegaQuery(q)
  PROVE  /\ InvServicio' /\ UNCHANGED <<guion, reenviadas, avisos>>
         /\ qc[q] = "fuera" /\ qc' = [qc EXCEPT ![q] = "espera"]
<1>1. /\ UNCHANGED <<guion, conectados, ejecutando, qPlan, wPlan, fase, qActual, linea,
                     aWorker, aMaster, cortado, reenviadas, avisos>>
      /\ qc[q] = "fuera" /\ qc' = [qc EXCEPT ![q] = "espera"] /\ cola' = Insertar(q)
  BY DEF LlegaQuery, varsWorker, varsPlan
<1>2. cola \in Seq(Queries) /\ qc \in [Queries -> PasosQC]
  BY DEF InvTipos, TiposMaster, TiposDesalojo
<1>3. ~EnCola(q) /\ \A i, j \in 1..Len(cola) : cola[i] = cola[j] => i = j
  BY <1>1 DEF InvMisma, Espera
<1>4. \A p \in Queries : EnCola(p)' => p = q \/ EnCola(p)
  <2>1. \A i \in 1..Len(Insertar(q)) : Insertar(q)[i] = q \/ EnCola(Insertar(q)[i])
    BY <1>2, <1>3, InsertarUna
  <2>2. ASSUME NEW p \in Queries, EnCola(p)' PROVE p = q \/ EnCola(p)
    <3>1. PICK i \in 1..Len(Insertar(q)) : Insertar(q)[i] = p
      BY <1>1, <2>2 DEF EnCola
    <3> QED BY <2>1, <3>1
  <2> QED BY <2>2
<1>5. \A p \in Queries : qc'[p] = "fuera" => qc[p] = "fuera"
  BY <1>1, <1>2
<1>6. ASSUME NEW w \in Workers PROVE Vinculo(w)' /\ Atendido(w)'
  <2>1. reenviadas' \in [Queries -> Seq(Nat)]
    BY <1>1 DEF InvServicio
  <2> QED BY <1>1, <1>5, <2>1, OtroIgual
<1>7. \A v \in Workers : Perdido(v)' <=> Perdido(v)
  BY <1>1 DEF Perdido
<1>8. ASSUME NEW p \in Queries PROVE SinServir(p)'
  <2>1. SinServir(p)
    BY DEF InvServicio
  <2>2. PorDar(p)' => PorDar(p)
    BY <1>1, <1>4, <1>5 DEF PorDar
  <2>3. ASSUME NEW v \in Workers, ejecutando[v] = p PROVE EnCola(p)' => EnCola(p)
    BY <1>1, <1>4, <2>3, NadieLaTiene
  <2> QED BY <1>1, <1>7, <2>1, <2>2, <2>3 DEF SinServir
<1>9. \A p \in Queries : Entregadas(p)'
  BY <1>1, EntregadasIgual DEF InvServicio
<1>10. Unica'
  BY <1>1, <1>7 DEF InvServicio, Unica
<1> QED BY <1>1, <1>6, <1>8, <1>9, <1>10 DEF InvServicio

\* ConectarMaster: nothing is on the stream of a Worker that is listed.
LEMMA ServicioConectar ==
  ASSUME InvTipos, InvMisma, InvServicio, NEW w \in Workers, ConectarMaster(w)
  PROVE  InvServicio' /\ UNCHANGED <<guion, qc, reenviadas, avisos>>
<1>1. /\ UNCHANGED <<guion, cola, ejecutando, qPlan, wPlan, qActual, linea, aWorker,
                     aMaster, qc, cortado, reenviadas, avisos>>
      /\ fase[w] = "arranque" /\ fase' = [fase EXCEPT ![w] = "escucha"]
      /\ conectados' = conectados \cup {w}
  BY DEF ConectarMaster, varsCliente, varsPlan
<1>2. fase \in [Workers -> PasosWorker]
  BY DEF InvTipos, TiposWorker
<1>3. ASSUME NEW v \in Workers PROVE Vinculo(v)' /\ Atendido(v)'
  <2>1. CASE v # w
    <3>1. fase'[v] = fase[v] /\ (v \in conectados' <=> v \in conectados)
      BY <1>1, <1>2, <2>1
    <3>2. reenviadas' \in [Queries -> Seq(Nat)]
      BY <1>1 DEF InvServicio
    <3> QED BY <1>1, <3>1, <3>2, OtroIgual
  <2>2. CASE v = w
    <3>1. /\ aMaster[w] = <<>> /\ w \notin cortado /\ fase'[w] = "escucha"
          /\ w \notin conectados
      BY <1>1, <1>2 DEF InvServicio, Vinculo, InvMisma, Arranque
    <3>2. Vinculo(w)'
      BY <1>1, <3>1 DEF Vinculo
    <3>3. \A q \in Queries : ejecutando[w] # q
      BY <3>1, QueriesNat DEF InvServicio, Vinculo
    <3> QED BY <1>1, <2>2, <3>1, <3>2, <3>3 DEF Atendido, Ocioso
  <2> QED BY <2>1, <2>2
<1>4. \A v \in Workers : Perdido(v) => Perdido(v)'
  BY <1>1, <1>2 DEF Perdido
<1>5. (\A p \in Queries : SinServir(p)') /\ Unica'
  BY <1>1, <1>4, EsperasIgual
<1>6. \A p \in Queries : Entregadas(p)'
  BY <1>1, EntregadasIgual DEF InvServicio
<1> QED BY <1>1, <1>3, <1>5, <1>6 DEF InvServicio

\* A Worker that dies leaves on its stream what it had sent.
LEMMA ServicioSalir ==
  ASSUME InvTipos, InvServicio, NEW w \in Workers, Salir(w)
  PROVE  InvServicio' /\ UNCHANGED <<guion, qc, reenviadas, avisos>>
<1>1. /\ UNCHANGED <<guion, cola, conectados, ejecutando, qPlan, wPlan, aMaster, qc, cortado,
                     reenviadas, avisos>>
      /\ fase' = [fase EXCEPT ![w] = "fuera"]
      /\ qActual' = [qActual EXCEPT ![w] = Nadie]
      /\ linea' = [linea EXCEPT ![w] = 0]
      /\ aWorker' = [aWorker EXCEPT ![w] = <<>>]
  BY DEF Salir, varsMaster, varsPlan, varsCliente
<1>2. /\ fase \in [Workers -> PasosWorker] /\ linea \in [Workers -> Nat]
      /\ qActual \in [Workers -> Queries \cup {Nadie}] /\ aWorker \in [Workers -> Seq(Nat)]
  BY DEF InvTipos, TiposWorker, TiposCorrientes
<1>3. fase'[w] = "fuera" /\ Pend(aWorker'[w]) = {}
  BY <1>1, <1>2, Vacias
<1>4. \A v \in Workers \ {w} : UNCHANGED <<fase[v], qActual[v], linea[v], aWorker[v]>>
  BY <1>1, <1>2
<1>5. ASSUME NEW v \in Workers PROVE Vinculo(v)' /\ Atendido(v)'
  <2>1. CASE v # w
    <3>1. reenviadas' \in [Queries -> Seq(Nat)]
      BY <1>1 DEF InvServicio
    <3> QED BY <1>1, <1>4, <2>1, <3>1, OtroIgual
  <2>2. CASE v = w
    <3>2. Vinculo(w)'
      BY <1>1, <1>3 DEF InvServicio, Vinculo
    <3>3. ASSUME NEW q \in Queries, w \in conectados, ejecutando[w] = q PROVE EnCurso(w, q)'
      <4>1. EnCurso(w, q)
        BY <3>3 DEF InvServicio, Atendido
      <4>2. PICK r, k \in Nat : /\ Relato(aMaster[w], LecturasDe(q), r, k)
                                /\ q \notin cortado => r = Len(reenviadas[q])
        BY <4>1 DEF EnCurso, EnMarcha
      <4>3. LecturasDe(q)' = LecturasDe(q)
        BY <1>1, LecturasFijas
      <4>4. EnMarcha(w, q)'
        BY <1>1, <1>3, <4>2, <4>3 DEF EnMarcha
      <4> QED BY <1>1, <4>1, <4>4 DEF EnCurso
    <3>4. Atendido(w)'
      BY <1>1, <1>3, <3>3 DEF InvServicio, Atendido, Ocioso
    <3> QED BY <2>2, <3>2, <3>4
  <2> QED BY <2>1, <2>2
<1>6. \A v \in Workers : Perdido(v) => Perdido(v)'
  BY <1>1, <1>3, <1>4 DEF Perdido
<1>7. (\A p \in Queries : SinServir(p)') /\ Unica'
  BY <1>1, <1>6, EsperasIgual
<1>8. \A p \in Queries : Entregadas(p)'
  BY <1>1, EntregadasIgual DEF InvServicio
<1> QED BY <1>1, <1>5, <1>7, <1>8 DEF InvServicio

\* The script of the query starts from its first line: what was sent of it and
\* not taken is nothing.
LEMMA CursoNuevo ==
  ASSUME NEW w \in Workers, NEW q \in Queries, guion \in Guiones, UNCHANGED <<guion, cortado>>,
         q \in cortado \/ reenviadas'[q] = <<>>, qc'[q] # "fuera",
         aMaster'[w] = <<>>, fase'[w] # "ejecuta"
  PROVE  EnCurso(w, q)'
<1>1. LecturasDe(q) \in Seq(Nat) /\ LecturasDe(q)' = LecturasDe(q)
  <2>1. LecturasDe(q) \in Seq(Nat)
    BY LecturasEs
  <2> QED BY <2>1, LecturasFijas
<1>2. 0 \in Nat /\ Len(<<>>) = 0
  OBVIOUS
<1>3. Relato(<<>>, LecturasDe(q), 0, 0)
  BY <1>1, <1>2, RelatoVacio
<1>4. Relato(aMaster[w], LecturasDe(q), 0, 0)'
  BY <1>1, <1>3
<1>5. EnMarcha(w, q)'
  BY <1>2, <1>4 DEF EnMarcha
<1> QED BY <1>5 DEF EnCurso

\* Asignar: the query that is given has told its client nothing, or no more is
\* told to it.
LEMMA ServicioAsignar ==
  ASSUME InvTipos, InvMisma, InvServicio, NEW w \in Workers, Asignar(w)
  PROVE  InvServicio' /\ UNCHANGED <<guion, qc, reenviadas, avisos>>
<1>1. cola \in Seq(Queries) /\ cola # <<>> /\ guion \in Guiones
  BY DEF InvTipos, TiposMaster, Asignar
<1>2. PICK h \in Queries : h = Head(cola) /\ h = cola[1]
  BY <1>1
<1>3. EnCola(h)
  <2>1. 1 \in 1..Len(cola)
    BY <1>1
  <2> QED BY <1>2, <2>1 DEF EnCola
<1>4. SinServir(h) /\ qc[h] # "fuera" /\ (h \in cortado \/ reenviadas[h] = <<>>)
  BY <1>3 DEF InvServicio, InvMisma, Espera, SinServir, PorDar
<1>5. /\ UNCHANGED <<guion, conectados, fase, qActual, linea, aWorker, aMaster, qc, cortado,
                     reenviadas, avisos>>
      /\ w \in conectados /\ ejecutando[w] = Nadie /\ cola' = Tail(cola)
      /\ ejecutando' = [ejecutando EXCEPT ![w] = h]
      /\ qPlan = Nadie /\ qPlan' = h /\ wPlan' = w
  BY <1>2 DEF Asignar, QuitarDeCola, varsWorker, varsCliente
<1>6. /\ ejecutando \in [Workers -> Queries \cup {Nadie}]
      /\ reenviadas' \in [Queries -> Seq(Nat)]
  BY <1>5 DEF InvTipos, TiposMaster, InvServicio
<1>7. ejecutando'[w] = h /\ \A v \in Workers \ {w} : ejecutando'[v] = ejecutando[v]
  BY <1>5, <1>6
<1>8. \A v \in Workers : Perdido(v)' <=> Perdido(v)
  BY <1>5 DEF Perdido
<1>9. ASSUME NEW v \in Workers PROVE Vinculo(v)' /\ Atendido(v)'
  <2>1. CASE v # w
    BY <1>5, <1>6, <1>7, <2>1, OtroIgual
  <2>2. CASE v = w
    <3>1. aMaster[w] = <<>> /\ fase[w] # "ejecuta"
      BY <1>5 DEF InvServicio, Atendido, Ocioso
    <3>2. Vinculo(w)'
      BY <1>5 DEF InvServicio, Vinculo
    <3>3. EnCurso(w, h)'
      BY <1>1, <1>4, <1>5, <3>1, CursoNuevo
    <3>4. Atendido(w)'
      BY <1>5, <1>7, <3>1, <3>3 DEF Atendido, Ocioso
    <3> QED BY <2>2, <3>2, <3>4
  <2> QED BY <2>1, <2>2
<1>10. \A p \in Queries : EnCola(p)' => EnCola(p) /\ p # h
  BY <1>1, <1>2, <1>5, QuitarUna
<1>11. ASSUME NEW p \in Queries PROVE SinServir(p)'
  <2>1. SinServir(p)
    BY DEF InvServicio
  <2>2. PorDar(p)' => PorDar(p) \/ p = h
    BY <1>5, <1>10 DEF PorDar
  <2>3. PorDar(p)' => p \in cortado' \/ reenviadas'[p] = <<>>
    BY <1>4, <1>5, <2>1, <2>2 DEF SinServir
  <2>4. ASSUME NEW v \in Workers, ejecutando'[v] = p
        PROVE  /\ EnCola(p)' => Perdido(v)'
               /\ p = qPlan' => v = wPlan' \/ Perdido(v)'
    <3>1. CASE v = w
      BY <1>5, <1>7, <1>10, <2>4, <3>1
    <3>2. CASE v # w
      <4>1. ejecutando[v] = p
        BY <1>7, <2>4, <3>2
      <4>2. EnCola(p)' => Perdido(v)'
        BY <1>8, <1>10, <2>1, <4>1 DEF SinServir
      <4>3. p = qPlan' => Perdido(v)'
        BY <1>3, <1>5, <1>8, <2>1, <4>1 DEF SinServir
      <4> QED BY <4>2, <4>3
    <3> QED BY <3>1, <3>2
  <2> QED BY <2>3, <2>4 DEF SinServir
<1>12. \A p \in Queries : Entregadas(p)'
  BY <1>5, EntregadasIgual DEF InvServicio
<1>13. Unica'
  <2>1. \A v \in Workers : ejecutando[v] = h => Perdido(v)'
    BY <1>3, <1>4, <1>8 DEF SinServir
  <2>2. ASSUME NEW p \in Queries, NEW v \in Workers, NEW u \in Workers,
               ejecutando'[v] = p, ejecutando'[u] = p, v # u
        PROVE  Perdido(v)' \/ Perdido(u)'
    <3>1. CASE v # w /\ u # w
      BY <1>7, <1>8, <2>2, <3>1 DEF InvServicio, Unica
    <3>2. CASE v = w \/ u = w
      BY <1>7, <2>1, <2>2, <3>2
    <3> QED BY <3>1, <3>2
  <2> QED BY <2>2 DEF Unica
<1> QED BY <1>5, <1>6, <1>9, <1>11, <1>12, <1>13 DEF InvServicio

\* The Worker the planner holds, if it is still listed, has nothing on its way.
LEMMA ApartadoOcioso ==
  ASSUME InvTipos, InvMisma, InvServicio, NEW w \in Workers, w = wPlan, w \in conectados
  PROVE  /\ Ocioso(w) /\ w \notin cortado /\ Pend(aWorker[w]) = {} /\ ejecutando[w] = qPlan
         /\ ~Alcanza(w) => Perdido(w)
<1>1. Ocioso(w) /\ w \notin cortado
  BY DEF InvServicio, Atendido, Vinculo
<1>2. Pend(aWorker[w]) = {} /\ ejecutando[w] = qPlan
  BY DEF InvMisma, Apartado
<1> QED BY <1>1, <1>2 DEF Ocioso, Perdido, Alcanza

\* EnviarPath: the Worker starts, or nobody will read the path.
LEMMA ServicioEnviar ==
  ASSUME InvTipos, InvMisma, InvServicio, EnviarPath
  PROVE  InvServicio' /\ UNCHANGED <<guion, qc, reenviadas, avisos>>
<1>1. PICK h \in Queries, w \in Workers :
        /\ h = qPlan /\ w = wPlan /\ w \notin cortado
        /\ AlWorker(w, Paquete(OP_ENVIAR_PATH, <<h, 0, TEXTO>>))
  BY DEF InvTipos, TiposMaster, EnviarPath
<1>2. /\ UNCHANGED <<guion, cola, conectados, ejecutando, fase, qActual, linea, aMaster, qc,
                     cortado, reenviadas, avisos>>
      /\ qPlan' = Nadie /\ wPlan' = Nadie
  BY DEF EnviarPath, varsWorker, varsCliente
<1>3. w \in conectados
  BY <1>1 DEF InvMisma, Apartado
<1>4. /\ Ocioso(w) /\ ejecutando[w] = h
      /\ ~Alcanza(w) => Perdido(w)
  BY <1>1, <1>3, ApartadoOcioso
<1>5. /\ aWorker \in [Workers -> Seq(Nat)] /\ reenviadas' \in [Queries -> Seq(Nat)]
      /\ guion \in Guiones
  BY <1>2 DEF InvTipos, TiposCorrientes, TiposMaster, InvServicio
<1>6. PICK s : aWorker' = [aWorker EXCEPT ![w] = IF Alcanza(w) THEN s ELSE @]
  BY <1>1 DEF AlWorker
<1>7. \A v \in Workers \ {w} : aWorker'[v] = aWorker[v]
  BY <1>5, <1>6
<1>8. ASSUME NEW v \in Workers PROVE Perdido(v) => Perdido(v)'
  <2>1. CASE v # w
    BY <1>2, <1>7, <2>1 DEF Perdido
  <2>2. CASE v = w
    <3>1. Perdido(w) => aWorker'[w] = aWorker[w]
      BY <1>5, <1>6 DEF Perdido, Alcanza
    <3> QED BY <1>2, <2>2, <3>1 DEF Perdido
  <2> QED BY <2>1, <2>2
<1>9. SinServir(h) /\ (h \in cortado \/ reenviadas[h] = <<>>) /\ qc[h] # "fuera"
  BY <1>1 DEF InvServicio, SinServir, PorDar, InvMisma, Espera
<1>10. ASSUME NEW v \in Workers PROVE Vinculo(v)' /\ Atendido(v)'
  <2>1. CASE v # w
    <3>1. v = wPlan' => v = wPlan
      BY <1>2, QueriesNat
    <3> QED BY <1>2, <1>5, <1>7, <2>1, <3>1, OtroIgual
  <2>2. CASE v = w
    <3>1. Vinculo(w)'
      BY <1>2 DEF InvServicio, Vinculo
    <3>2. EnCurso(w, h)'
      BY <1>2, <1>4, <1>5, <1>9, CursoNuevo DEF Ocioso
    <3>3. Atendido(w)'
      BY <1>2, <1>4, <3>2 DEF Atendido, Ocioso
    <3> QED BY <2>2, <3>1, <3>3
  <2> QED BY <2>1, <2>2
<1>11. ASSUME NEW p \in Queries PROVE SinServir(p)'
  <2>1. SinServir(p)
    BY DEF InvServicio
  <2>2. (EnCola(p)' <=> EnCola(p)) /\ p # qPlan'
    BY <1>2, QueriesNat DEF EnCola
  <2>3. PorDar(p)' => PorDar(p)
    BY <1>2, <2>2 DEF PorDar
  <2> QED BY <1>2, <1>8, <2>1, <2>2, <2>3 DEF SinServir
<1>12. \A p \in Queries : Entregadas(p)'
  BY <1>2, EntregadasIgual DEF InvServicio
<1>13. Unica'
  BY <1>2, <1>8 DEF InvServicio, Unica
<1> QED BY <1>2, <1>5, <1>10, <1>11, <1>12, <1>13 DEF InvServicio

\* EnvioFallido: the Worker that keeps the query will never read its path.
LEMMA ServicioFallido ==
  ASSUME InvTipos, InvMisma, InvServicio, EnvioFallido
  PROVE  InvServicio' /\ UNCHANGED <<guion, qc, reenviadas, avisos>>
<1>1. PICK h \in Queries, w \in Workers : h = qPlan /\ w = wPlan /\ ~Alcanza(w)
  BY DEF InvTipos, TiposMaster, EnvioFallido
<1>2. /\ UNCHANGED <<guion, conectados, ejecutando, fase, qActual, linea, aWorker, aMaster,
                     qc, cortado, reenviadas, avisos>>
      /\ qPlan' = Nadie /\ wPlan' = Nadie /\ cola' = <<h>> \o cola
  BY <1>1 DEF EnvioFallido, varsWorker, varsCliente
<1>3. cola \in Seq(Queries) /\ ~EnCola(h) /\ reenviadas' \in [Queries -> Seq(Nat)]
  BY <1>1, <1>2 DEF InvTipos, TiposMaster, InvMisma, Espera, InvServicio
<1>4. \A q \in Queries : EnCola(q)' => EnCola(q) \/ q = h
  BY <1>2, <1>3, PonerPrimera
<1>5. \A v \in Workers : Perdido(v)' <=> Perdido(v)
  BY <1>2 DEF Perdido
<1>6. ASSUME NEW v \in Workers, ejecutando[v] = h PROVE Perdido(v)
  <2>1. v = w \/ Perdido(v)
    BY <1>1, <1>6 DEF InvServicio, SinServir
  <2>2. CASE v = w
    <3>1. v \in conectados
      BY <1>6, QueriesNat DEF InvServicio, Vinculo
    <3> QED BY <1>1, <2>2, <3>1, ApartadoOcioso
  <2> QED BY <2>1, <2>2
<1>7. ASSUME NEW v \in Workers PROVE Vinculo(v)' /\ Atendido(v)'
  <2>1. v = wPlan' => v = wPlan
    BY <1>2, QueriesNat
  <2> QED BY <1>2, <1>3, <2>1, OtroIgual
<1>8. ASSUME NEW p \in Queries PROVE SinServir(p)'
  <2>1. SinServir(p)
    BY DEF InvServicio
  <2>2. PorDar(p)' => PorDar(p)
    BY <1>1, <1>2, <1>4, QueriesNat DEF PorDar
  <2>3. ASSUME NEW v \in Workers, ejecutando[v] = p PROVE EnCola(p)' => Perdido(v)
    BY <1>4, <1>6, <2>1, <2>3 DEF SinServir
  <2>4. p # qPlan'
    BY <1>2, QueriesNat
  <2> QED BY <1>2, <1>5, <2>1, <2>2, <2>3, <2>4 DEF SinServir
<1>9. \A p \in Queries : Entregadas(p)'
  BY <1>2, EntregadasIgual DEF InvServicio
<1>10. Unica'
  BY <1>2, <1>5 DEF InvServicio, Unica
<1> QED BY <1>2, <1>7, <1>8, <1>9, <1>10 DEF InvServicio

\* What the planner does tells nothing to a client.
LEMMA ServicioPlan ==
  ASSUME InvTipos, InvMisma, InvServicio, planificador_fifo
  PROVE  InvServicio' /\ UNCHANGED <<guion, qc, reenviadas, avisos>>
  BY ServicioAsignar, ServicioEnviar, ServicioFallido DEF planificador_fifo

\* The steps of a Worker process that end in its own part.
LEMMA ServicioProceso ==
  ASSUME InvTipos, InvServicio, NEW w \in Workers, ~Perdido(w),
         UNCHANGED <<guion, cola, conectados, ejecutando, qPlan, wPlan, qc, cortado,
                     reenviadas, avisos>>,
         \A v \in Workers \ {w} : UNCHANGED <<fase[v], qActual[v], linea[v], aMaster[v],
                                             aWorker[v]>>,
         fase'[w] # "arranque", fase[w] # "arranque",
         Atendido(w)'
  PROVE  InvServicio'
<1>1. ASSUME NEW v \in Workers PROVE Vinculo(v)' /\ Atendido(v)'
  <2>1. CASE v # w
    <3>1. reenviadas' \in [Queries -> Seq(Nat)]
      BY DEF InvServicio
    <3> QED BY <2>1, <3>1, OtroIgual
  <2>2. CASE v = w
    BY <2>2 DEF InvServicio, Vinculo
  <2> QED BY <2>1, <2>2
<1>2. ASSUME NEW v \in Workers PROVE Perdido(v) => Perdido(v)'
  BY DEF Perdido
<1>3. (\A p \in Queries : SinServir(p)') /\ Unica'
  BY <1>2, EsperasIgual
<1>4. \A p \in Queries : Entregadas(p)'
  BY EntregadasIgual DEF InvServicio
<1> QED BY <1>1, <1>3, <1>4 DEF InvServicio


\* The script starts before its first READ.
LEMMA ServicioQuery ==
  ASSUME InvTipos, InvMisma, InvServicio, NEW w \in Workers, RecibirQuery(w)
  PROVE  InvServicio' /\ UNCHANGED <<guion, qc, reenviadas, avisos>>
<1>1. PICK s \in Seq(Nat) : s = aWorker[w] /\ ParaWorker(s) /\ UnCamino(s)
  BY DEF InvTipos, TiposCorrientes, InvMisma, Corriente
<1>2. s # <<>> /\ Head(s) = 1 /\ fase[w] = "escucha"
  BY <1>1 DEF RecibirQuery, Escucha, recibir_operacion, OP_ENVIAR_PATH
<1>3. s[1] = 1
  BY <1>2, TrasUna
<1>4. UNCHANGED <<guion, cola, conectados, ejecutando, qPlan, wPlan, aMaster, qc, cortado,
                  reenviadas, avisos>>
  BY DEF RecibirQuery, varsMaster, varsPlan, varsCliente
<1>5. /\ fase \in [Workers -> PasosWorker] /\ aWorker \in [Workers -> Seq(Nat)]
      /\ qActual \in [Workers -> Queries \cup {Nadie}] /\ linea \in [Workers -> Nat]
      /\ guion \in Guiones
  BY DEF InvTipos, TiposWorker, TiposCorrientes, TiposMaster
<1>6. CASE EsPaquete(Tail(s), 3)
  <2>1. /\ Len(s) > 7 /\ s[2] = 24 /\ TrasPaquete(Tail(s), 3) = Queda(s, 8)
        /\ Campo(Tail(s), 1) = s[4] /\ Campo(Tail(s), 2) = s[6]
    BY <1>2, <1>6, TrasTres
  <2>2. s[4] \in Queries /\ s[6] = 0 /\ s[8] = TEXTO
    BY <1>1, <1>3, <2>1, CaminoLeido
  <2>3. s[4] \in Pend(aWorker[w]) /\ Pend(Queda(s, 8)) = {}
    BY <1>1, <2>1, <2>2, PendLeido
  <2>4. PICK q \in Queries : q = s[4]
    BY <2>2
  <2>5. /\ fase' = [fase EXCEPT ![w] = "ejecuta"]
        /\ qActual' = [qActual EXCEPT ![w] = q]
        /\ linea' = [linea EXCEPT ![w] = 1]
        /\ aWorker' = [aWorker EXCEPT ![w] = Queda(s, 8)]
    <3>1. /\ fase' = [fase EXCEPT ![w] = "ejecuta"]
          /\ qActual' = [qActual EXCEPT ![w] = Campo(Tail(s), 1)]
          /\ linea' = [linea EXCEPT ![w] = PrimeraLinea(Campo(Tail(s), 2))]
          /\ aWorker' = [aWorker EXCEPT ![w] = TrasPaquete(Tail(s), 3)]
      BY <1>1, <1>6 DEF RecibirQuery
    <3>2. PrimeraLinea(Campo(Tail(s), 2)) = 1
      BY <2>1, <2>2 DEF PrimeraLinea
    <3> QED BY <2>1, <2>4, <3>1, <3>2
  <2>6. PICK r : r = Queda(s, 8) /\ Pend(r) = {}
    BY <2>3
  <2>7. /\ fase'[w] = "ejecuta" /\ qActual'[w] = q /\ linea'[w] = 1 /\ Pend(aWorker'[w]) = {}
        /\ \A v \in Workers \ {w} : UNCHANGED <<fase[v], qActual[v], linea[v], aWorker[v]>>
    BY <1>5, <2>5, <2>6
  <2>8. ASSUME w \in conectados PROVE ejecutando[w] = q /\ w # wPlan /\ EnCurso(w, q)'
    <3>1. ejecutando[w] = q /\ Fines(aMaster[w]) = {}
      BY <2>3, <2>4, <2>8 DEF InvMisma, Conocida
    <3>2. EnCurso(w, q) /\ w # wPlan
      BY <2>3, <2>8, <3>1 DEF InvServicio, Atendido, InvMisma, Apartado
    <3>3. PICK r0 \in Nat : /\ Relato(aMaster[w], LecturasDe(q), r0, 0)
                            /\ q \notin cortado => r0 = Len(reenviadas[q])
      BY <2>3, <3>2 DEF EnCurso, EnMarcha
    <3>4. LecturasDe(q)' = LecturasDe(q) /\ Leidas(q, 0)' = Leidas(q, 0)
      BY <1>4, LecturasFijas
    <3>5. Leidas(q, 0) = 0 /\ linea'[w] - 1 = 0
      <4>1. 0 \in Nat
        OBVIOUS
      <4>2. Leidas(q, 0) = 0
        BY <1>5, <4>1, LeidasEs
      <4> QED BY <2>7, <4>2
    <3>6. EnMarcha(w, q)'
      <4>1. Leidas(q, linea[w] - 1)' = 0
        BY <1>4, <3>5 DEF Leidas
      <4>2. 0 \in Nat
        OBVIOUS
      <4> QED BY <1>4, <2>7, <3>1, <3>3, <3>4, <4>1, <4>2 DEF EnMarcha
    <3> QED BY <1>4, <3>1, <3>2, <3>6 DEF EnCurso
  <2>9. Atendido(w)'
    BY <1>4, <2>4, <2>8, QueriesNat DEF Atendido
  <2>10. ~Perdido(w)
    BY <1>2 DEF Perdido
  <2> QED BY <1>2, <1>4, <2>7, <2>9, <2>10, ServicioProceso
<1>7. CASE ~EsPaquete(Tail(s), 3)
  <2>1. UNCHANGED <<qActual, linea, aWorker>> /\ fase' = [fase EXCEPT ![w] = "perdido"]
    BY <1>1, <1>7 DEF RecibirQuery
  <2>2. fase'[w] = "perdido" /\ \A v \in Workers \ {w} : fase'[v] = fase[v]
    BY <1>5, <2>1
  <2>3. ASSUME NEW q \in Queries, w \in conectados, ejecutando[w] = q PROVE EnCurso(w, q)'
    <3>1. EnCurso(w, q)
      BY <2>3 DEF InvServicio, Atendido
    <3>2. PICK r, k \in Nat : /\ Relato(aMaster[w], LecturasDe(q), r, k)
                              /\ q \notin cortado => r = Len(reenviadas[q])
                              /\ Pend(aWorker[w]) # {} => k = 0
      BY <3>1 DEF EnCurso, EnMarcha
    <3>3. LecturasDe(q)' = LecturasDe(q)
      BY <1>4, LecturasFijas
    <3>4. EnMarcha(w, q)'
      BY <1>4, <2>1, <2>2, <3>2, <3>3 DEF EnMarcha
    <3> QED BY <1>4, <3>1, <3>4 DEF EnCurso
  <2>4. Atendido(w)'
    BY <1>4, <2>2, <2>3 DEF InvServicio, Atendido, Ocioso
  <2>5. ~Perdido(w)
    BY <1>2 DEF Perdido
  <2> QED BY <1>2, <1>4, <2>1, <2>2, <2>4, <2>5, ServicioProceso
<1> QED BY <1>4, <1>6, <1>7

\* A stream that ends no query can be added to.
LEMMA SinFinales ==
  ASSUME NEW s \in Seq(Nat), UnFin(s), Fines(s) = {}
  PROVE  Abierto(s)
<1> SUFFICES ASSUME NEW i \in 1..Len(s), s[i] = OP_FIN_QUERY PROVE FALSE
  BY DEF Abierto
<1>1. s[i + 3] \in Queries
  BY DEF UnFin
<1> QED BY <1>1 DEF Fines

\* What line n of the script of q sends follows what the lines before it sent.
LEMMA LineaDice ==
  ASSUME EndAlFinal, guion \in Guiones, NEW w \in Workers, NEW q \in Queries,
         qActual[w] = q, NEW n \in 1..Len(guion[q]), linea[w] = n,
         NEW p \in Emite(w, guion[q][n]),
         NEW s \in Seq(Nat), Abierto(s), NEW r \in Nat,
         Relato(s, LecturasDe(q), r, Leidas(q, n - 1))
  PROVE  Relato(s \o p, LecturasDe(q), r, Leidas(q, n))
<1>1. PICK L \in Seq(Nat) : L = LecturasDe(q) /\ Len(L) = Total(q) /\ Total(q) \in Nat
  BY LecturasEs
<1>2. PICK x : x = guion[q][n]
  OBVIOUS
<1>3. n \in Nat
  BY LineasHasta
<1>4. CASE x = "READ"
  <2>1. PICK k \in Nat, j \in Nat :
          /\ k = Leidas(q, n - 1) /\ j = Leidas(q, n) /\ j = k + 1 /\ k < Len(L)
          /\ L[k + 1] = Dato(q, n)
    <3>1. /\ Leidas(q, n - 1) \in Nat /\ Leidas(q, n) = Leidas(q, n - 1) + 1
          /\ Leidas(q, n - 1) < Total(q)
          /\ LecturasDe(q)[Leidas(q, n - 1) + 1] = Dato(q, n)
      BY <1>2, <1>4, LecturaDeLinea
    <3> QED BY <1>1, <3>1
  <2>2. Relato(s, L, r, k)
    BY <1>1, <2>1
  <2>3. CASE p = ResultadoDe(q, n)
    <3>1. PICK d \in Nat, t \in Nat : d = Dato(q, n) /\ t = TEXTO
      BY <1>3, DatoNat DEF TEXTO
    <3>2. p = <<1020, 24, 4, t, 4, 4, 4, d>>
      BY <1>3, <2>3, <3>1, Palabras
    <3>3. p \in Seq(Nat) /\ Len(p) = 8 /\ p[1] = 1020 /\ p[8] = d
      BY <3>2
    <3>4. Sigue(p, L, k, j)
      BY <2>1, <3>1, <3>3 DEF Sigue, OP_RESP_READ_OK
    <3>5. Relato(s \o p, L, r, j)
      BY <2>2, <3>3, <3>4, RelatoMas
    <3> QED BY <1>1, <2>1, <3>5
  <2>4. CASE p = Paquete(OP_RESP_READ_ERR, <<>>)
    <3>1. p = <<1021, 0>>
      BY <2>4, PalabrasError
    <3>2. p \in Seq(Nat) /\ Len(p) >= 1 /\ p[1] = 1021
      BY <3>1
    <3>3. Sigue(p, L, k, j)
      BY <3>2 DEF Sigue, OP_RESP_READ_ERR
    <3>4. Relato(s \o p, L, r, j)
      BY <2>2, <3>2, <3>3, RelatoMas
    <3> QED BY <1>1, <2>1, <3>4
  <2>5. p = ResultadoDe(q, n) \/ p = Paquete(OP_RESP_READ_ERR, <<>>)
    BY <1>2, <1>4 DEF Emite, ResultadoDe
  <2> QED BY <2>3, <2>4, <2>5
<1>5. CASE x # "READ"
  <2>1. PICK k \in Nat : k = Leidas(q, n - 1) /\ k = Leidas(q, n)
    BY <1>2, <1>5, TrasElEnd
  <2>2. Relato(s, L, r, k)
    BY <1>1, <2>1
  <2>3. CASE x = "END"
    <3>1. n = Len(guion[q])
      BY <1>2, <2>3 DEF EndAlFinal
    <3>2. k = Len(L)
      BY <1>1, <2>1, <3>1 DEF Total
    <3>3. p = FinDe(q)
      BY <1>2, <2>3 DEF Emite, FinDe
    <3>4. p = <<500, 8, 4, q>>
      BY <3>3, Palabras
    <3>5. p \in Seq(Nat) /\ Len(p) = 4 /\ p[1] = 500
      BY <3>4, QueriesNat
    <3>6. Sigue(p, L, k, k)
      BY <3>2, <3>5 DEF Sigue, OP_FIN_QUERY
    <3>7. Relato(s \o p, L, r, k)
      BY <2>2, <3>5, <3>6, RelatoMas
    <3> QED BY <1>1, <2>1, <3>7
  <2>4. CASE x # "END"
    <3>1. p = <<>>
      BY <1>2, <1>5, <2>4 DEF Emite
    <3>2. s \o <<>> = s
      OBVIOUS
    <3> QED BY <1>1, <2>1, <2>2, <3>1, <3>2
  <2> QED BY <2>3, <2>4
<1> QED BY <1>4, <1>5

\* ciclo_instruccion: the result of the READ, in its place, or the END when
\* all were sent.
LEMMA ServicioCiclo ==
  ASSUME InvTipos, QidsBajos, EndAlFinal, InvMisma, InvServicio, NEW w \in Workers,
         ciclo_instruccion(w)
  PROVE  InvServicio' /\ UNCHANGED <<guion, qc, reenviadas, avisos>>
<1>1. fase[w] = "ejecuta" /\ ~desalojado[w] /\ ~query_cancelada[w]
  BY DEF InvTipos, InvBanderas, OrdenViejaNoAlcanza, ciclo_instruccion
<1>2. PICK s \in Emite(w, guion[qActual[w]][linea[w]]) : AlMaster(w, s)
  BY <1>1 DEF ciclo_instruccion
<1>3. PICK q \in Queries : q = qActual[w]
  BY <1>1 DEF InvTipos, TiposWorker, Ejecucion
<1>4. /\ fase \in [Workers -> PasosWorker] /\ conectados \subseteq Workers
      /\ qActual \in [Workers -> Queries \cup {Nadie}] /\ linea \in [Workers -> Nat]
      /\ aMaster \in [Workers -> Seq(Nat)] /\ guion \in Guiones
      /\ ejecutando \in [Workers -> Queries \cup {Nadie}]
  BY DEF InvTipos, TiposWorker, TiposMaster, TiposCorrientes
<1>5. PICK n \in Nat, L \in Nat : n = linea[w] /\ L = Len(guion[q]) /\ n \in 1..L
  <2>1. linea[w] \in 1..Len(guion[q]) /\ Len(guion[q]) \in Nat
    BY <1>1, <1>3, <1>4, LineasHasta DEF InvTipos, TiposWorker, Ejecucion
  <2> QED BY <1>4, <2>1
<1>6. /\ UNCHANGED <<guion, cola, conectados, ejecutando, qPlan, wPlan, aWorker, qc, cortado,
                     reenviadas, avisos>>
      /\ fase' = [fase EXCEPT ![w] = IF n = L THEN "escucha" ELSE @]
      /\ qActual' = [qActual EXCEPT ![w] = IF n = L THEN Nadie ELSE @]
      /\ linea' = [linea EXCEPT ![w] = IF n = L THEN 0 ELSE @ + 1]
  BY <1>1, <1>3, <1>5 DEF ciclo_instruccion, varsMaster, varsPlan, varsCliente
<1>7. \A v \in Workers \ {w} : UNCHANGED <<fase[v], qActual[v], linea[v], aMaster[v],
                                          aWorker[v]>>
  <2>1. \A v \in Workers \ {w} : aMaster'[v] = aMaster[v]
    BY <1>2, <1>4 DEF AlMaster
  <2> QED BY <1>4, <1>6, <2>1
<1>8. fase'[w] # "arranque" /\ (fase'[w] = "ejecuta" => n # L)
  BY <1>1, <1>4, <1>6
<1>9. fase'[w] = "ejecuta" => qActual'[w] = q /\ linea'[w] = n + 1
  BY <1>3, <1>4, <1>5, <1>6, <1>8
<1>10. ASSUME w \in conectados PROVE ejecutando[w] = q /\ w # wPlan /\ EnCurso(w, q)'
  <2>1. ejecutando[w] = q /\ w # wPlan /\ EnCurso(w, q)
    <3>1. Atendido(w)
      BY DEF InvServicio
    <3>2. ejecutando[w] # Nadie /\ w # wPlan
      BY <1>1, <1>10, <3>1 DEF Atendido, Ocioso
    <3>3. PICK p \in Queries : p = ejecutando[w] /\ EnCurso(w, p)
      BY <1>4, <1>10, <3>1, <3>2 DEF Atendido
    <3>4. p = q
      BY <1>1, <1>3, <3>3 DEF EnCurso, EnMarcha
    <3> QED BY <3>2, <3>3, <3>4
  <2>2. PICK r \in Nat : /\ Relato(aMaster[w], LecturasDe(q), r, Leidas(q, n - 1))
                         /\ q \notin cortado => r = Len(reenviadas[q])
                         /\ Fines(aMaster[w]) = {}
    BY <1>1, <1>5, <2>1 DEF EnCurso, EnMarcha
  <2>3. aMaster[w] \in Seq(Nat) /\ UnFin(aMaster[w])
    BY <1>4 DEF InvMisma, Corriente
  <2>4. Relato(aMaster[w] \o s, LecturasDe(q), r, Leidas(q, n))
    <3>1. Abierto(aMaster[w])
      BY <2>2, <2>3, SinFinales
    <3>2. s \in Emite(w, guion[q][n]) /\ n \in 1..Len(guion[q])
      BY <1>2, <1>3, <1>5
    <3> QED BY <1>3, <1>4, <1>5, <2>2, <2>3, <3>1, <3>2, LineaDice
  <2>5. PICK a : a = aMaster[w] \o s
    OBVIOUS
  <2>6. aMaster'[w] = a
    <3>1. w \notin cortado
      BY <1>10 DEF InvServicio, Vinculo
    <3> QED BY <1>2, <1>4, <2>5, <3>1 DEF AlMaster
  <2>7. fase'[w] = "ejecuta" => Fines(aMaster'[w]) = {}
    <3>1. \/ Fines(aMaster'[w]) \subseteq Fines(aMaster[w])
          \/ guion[q][linea[w]] = "END"
      BY <1>1, <1>2, <1>3, EmiteFin
    <3>2. guion[q][n] = "END" => n = L
      BY <1>4, <1>5 DEF EndAlFinal
    <3> QED BY <1>5, <1>8, <2>2, <3>1, <3>2
  <2>8. Pend(aWorker[w]) = {}
    <3>1. q \notin Pend(aWorker[w])
      BY <1>3 DEF InvMisma, UnSolo
    <3>2. \A p \in Pend(aWorker[w]) : ejecutando[w] = p
      BY <1>10 DEF InvMisma, Conocida
    <3> QED BY <2>1, <3>1, <3>2
  <2>9. Leidas(q, n) \in Nat /\ LecturasDe(q)' = LecturasDe(q)
    <3>1. Leidas(q, n) \in Nat
      BY <1>4, LeidasEs
    <3> QED BY <1>6, <3>1, LecturasFijas
  <2>10. Leidas(q, linea[w] - 1)' = Leidas(q, n) \/ fase'[w] # "ejecuta"
    <3>1. (n + 1) - 1 = n
      OBVIOUS
    <3> QED BY <1>6, <1>9, <3>1 DEF Leidas
  <2>11. EnMarcha(w, q)'
    BY <1>6, <1>9, <2>2, <2>4, <2>5, <2>6, <2>7, <2>8, <2>9, <2>10 DEF EnMarcha
  <2> QED BY <1>6, <2>1, <2>11 DEF EnCurso
<1>11. Atendido(w)'
  BY <1>6, <1>10, QueriesNat DEF Atendido
<1>12. ~Perdido(w)
  BY <1>1 DEF Perdido
<1> QED BY <1>1, <1>6, <1>7, <1>8, <1>11, <1>12, ServicioProceso

\* What is on the stream of a listed Worker is of the query it has.
LEMMA SirveA ==
  ASSUME InvTipos, InvServicio, NEW w \in conectados, aMaster[w] # <<>>
  PROVE  /\ w # wPlan /\ ~Perdido(w)
         /\ \E q \in Queries : ejecutando[w] = q /\ EnCurso(w, q) /\ ~PorDar(q)
<1>1. w \in Workers /\ ejecutando[w] \in Queries \cup {Nadie}
  BY DEF InvTipos, TiposMaster
<1>2. ejecutando[w] # Nadie /\ w # wPlan
  BY <1>1 DEF InvServicio, Atendido, Ocioso
<1>3. ~Perdido(w)
  BY DEF Perdido
<1>4. PICK q \in Queries : ejecutando[w] = q /\ EnCurso(w, q)
  BY <1>1, <1>2 DEF InvServicio, Atendido
<1>5. ~PorDar(q)
  <2>1. SinServir(q)
    BY DEF InvServicio
  <2> QED BY <1>1, <1>2, <1>3, <1>4, <2>1 DEF SinServir, PorDar, EnCurso
<1> QED BY <1>2, <1>3, <1>4, <1>5

\* One more result.
LEMMA EntregadaMas ==
  ASSUME NEW q \in Queries, guion \in Guiones, reenviadas[q] \in Seq(Nat), Entregadas(q),
         NEW r \in Nat, r = Len(reenviadas[q]), r < Len(LecturasDe(q)),
         guion' = guion, reenviadas'[q] = Append(reenviadas[q], LecturasDe(q)[r + 1])
  PROVE  /\ Entregadas(q)' /\ reenviadas'[q] \in Seq(Nat)
         /\ Len(reenviadas'[q]) = r + 1
<1>1. PICK L \in Seq(Nat) : L = LecturasDe(q) /\ Len(L) = Total(q) /\ Total(q) \in Nat
  BY LecturasEs
<1>2. PICK d \in Nat : d = L[r + 1]
  <2>1. r + 1 \in 1..Len(L)
    BY <1>1
  <2> QED BY <2>1
<1>3. PICK a \in Seq(Nat) : /\ a = Append(reenviadas[q], d) /\ Len(a) = r + 1
                            /\ \A i \in 1..r : a[i] = reenviadas[q][i]
                            /\ a[r + 1] = d
  <2>1. PICK b \in Seq(Nat) : b = reenviadas[q] /\ Len(b) = r
    OBVIOUS
  <2>2. /\ Append(b, d) \in Seq(Nat) /\ Len(Append(b, d)) = r + 1
        /\ \A i \in 1..r : Append(b, d)[i] = b[i]
        /\ Append(b, d)[r + 1] = d
    BY <2>1
  <2> QED BY <2>1, <2>2
<1>4. ASSUME NEW i \in 1..(r + 1) PROVE a[i] = L[i]
  <2>1. CASE i = r + 1
    BY <1>2, <1>3, <2>1
  <2>2. CASE i # r + 1
    <3>1. i \in 1..r
      BY <2>2
    <3> QED BY <1>1, <1>3, <3>1 DEF Entregadas
  <2> QED BY <2>1, <2>2
<1>5. reenviadas'[q] = a /\ LecturasDe(q)' = L /\ Total(q)' = Total(q)
  BY <1>1, <1>2, <1>3, LecturasFijas
<1>6. Len(a) =< Total(q)
  BY <1>1, <1>3
<1>7. Entregadas(q)'
  BY <1>3, <1>4, <1>5, <1>6 DEF Entregadas
<1> QED BY <1>3, <1>5, <1>7

\* What is left on the stream when a result is taken follows it.
LEMMA CursoLectura ==
  ASSUME NEW w \in Workers, NEW q \in Queries, NEW t, NEW r \in Nat, NEW k \in Nat,
         UNCHANGED <<guion, cortado, fase, qActual, linea, aWorker, qc>>,
         aMaster'[w] = t, Relato(t, LecturasDe(q), r, k),
         q \notin cortado => r = Len(reenviadas'[q]),
         fase[w] = "ejecuta" => /\ qActual[w] = q /\ k = Leidas(q, linea[w] - 1)
                                /\ Fines(t) = {},
         Pend(aWorker[w]) # {} => k = 0, qc[q] # "fuera"
  PROVE  EnCurso(w, q)'
<1>1. /\ LecturasDe(q)' = LecturasDe(q)
      /\ Leidas(q, linea[w] - 1)' = Leidas(q, linea[w] - 1)
  <2>1. LecturasDe(q)' = LecturasDe(q)
    BY LecturasFijas
  <2> QED BY <2>1 DEF Leidas
<1>2. EnMarcha(w, q)'
  BY <1>1 DEF EnMarcha
<1> QED BY <1>2 DEF EnCurso

\* What is forwarded is the next READ of the script of the query; when its end
\* was told, nothing is.
LEMMA ServicioLectura ==
  ASSUME InvTipos, InvMisma, InvServicio, NEW w \in Workers, RecibirLectura(w)
  PROVE  /\ InvServicio' /\ UNCHANGED <<guion, qc, avisos>>
         /\ \/ UNCHANGED reenviadas
            \/ \E q \in Queries :
              /\ avisos[q] = <<>> /\ qc[q] # "fuera"
              /\ Len(reenviadas[q]) < Len(LecturasDe(q))
              /\ reenviadas' = [reenviadas EXCEPT ![q] =
                    Append(reenviadas[q], LecturasDe(q)[Len(reenviadas[q]) + 1])]
<1>1. PICK s \in Seq(Nat) : s = aMaster[w] /\ UnFin(s)
  BY DEF InvTipos, TiposCorrientes, InvMisma, Corriente
<1>2. /\ s # <<>> /\ Head(s) = OP_RESP_READ_OK /\ EsPaquete(Tail(s), 3) /\ w \in conectados
  BY <1>1 DEF RecibirLectura, recibir_operacion, OP_RESP_READ_OK
<1>3. /\ Len(s) > 7 /\ s[1] = OP_RESP_READ_OK /\ Campo(Tail(s), 3) = s[8]
      /\ TrasPaquete(Tail(s), 3) = Queda(s, 8)
  BY <1>2, TrasUna, TrasTres
<1>4. /\ w # wPlan /\ ~Perdido(w)
      /\ \E q \in Queries : ejecutando[w] = q /\ EnCurso(w, q) /\ ~PorDar(q)
  BY <1>1, <1>2, SirveA
<1>5. PICK q \in Queries : ejecutando[w] = q /\ EnCurso(w, q) /\ ~PorDar(q)
  BY <1>4
<1>6. PICK r, k \in Nat :
        /\ Relato(s, LecturasDe(q), r, k)
        /\ q \notin cortado => r = Len(reenviadas[q])
        /\ fase[w] = "ejecuta" => /\ qActual[w] = q /\ k = Leidas(q, linea[w] - 1)
                                  /\ Fines(s) = {}
        /\ Pend(aWorker[w]) # {} => k = 0
  BY <1>1, <1>5 DEF EnCurso, EnMarcha
<1>7. /\ reenviadas \in [Queries -> Seq(Nat)] /\ guion \in Guiones
      /\ aMaster \in [Workers -> Seq(Nat)]
  BY DEF InvServicio, InvTipos, TiposMaster, TiposCorrientes
<1>8. /\ r < Len(LecturasDe(q)) /\ s[8] = LecturasDe(q)[r + 1]
      /\ Relato(Queda(s, 8), LecturasDe(q), r + 1, k)
  <2>1. LecturasDe(q) \in Seq(Nat)
    BY <1>7, LecturasEs
  <2> QED BY <1>3, <1>6, <2>1, RelatoLectura
<1>9. PICK t : /\ t = Queda(s, 8) /\ Fines(t) \subseteq Fines(s)
               /\ Relato(t, LecturasDe(q), r + 1, k)
  <2>1. 8 \in Nat /\ 8 =< Len(s)
    BY <1>3
  <2> QED BY <1>1, <1>8, <2>1, FinesQueda
<1>10. /\ UNCHANGED <<guion, cola, conectados, ejecutando, qPlan, wPlan, fase, qActual,
                      linea, aWorker, cortado, qc, avisos>>
       /\ aMaster' = [aMaster EXCEPT ![w] = t]
       /\ IF q \notin cortado
          THEN reenviadas' = [reenviadas EXCEPT ![q] = Append(reenviadas[q], s[8])]
          ELSE reenviadas' = reenviadas
  <2>1. ejecutando[w] # Nadie
    BY <1>5, QueriesNat
  <2>2. UNCHANGED <<guion, cola, conectados, ejecutando, qPlan, wPlan, fase, qActual,
                    linea, aWorker, cortado, qc, avisos>>
    BY DEF RecibirLectura, varsMaster, varsPlan, varsWorker
  <2> QED BY <1>1, <1>3, <1>5, <1>9, <2>1, <2>2 DEF RecibirLectura, SocketAbierto
<1>11. aMaster'[w] = t /\ \A v \in Workers \ {w} : aMaster'[v] = aMaster[v]
  BY <1>7, <1>10
<1>12. fase[w] # "arranque"
  BY <1>1, <1>2 DEF InvServicio, Vinculo
<1>13. ASSUME NEW v \in Workers PROVE Perdido(v) => Perdido(v)'
  BY <1>4, <1>10, <1>11 DEF Perdido
<1>14. r + 1 \in Nat
  OBVIOUS
<1>15. CASE q \in cortado
  <2>1. EnCurso(w, q)'
    BY <1>5, <1>6, <1>9, <1>10, <1>11, <1>14, <1>15, CursoLectura DEF EnCurso
  <2>2. Atendido(w)'
    BY <1>4, <1>5, <1>10, <2>1, QueriesNat DEF Atendido
  <2>3. InvServicio'
    BY <1>4, <1>10, <1>11, <1>12, <1>15, <2>2, ServicioProceso
  <2> QED BY <1>10, <1>15, <2>3
<1>16. CASE q \notin cortado
  <2>1. PICK a : a = Append(reenviadas[q], LecturasDe(q)[r + 1])
    OBVIOUS
  <2>2. reenviadas' = [reenviadas EXCEPT ![q] = a]
    BY <1>8, <1>10, <1>16, <2>1
  <2>3. reenviadas'[q] = a /\ \A p \in Queries \ {q} : reenviadas'[p] = reenviadas[p]
    BY <1>7, <2>2
  <2>4. Entregadas(q)' /\ a \in Seq(Nat) /\ Len(reenviadas'[q]) = r + 1
    <3>1. Entregadas(q) /\ reenviadas[q] \in Seq(Nat) /\ r = Len(reenviadas[q])
      BY <1>6, <1>7, <1>16 DEF InvServicio
    <3>2. reenviadas'[q] = Append(reenviadas[q], LecturasDe(q)[r + 1]) /\ guion' = guion
      BY <1>10, <2>1, <2>3
    <3> QED BY <1>7, <1>8, <2>3, <3>1, <3>2, EntregadaMas
  <2>5. ASSUME NEW p \in Queries PROVE Entregadas(p)'
    BY <1>10, <2>3, <2>4, EntregadasIgual DEF InvServicio
  <2>6. reenviadas' \in [Queries -> Seq(Nat)]
    BY <1>7, <2>2, <2>4
  <2>7. EnCurso(w, q)'
    BY <1>5, <1>6, <1>9, <1>10, <1>11, <1>14, <2>4, CursoLectura DEF EnCurso
  <2>8. ASSUME NEW v \in Workers PROVE Vinculo(v)' /\ Atendido(v)'
    <3>1. CASE v = w
      <4>1. Vinculo(w)'
        BY <1>10, <1>12 DEF InvServicio, Vinculo
      <4>2. Atendido(w)'
        BY <1>4, <1>5, <1>10, <2>7, QueriesNat DEF Atendido
      <4> QED BY <3>1, <4>1, <4>2
    <3>2. CASE v # w
      <4>1. \A p \in Queries : ejecutando[v] = p => reenviadas'[p] = reenviadas[p] \/ Perdido(v)
        BY <1>4, <1>5, <2>3, <3>2 DEF InvServicio, Unica
      <4> QED BY <1>10, <1>11, <2>6, <3>2, <4>1, OtroIgual
    <3> QED BY <3>1, <3>2
  <2>9. \A p \in Queries : PorDar(p) => reenviadas'[p] = reenviadas[p]
    BY <1>5, <2>3
  <2>10. (\A p \in Queries : SinServir(p)') /\ Unica'
    BY <1>10, <1>13, <2>9, EsperasIgual
  <2>11. InvServicio'
    BY <1>10, <2>5, <2>6, <2>8, <2>10 DEF InvServicio
  <2>12. avisos[q] = <<>> /\ qc[q] # "fuera" /\ r = Len(reenviadas[q])
    BY <1>5, <1>6, <1>16 DEF InvServicio, EnCurso
  <2> QED BY <1>8, <1>10, <2>1, <2>2, <2>11, <2>12
<1> QED BY <1>15, <1>16

\* A query that ends is told, if it was not, and its Worker has none.
LEMMA ServicioAviso ==
  ASSUME InvTipos, InvServicio, NEW w \in Workers, NEW q \in Queries, ejecutando[w] = q,
         NEW m \in {"fin", "cancelada"},
         UNCHANGED <<guion, cola, qPlan, wPlan, fase, qActual, linea, aWorker, reenviadas, qc>>,
         ejecutando' = [ejecutando EXCEPT ![w] = Nadie],
         avisos' = IF q \notin cortado THEN [avisos EXCEPT ![q] = Append(@, m)] ELSE avisos,
         \A v \in Workers \ {w} : /\ aMaster'[v] = aMaster[v]
                                  /\ v \in conectados' <=> v \in conectados
                                  /\ v \in cortado' <=> v \in cortado,
         cortado \subseteq cortado', q \in cortado', aMaster'[w] = <<>>,
         Vinculo(w)', Atendido(w)'
  PROVE  /\ InvServicio' /\ qc[q] # "fuera"
         /\ q \notin cortado =>
              avisos[q] = <<>> /\ avisos' = [avisos EXCEPT ![q] = <<m>>]
<1>1. /\ ejecutando \in [Workers -> Queries \cup {Nadie}]
      /\ avisos \in [Queries -> Seq({"fin", "cancelada"})]
      /\ reenviadas' \in [Queries -> Seq(Nat)]
  BY DEF InvTipos, TiposMaster, InvServicio
<1>2. EnCurso(w, q)
  <2>1. w \in conectados
    BY QueriesNat DEF InvServicio, Vinculo
  <2> QED BY <2>1 DEF InvServicio, Atendido
<1>3. q \notin cortado => avisos[q] = <<>> /\ avisos' = [avisos EXCEPT ![q] = <<m>>]
  <2>1. Append(<<>>, m) = <<m>>
    OBVIOUS
  <2> QED BY <2>1 DEF InvServicio
<1>4. /\ avisos' \in [Queries -> Seq({"fin", "cancelada"})]
      /\ \A p \in Queries \ {q} : avisos'[p] = avisos[p]
  <2>1. <<m>> \in Seq({"fin", "cancelada"})
    OBVIOUS
  <2> QED BY <1>1, <1>3, <2>1
<1>5. ejecutando'[w] = Nadie /\ \A v \in Workers \ {w} : ejecutando'[v] = ejecutando[v]
  BY <1>1
<1>6. ASSUME NEW v \in Workers PROVE Vinculo(v)' /\ Atendido(v)'
  <2>1. CASE v = w
    BY <2>1
  <2>2. CASE v # w
    BY <1>1, <1>5, <2>2, OtroIgual
  <2> QED BY <2>1, <2>2
<1>7. ASSUME NEW v \in Workers PROVE Perdido(v) => Perdido(v)'
  BY DEF Perdido
<1>8. (\A p \in Queries : SinServir(p)') /\ Unica'
  BY <1>5, <1>7, EsperasIgual
<1>9. \A p \in Queries : Entregadas(p)'
  BY EntregadasIgual DEF InvServicio
<1>10. \A p \in Queries : p \notin cortado' => avisos'[p] = <<>>
  BY <1>4 DEF InvServicio
<1>11. InvServicio'
  BY <1>1, <1>4, <1>6, <1>8, <1>9, <1>10 DEF InvServicio
<1> QED BY <1>2, <1>3, <1>11 DEF EnCurso

\* The end is told when every READ of the script was forwarded; once.
LEMMA ServicioFin ==
  ASSUME InvTipos, InvMisma, InvServicio, NEW w \in Workers, RecibirFin(w)
  PROVE  /\ InvServicio' /\ UNCHANGED <<guion, qc, reenviadas>>
         /\ \/ UNCHANGED avisos
            \/ \E q \in Queries :
              /\ avisos[q] = <<>> /\ qc[q] # "fuera" /\ reenviadas[q] = LecturasDe(q)
              /\ avisos' = [avisos EXCEPT ![q] = <<"fin">>]
<1>1. PICK s \in Seq(Nat) : s = aMaster[w] /\ ParaMaster(s) /\ UnFin(s)
  BY DEF InvTipos, TiposCorrientes, InvMisma, Corriente
<1>2. s # <<>> /\ Head(s) = 500 /\ EsPaquete(Tail(s), 1) /\ w \in conectados
  BY <1>1 DEF RecibirFin, recibir_operacion, OP_FIN_QUERY
<1>3. /\ Len(s) > 3 /\ s[1] = 500 /\ TrasPaquete(Tail(s), 1) = Queda(s, 4)
      /\ Campo(Tail(s), 1) = s[4]
  BY <1>2, TrasUna, TrasUno
<1>4. s[4] \in Queries /\ s[1] = OP_FIN_QUERY
  BY <1>1, <1>3, FinLeido DEF OP_FIN_QUERY
<1>5. s[4] \in Fines(s)
  BY <1>1, <1>3, <1>4, FinesLeido
<1>6. PICK q \in Queries : q = s[4] /\ ejecutando[w] = q /\ EnCurso(w, q)
  <2>1. ejecutando[w] = s[4]
    <3>1. Conocida(w)
      BY <1>2 DEF InvMisma
    <3> QED BY <1>1, <1>5, <3>1 DEF Conocida
  <2>2. \E q \in Queries : ejecutando[w] = q /\ EnCurso(w, q)
    BY <1>1, <1>2, SirveA
  <2> QED BY <2>1, <2>2
<1>7. PICK r, k \in Nat :
        /\ Relato(s, LecturasDe(q), r, k)
        /\ q \notin cortado => r = Len(reenviadas[q])
        /\ fase[w] = "ejecuta" => Fines(s) = {}
  BY <1>1, <1>6 DEF EnCurso, EnMarcha
<1>8. PICK L \in Seq(Nat) : /\ L = LecturasDe(q) /\ Len(L) = Total(q)
                            /\ reenviadas[q] \in Seq(Nat) /\ Entregadas(q)
  BY LecturasEs DEF InvTipos, TiposMaster, InvServicio
<1>9. r = Len(L) /\ Queda(s, 4) = <<>>
  <2>1. Relato(s, L, r, k)
    BY <1>7, <1>8
  <2> QED BY <1>3, <1>4, <2>1, RelatoFin
<1>10. q \notin cortado => reenviadas[q] = L
  <2>1. SUFFICES ASSUME q \notin cortado PROVE reenviadas[q] = L
    OBVIOUS
  <2>2. PICK a \in Seq(Nat) : a = reenviadas[q] /\ Len(a) = Len(L)
    BY <1>7, <1>8, <1>9, <2>1
  <2>3. \A i \in 1..Len(a) : a[i] = L[i]
    BY <1>8, <2>2 DEF Entregadas
  <2>4. a = L
    BY <2>2, <2>3, SeqEqual
  <2> QED BY <2>2, <2>4
<1>11. /\ UNCHANGED <<guion, cola, conectados, qPlan, wPlan, fase, qActual, linea, aWorker,
                      reenviadas, qc>>
       /\ ejecutando' = [ejecutando EXCEPT ![w] = Nadie]
       /\ avisos' = IF q \notin cortado THEN [avisos EXCEPT ![q] = Append(@, "fin")]
                    ELSE avisos
       /\ aMaster' = [aMaster EXCEPT ![w] = <<>>] /\ cortado' = cortado \cup {q}
  <2>1. ejecutando[w] # Nadie /\ ejecutando[w] = Campo(Tail(aMaster[w]), 1)
    BY <1>1, <1>3, <1>6, QueriesNat
  <2>2. TrasPaquete(Tail(aMaster[w]), 1) = <<>>
    BY <1>1, <1>3, <1>9
  <2>3. aMaster' = [aMaster EXCEPT ![w] = <<>>]
    BY <2>2 DEF RecibirFin
  <2>4. UNCHANGED <<guion, cola, conectados, qPlan, wPlan, fase, qActual, linea, aWorker,
                    reenviadas, qc>>
    BY DEF RecibirFin, varsWorker, varsPlan
  <2>5. /\ ejecutando' = [ejecutando EXCEPT ![w] = Nadie]
        /\ avisos' = IF q \notin cortado THEN [avisos EXCEPT ![q] = Append(@, "fin")]
                     ELSE avisos
        /\ cortado' = cortado \cup {q}
    BY <1>6, <2>1 DEF RecibirFin, registrar_worker_libre, enviar_fin_query, SocketAbierto
  <2> QED BY <2>3, <2>4, <2>5
<1>12. /\ aMaster'[w] = <<>> /\ ejecutando'[w] = Nadie /\ q \notin Workers
       /\ \A v \in Workers \ {w} : aMaster'[v] = aMaster[v]
  <2>1. q \notin Workers
    BY SupuestosSesion
  <2> QED BY <1>11, <2>1 DEF InvTipos, TiposMaster, TiposCorrientes
<1>13. Vinculo(w)'
  BY <1>11, <1>12 DEF InvServicio, Vinculo
<1>14. Atendido(w)'
  <2>1. fase[w] # "ejecuta"
    BY <1>5, <1>7
  <2> QED BY <1>11, <1>12, <2>1, QueriesNat DEF Atendido, Ocioso
<1>15. /\ InvServicio' /\ qc[q] # "fuera"
       /\ q \notin cortado =>
            avisos[q] = <<>> /\ avisos' = [avisos EXCEPT ![q] = <<"fin">>]
  <2>1. "fin" \in {"fin", "cancelada"}
    OBVIOUS
  <2>2. \A v \in Workers \ {w} : /\ aMaster'[v] = aMaster[v]
                                 /\ v \in conectados' <=> v \in conectados
                                 /\ v \in cortado' <=> v \in cortado
    BY <1>11, <1>12
  <2>3. cortado \subseteq cortado' /\ q \in cortado'
    BY <1>11
  <2> QED BY <1>6, <1>11, <1>12, <1>13, <1>14, <2>1, <2>2, <2>3, ServicioAviso
<1>16. q \in cortado => UNCHANGED avisos
  BY <1>11
<1>17. UNCHANGED <<guion, qc, reenviadas>>
  BY <1>11
<1> QED BY <1>8, <1>10, <1>15, <1>16, <1>17

\* Behind an OP_RESP_READ_ERR comes its size, which ends the connection.
LEMMA ErrorDeja ==
  ASSUME NEW s \in Seq(Nat), s # <<>>, ParaMaster(s), s[1] = 1021
  PROVE  Queda(s, 1) # <<>> /\ Queda(s, 1)[1] = 0
<1>1. PICK P : Flujo(s, P, DelWorker) /\ 1 \in P
  BY DEF ParaMaster
<1>2. 3 \in P /\ s[2] = 0
  BY <1>1, FrenteMaster
<1>3. PICK n \in Nat : n = Len(s) /\ n >= 2
  BY <1>1, <1>2 DEF Flujo
<1>4. PICK t \in Seq(Nat) : /\ t = Queda(s, 1) /\ Len(t) = n - 1
                            /\ \A i \in 1..(n - 1) : t[i] = s[i + 1]
  <2>1. 1 \in Nat /\ 1 =< Len(s)
    BY <1>3
  <2>2. /\ Queda(s, 1) \in Seq(Nat) /\ Len(Queda(s, 1)) = Len(s) - 1
        /\ \A i \in 1..(Len(s) - 1) : Queda(s, 1)[i] = s[i + 1]
    BY <2>1, QuedaEs
  <2> QED BY <1>3, <2>2
<1>5. t[1] = 0 /\ t # <<>>
  <2>1. 1 \in 1..(n - 1) /\ 1 + 1 = 2
    BY <1>3
  <2>2. t[1] = s[1 + 1]
    BY <1>4, <2>1
  <2>3. Len(t) # 0
    BY <1>3, <1>4
  <2>4. t # <<>>
    BY <2>3
  <2> QED BY <1>2, <2>1, <2>2, <2>4
<1> QED BY <1>4, <1>5

\* RecibirDesconocida: what follows an OP_RESP_READ_ERR is not forwarded.
LEMMA ServicioDesconocida ==
  ASSUME InvTipos, InvMisma, InvServicio, NEW w \in Workers, RecibirDesconocida(w)
  PROVE  InvServicio' /\ UNCHANGED <<guion, qc, reenviadas, avisos>>
<1>1. PICK s \in Seq(Nat) : s = aMaster[w] /\ ParaMaster(s) /\ UnFin(s)
  BY DEF InvTipos, TiposCorrientes, InvMisma, Corriente
<1>2. s # <<>> /\ Head(s) \notin {0, 500, 1020} /\ w \in conectados
  BY <1>1 DEF RecibirDesconocida, recibir_operacion, OP_RESP_READ_OK, OP_FIN_QUERY
<1>3. s[1] = 1021
  BY <1>1, <1>2, TrasUna, AvisoConocido
<1>4. PICK t : t = Queda(s, 1) /\ t # <<>> /\ t[1] = 0
  BY <1>1, <1>2, <1>3, ErrorDeja
<1>5. Fines(t) \subseteq Fines(s)
  <2>1. 1 \in Nat /\ 1 =< Len(s)
    BY <1>2
  <2> QED BY <1>1, <1>4, <2>1, FinesQueda
<1>6. w # wPlan /\ ~Perdido(w) /\ \E q \in Queries : ejecutando[w] = q /\ EnCurso(w, q)
  BY <1>1, <1>2, SirveA
<1>7. PICK q \in Queries : ejecutando[w] = q /\ EnCurso(w, q)
  BY <1>6
<1>8. /\ UNCHANGED <<guion, cola, conectados, ejecutando, qPlan, wPlan, fase, qActual,
                     linea, aWorker, cortado, reenviadas, qc, avisos>>
      /\ aMaster' = [aMaster EXCEPT ![w] = t]
  <2>1. Tail(s) = t
    <3>1. Tail(s) = Queda(s, 1)
      BY <1>2, TrasUna
    <3> QED BY <1>4, <3>1
  <2>2. aMaster' = [aMaster EXCEPT ![w] = t]
    BY <1>1, <2>1 DEF RecibirDesconocida
  <2>3. UNCHANGED <<guion, cola, conectados, ejecutando, qPlan, wPlan, fase, qActual,
                    linea, aWorker, cortado, reenviadas, qc, avisos>>
    BY DEF RecibirDesconocida, varsMaster, varsPlan, varsWorker, varsCliente
  <2> QED BY <2>2, <2>3
<1>9. aMaster'[w] = t /\ \A v \in Workers \ {w} : aMaster'[v] = aMaster[v]
  BY <1>8 DEF InvTipos, TiposCorrientes
<1>10. fase[w] # "arranque"
  BY <1>2 DEF InvMisma, Arranque
<1>11. EnCurso(w, q)'
  <2>1. PICK r, k \in Nat :
          /\ q \notin cortado => r = Len(reenviadas[q])
          /\ fase[w] = "ejecuta" => /\ qActual[w] = q /\ k = Leidas(q, linea[w] - 1)
                                    /\ Fines(s) = {}
          /\ Pend(aWorker[w]) # {} => k = 0
    BY <1>1, <1>7 DEF EnCurso, EnMarcha
  <2>2. Relato(t, LecturasDe(q), r, k)
    BY <1>4 DEF Relato
  <2>3. fase[w] = "ejecuta" => Fines(t) = {}
    BY <1>5, <2>1
  <2> QED BY <1>8, <1>9, <1>7, <2>1, <2>2, <2>3, CursoLectura DEF EnCurso
<1>12. Atendido(w)'
  BY <1>6, <1>8, <1>11, <1>7, QueriesNat DEF Atendido
<1> QED BY <1>6, <1>8, <1>9, <1>10, <1>12, ServicioProceso

\* The query of a Worker that goes away is cancelled where it was, unless it
\* had ended.
LEMMA ServicioDesconexion ==
  ASSUME InvTipos, InvMisma, InvServicio, NEW w \in Workers, manejar_desconexion_worker(w)
  PROVE  /\ InvServicio' /\ UNCHANGED <<guion, qc, reenviadas>>
         /\ \/ UNCHANGED avisos
            \/ \E q \in Queries : /\ avisos[q] = <<>> /\ qc[q] # "fuera"
                                  /\ avisos' = [avisos EXCEPT ![q] = <<"cancelada">>]
<1>1. /\ UNCHANGED <<guion, cola, qPlan, wPlan, fase, qActual, linea, aWorker, reenviadas, qc>>
      /\ w \in conectados /\ conectados' = conectados \ {w}
      /\ ejecutando' = [ejecutando EXCEPT ![w] = Nadie]
      /\ aMaster' = [aMaster EXCEPT ![w] = <<>>]
  BY DEF manejar_desconexion_worker, varsPlan, varsWorker
<1>2. /\ conectados \subseteq Workers /\ ejecutando \in [Workers -> Queries \cup {Nadie}]
      /\ aMaster \in [Workers -> Seq(Nat)] /\ reenviadas' \in [Queries -> Seq(Nat)]
  BY <1>1 DEF InvTipos, TiposMaster, TiposCorrientes, InvServicio
<1>3. /\ ejecutando'[w] = Nadie /\ aMaster'[w] = <<>> /\ w \notin conectados'
      /\ \A v \in Workers \ {w} : /\ aMaster'[v] = aMaster[v]
                                  /\ ejecutando'[v] = ejecutando[v]
                                  /\ v \in conectados' <=> v \in conectados
  BY <1>1, <1>2
<1>4. fase[w] # "arranque"
  BY <1>1 DEF InvMisma, Arranque
<1>5. Vinculo(w)' /\ Atendido(w)'
  BY <1>1, <1>3, <1>4 DEF Vinculo, Atendido
<1>6. CASE ejecutando[w] = Nadie
  <2>1. cortado' = cortado \cup {w} /\ avisos' = avisos
    BY <1>6 DEF manejar_desconexion_worker
  <2>2. ASSUME NEW v \in Workers PROVE Vinculo(v)' /\ Atendido(v)'
    <3>1. CASE v = w
      BY <1>5, <3>1
    <3>2. CASE v # w
      <4>1. v \in cortado' <=> v \in cortado
        BY <2>1, <3>2
      <4>2. cortado \subseteq cortado'
        BY <2>1
      <4> QED BY <1>1, <1>2, <1>3, <3>2, <4>1, <4>2, OtroIgual
    <3> QED BY <3>1, <3>2
  <2>3. ASSUME NEW v \in Workers PROVE Perdido(v) => Perdido(v)'
    BY <1>1, <1>3 DEF Perdido
  <2>4. (\A p \in Queries : SinServir(p)') /\ Unica'
    <3>1. cortado \subseteq cortado'
      BY <2>1
    <3> QED BY <1>1, <1>3, <2>3, <3>1, EsperasIgual
  <2>5. \A p \in Queries : Entregadas(p)'
    BY <1>1, EntregadasIgual DEF InvServicio
  <2>6. InvServicio'
    BY <1>2, <2>1, <2>2, <2>4, <2>5 DEF InvServicio
  <2> QED BY <1>1, <2>1, <2>6
<1>7. CASE ejecutando[w] # Nadie
  <2>1. PICK q \in Queries : ejecutando[w] = q
    BY <1>2, <1>7
  <2>2. /\ avisos' = IF q \notin cortado THEN [avisos EXCEPT ![q] = Append(@, "cancelada")]
                     ELSE avisos
        /\ cortado' = cortado \cup {w, q}
    BY <1>7, <2>1 DEF manejar_desconexion_worker, Cancelar, enviar_fin_query, SocketAbierto
  <2>3. q \notin Workers
    BY SupuestosSesion
  <2>4. /\ cortado \subseteq cortado' /\ q \in cortado'
        /\ \A v \in Workers \ {w} : /\ aMaster'[v] = aMaster[v]
                                    /\ v \in conectados' <=> v \in conectados
                                    /\ v \in cortado' <=> v \in cortado
    BY <1>3, <2>2, <2>3
  <2>5. "cancelada" \in {"fin", "cancelada"}
    OBVIOUS
  <2>6. /\ InvServicio' /\ qc[q] # "fuera"
        /\ q \notin cortado =>
             avisos[q] = <<>> /\ avisos' = [avisos EXCEPT ![q] = <<"cancelada">>]
    BY <1>1, <1>3, <1>5, <2>1, <2>2, <2>4, <2>5, ServicioAviso
  <2> QED BY <1>1, <2>2, <2>6
<1> QED BY <1>6, <1>7

\* A script closed by its END has no second one.
LEMMA UnEndAlFinal == EndAlFinal => UnSoloEnd
<1> SUFFICES ASSUME EndAlFinal, NEW g \in Guiones, NEW q \in Queries,
                    NEW i \in 1..Len(g[q]), NEW j \in 1..Len(g[q]),
                    g[q][i] = "END", g[q][j] = "END"
             PROVE  i = j
  BY DEF UnSoloEnd
<1> QED BY DEF EndAlFinal

\* The variables of Servicio, read in the session.
Pedidas == {q \in Queries : qc[q] # "fuera"}
Prometidas == [q \in Queries |-> LecturasDe(q)]

\* What the scripts read does not change.
LEMMA PrometidasFijas == UNCHANGED guion => Prometidas' = Prometidas
<1> SUFFICES ASSUME UNCHANGED guion PROVE Prometidas' = Prometidas
  OBVIOUS
<1>1. \A q \in Queries : LecturasDe(q)' = LecturasDe(q)
  BY LecturasFijas
<1> QED BY <1>1 DEF Prometidas

\* The steps that Servicio does not see.
LEMMA NoSeVe ==
  ASSUME UNCHANGED <<guion, reenviadas, avisos>>,
         \A q \in Queries : qc'[q] = "fuera" <=> qc[q] = "fuera"
  PROVE  UNCHANGED S!vars
<1>1. Prometidas' = Prometidas
  BY PrometidasFijas
<1>2. Pedidas' = Pedidas
  BY DEF Pedidas
<1> QED BY <1>1, <1>2 DEF S!vars, Prometidas, Pedidas

\* The initial states are those of Servicio.
LEMMA InitServicio == Init => S!Init
<1> SUFFICES ASSUME Init PROVE S!Init
  OBVIOUS
<1>1. guion \in Guiones /\ qc = [q \in Queries |-> "fuera"]
      /\ reenviadas = [q \in Queries |-> <<>>] /\ avisos = [q \in Queries |-> <<>>]
  BY DEF Init
<1>2. \A q \in Queries : LecturasDe(q) \in Seq(Nat)
  BY <1>1, LecturasEs
<1>3. Prometidas \in [Queries -> Seq(Nat)]
  BY <1>2 DEF Prometidas
<1>4. Pedidas = {}
  BY <1>1 DEF Pedidas
<1> QED BY <1>1, <1>3, <1>4 DEF S!Init, Prometidas, Pedidas

\* The arrival of a query is Pedir.
LEMMA LlegarEsPedir ==
  ASSUME InvTipos, NEW q \in Queries, UNCHANGED <<guion, reenviadas, avisos>>,
         qc[q] = "fuera", qc' = [qc EXCEPT ![q] = "espera"]
  PROVE  S!Pedir(q)
<1>1. Prometidas' = Prometidas
  BY PrometidasFijas
<1>2. qc \in [Queries -> PasosQC]
  BY DEF InvTipos, TiposDesalojo
<1>3. q \notin Pedidas /\ Pedidas' = Pedidas \cup {q}
  BY <1>2 DEF Pedidas
<1> QED BY <1>1, <1>3 DEF S!Pedir, Prometidas, Pedidas

\* What is forwarded is the next read of its script: Entregar.
LEMMA ReenviarEsEntregar ==
  ASSUME NEW q \in Queries, UNCHANGED <<guion, qc, avisos>>,
         avisos[q] = <<>>, qc[q] # "fuera",
         Len(reenviadas[q]) < Len(LecturasDe(q)),
         reenviadas' = [reenviadas EXCEPT ![q] =
            Append(reenviadas[q], LecturasDe(q)[Len(reenviadas[q]) + 1])]
  PROVE  S!Entregar(q)
<1>1. Prometidas' = Prometidas /\ Prometidas[q] = LecturasDe(q)
  BY PrometidasFijas DEF Prometidas
<1>2. q \in Pedidas /\ Pedidas' = Pedidas
  BY DEF Pedidas
<1>3. S!EnCurso(q)
  BY <1>2 DEF S!EnCurso, Pedidas
<1>4. Len(reenviadas[q]) < Len(Prometidas[q])
      /\ reenviadas' = [reenviadas EXCEPT ![q] =
            Append(@, Prometidas[q][Len(@) + 1])]
  BY <1>1
<1> QED BY <1>1, <1>2, <1>3, <1>4 DEF S!Entregar, Prometidas, Pedidas

\* An END that is heeded is Finalizar, and a Worker that is gone is Cancelar.
LEMMA AvisarEsTerminar ==
  ASSUME NEW q \in Queries, UNCHANGED <<guion, qc, reenviadas>>,
         avisos[q] = <<>>, qc[q] # "fuera"
  PROVE  /\ avisos' = [avisos EXCEPT ![q] = <<"fin">>] /\ reenviadas[q] = LecturasDe(q)
              => S!Finalizar(q)
         /\ avisos' = [avisos EXCEPT ![q] = <<"cancelada">>] => S!Cancelar(q)
<1>1. Prometidas' = Prometidas /\ Prometidas[q] = LecturasDe(q)
  BY PrometidasFijas DEF Prometidas
<1>2. q \in Pedidas /\ Pedidas' = Pedidas
  BY DEF Pedidas
<1>3. S!EnCurso(q)
  BY <1>2 DEF S!EnCurso, Pedidas
<1> QED BY <1>1, <1>2, <1>3 DEF S!Finalizar, S!Cancelar, Prometidas, Pedidas

InvEntero == InvSesion /\ InvServicio

\* InvServicio is inductive, and every step is one of Servicio or none: one
\* step per action.
LEMMA ServicioPaso ==
  InvEntero /\ QidsBajos /\ EndAlFinal /\ [Next]_vars => InvServicio' /\ [S!Next]_(S!vars)
<1> SUFFICES ASSUME InvEntero, QidsBajos, EndAlFinal, [Next]_vars
             PROVE  InvServicio' /\ [S!Next]_(S!vars)
  OBVIOUS
<1> USE DEF InvEntero, InvSesion
<1>1. CASE UNCHANGED vars
  <2>1. UNCHANGED <<guion, reenviadas, avisos, qc>>
    BY <1>1 DEF vars, varsCliente
  <2>2. InvServicio'
    BY <1>1, ServicioQuieto DEF vars, varsWorker, varsCliente
  <2> QED BY <2>1, <2>2, NoSeVe
<1>2. ASSUME NEW w \in Workers,
             \/ ArrancarWorker(w) \/ PasoStorage(w) \/ ConectarMaster(w) \/ Morir(w)
             \/ PasoWorker(w) \/ RecibirDesconocida(w)
      PROVE  InvServicio' /\ UNCHANGED <<guion, qc, reenviadas, avisos>>
  <2>1. CASE ArrancarWorker(w) \/ PasoStorage(w)
    BY <2>1, ServicioStorage
  <2>2. CASE ConectarMaster(w)
    BY <2>2, ServicioConectar
  <2>3. CASE Morir(w) \/ RecibirCierre(w)
    <3>1. Salir(w)
      BY <2>3 DEF Morir, RecibirCierre
    <3> QED BY <3>1, ServicioSalir
  <2>4. CASE RecibirQuery(w)
    BY <2>4, ServicioQuery
  <2>5. CASE RecibirOrden(w) \/ RecibirInesperado(w)
    BY <2>5, ServicioOrden
  <2>6. CASE ciclo_instruccion(w)
    BY <2>6, ServicioCiclo
  <2>7. CASE RecibirDesconocida(w)
    BY <2>7, ServicioDesconocida
  <2> QED BY <1>2, <2>1, <2>2, <2>3, <2>4, <2>5, <2>6, <2>7 DEF PasoWorker
<1>3. ASSUME NEW w \in Workers, RecibirLectura(w)
      PROVE  InvServicio' /\ [S!Next]_(S!vars)
  <2>1. InvServicio' /\ UNCHANGED <<guion, qc, avisos>>
    BY <1>3, ServicioLectura
  <2>2. CASE UNCHANGED reenviadas
    BY <2>1, <2>2, NoSeVe
  <2>3. CASE ~UNCHANGED reenviadas
    <3>1. \E q \in Queries : S!Entregar(q)
      BY <1>3, <2>1, <2>3, ServicioLectura, ReenviarEsEntregar
    <3> QED BY <2>1, <3>1 DEF S!Next
  <2> QED BY <2>2, <2>3
<1>4. ASSUME NEW w \in Workers, RecibirFin(w)
      PROVE  InvServicio' /\ [S!Next]_(S!vars)
  <2>1. InvServicio' /\ UNCHANGED <<guion, qc, reenviadas>>
    BY <1>4, ServicioFin
  <2>2. CASE UNCHANGED avisos
    BY <2>1, <2>2, NoSeVe
  <2>3. CASE ~UNCHANGED avisos
    <3>1. \E q \in Queries : S!Finalizar(q)
      BY <1>4, <2>1, <2>3, ServicioFin, AvisarEsTerminar
    <3> QED BY <2>1, <3>1 DEF S!Next
  <2> QED BY <2>2, <2>3
<1>5. ASSUME NEW w \in Workers, manejar_desconexion_worker(w)
      PROVE  InvServicio' /\ [S!Next]_(S!vars)
  <2>1. InvServicio' /\ UNCHANGED <<guion, qc, reenviadas>>
    BY <1>5, ServicioDesconexion
  <2>2. CASE UNCHANGED avisos
    BY <2>1, <2>2, NoSeVe
  <2>3. CASE ~UNCHANGED avisos
    <3>1. \E q \in Queries : S!Cancelar(q)
      BY <1>5, <2>1, <2>3, ServicioDesconexion, AvisarEsTerminar
    <3> QED BY <2>1, <3>1 DEF S!Next
  <2> QED BY <2>2, <2>3
<1>6. ASSUME NEW q \in Queries, LlegaQuery(q)
      PROVE  InvServicio' /\ S!Next
  <2>1. InvServicio' /\ S!Pedir(q)
    BY <1>6, ServicioLlega, LlegarEsPedir
  <2> QED BY <2>1 DEF S!Next
<1>7. ASSUME NEW q \in Queries, PasoHiloQ(q) \/ LeerQC(q)
      PROVE  /\ InvServicio' /\ UNCHANGED <<guion, reenviadas, avisos>>
             /\ \A p \in Queries : qc'[p] = "fuera" <=> qc[p] = "fuera"
  BY <1>7, ServicioHiloQ, ServicioLeerQC
<1>8. ASSUME NEW w \in Workers,
             \/ ArrancarWorker(w) \/ PasoStorage(w) \/ ConectarMaster(w) \/ Morir(w)
             \/ AtenderWorker(w) \/ PasoWorker(w)
      PROVE  InvServicio' /\ [S!Next]_(S!vars)
  <2>1. CASE RecibirLectura(w) \/ RecibirFin(w)
    BY <2>1, <1>3, <1>4
  <2>2. CASE manejar_desconexion_worker(w)
    BY <2>2, <1>5
  <2>3. CASE ~(RecibirLectura(w) \/ RecibirFin(w) \/ manejar_desconexion_worker(w))
    <3>1. InvServicio' /\ UNCHANGED <<guion, qc, reenviadas, avisos>>
      BY <1>2, <1>8, <2>3 DEF AtenderWorker
    <3> QED BY <3>1, NoSeVe
  <2> QED BY <2>1, <2>2, <2>3
<1>9. ASSUME NEW q \in Queries, LlegaQuery(q) \/ PasoHiloQ(q) \/ LeerQC(q)
      PROVE  InvServicio' /\ [S!Next]_(S!vars)
  BY <1>6, <1>7, <1>9, NoSeVe
<1>10. CASE planificador_fifo
  BY <1>10, ServicioPlan, NoSeVe
<1> QED BY <1>1, <1>8, <1>9, <1>10 DEF Next

\* ImplementaServicio: whatever Worker dies, at any moment, also between the
\* assignment of a query and the send of its path; whatever the planner and the
\* threads of the Master do, and whatever is lost or misread: what is forwarded
\* to each Query Control is what its own script read, in order and with none
\* missing, then one notice; a query whose Worker goes away gets what it read
\* before and one notice (master.c:441-482), and nothing more when the planner
\* puts it back in READY (master_planificacion.c:248) and another Worker runs it.
THEOREM SirveLoPedido ==
  ASSUME QidsBajos, EndAlFinal PROVE Spec => ImplementaServicio
<1>1. Init => InvEntero /\ S!Init
  BY TiposInit, MismaInit, ServicioInit, InitServicio DEF InvEntero, InvSesion
<1>2. InvEntero /\ [Next]_vars => InvEntero' /\ [S!Next]_(S!vars)
  BY MismaPaso, UnEndAlFinal, ServicioPaso DEF InvEntero
<1> QED BY <1>1, <1>2, PTL DEF Spec, ImplementaServicio, S!Spec
=============================================================================
