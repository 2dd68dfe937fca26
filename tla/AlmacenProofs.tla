--------------------------- MODULE AlmacenProofs ---------------------------
(***************************************************************************)
(* Proofs about Almacen.                                                   *)
(*                                                                         *)
(* For any number of threads, any disk, restarts, and TAG asked onto what  *)
(* exists: Tipos, that no block other than block 0 is ever recorded or     *)
(* indexed, that a File:Tag that is listed has its t_tag, and that the     *)
(* t_tag a thread works on is not freed under it.                          *)
(*                                                                         *)
(* With one thread and no TAG onto what exists: Copia, that memory is a    *)
(* copy of the disk, and from it Espejo, the refinement of Catalogo.       *)
(***************************************************************************)
EXTENDS Almacen, WellFoundedInduction, FiniteSetTheorems, SequenceTheorems, TLAPS

-----------------------------------------------------------------------------
(* Numbers, sequences and the sets of values. *)

\* A set of naturals that is not empty has a least element.
LEMMA MinimoNat ==
  ASSUME NEW S \in SUBSET Nat, S # {}
  PROVE  Min(S) \in S /\ \A y \in S : Min(S) =< y
<1> DEFINE T == {0..x : x \in S}
<1>1. T \subseteq FiniteSubsetsOf(Nat) /\ T # {}
  <2>1. ASSUME NEW x \in S PROVE 0..x \in FiniteSubsetsOf(Nat)
    <3>1. 0 \in Int /\ x \in Int
      OBVIOUS
    <3>2. IsFiniteSet(0..x)
      BY <3>1, FS_Interval
    <3>3. 0..x \in SUBSET Nat
      OBVIOUS
    <3> QED BY <3>2, <3>3 DEF FiniteSubsetsOf
  <2> QED BY <2>1
<1>2. PICK t \in T :
         \A u \in T : <<u, t>> \notin StrictSubsetOrdering(Nat)
  BY <1>1, FS_StrictSubsetOrderingWellFounded, WFMin
<1>3. PICK x \in S : t = 0..x
  BY <1>2
<1>4. ASSUME NEW y \in S, y < x PROVE FALSE
  <2>1. 0..y \subseteq 0..x /\ x \in 0..x /\ x \notin 0..y
    BY <1>4
  <2>2. 0..y \in T /\ 0..y \in SUBSET Nat /\ 0..x \in SUBSET Nat
    BY <1>4
  <2>3. <<0..y, t>> \in StrictSubsetOrdering(Nat)
    BY <1>3, <2>1, <2>2 DEF StrictSubsetOrdering
  <2> QED BY <1>2, <2>2, <2>3
<1>5. x \in S /\ \A y \in S : x =< y
  BY <1>4
<1>6. QED
  BY <1>5 DEF Min

LEMMA MaximoConCero ==
  ASSUME NEW x \in Int
  PROVE  Max({0, x}) = IF x > 0 THEN x ELSE 0
<1> DEFINE m == IF x > 0 THEN x ELSE 0
<1>1. m \in {0, x} /\ \A y \in {0, x} : m >= y
  OBVIOUS
<1>2. \A z \in {0, x} : (\A y \in {0, x} : z >= y) => z = m
  OBVIOUS
<1> QED BY <1>1, <1>2 DEF Max

\* The bitmap has a bit for each block.
LEMMA BloquesConBit ==
  ASSUME cant_block \in Discos
  PROVE  0 \in Bloques /\ Bloques \subseteq Bits
<1>1. cant_block \in Nat \ {0} /\ BITS \in Nat \ {0}
  BY SupuestosAlmacen
<1> DEFINE d == cant_block + BITS - 1
           q == d \div BITS
<1>2. q \in Nat /\ BITS * q > d - BITS
  BY <1>1, Z3
<1>3. BITS * q \in Int /\ BITS * q >= cant_block
  BY <1>1, <1>2
<1> QED BY <1>1, <1>3 DEF Bloques, Bits

\* Start: there is a t_tag for each File:Tag.
LEMMA IdInyecta ==
  Id \in [FileTags -> Ids] /\ \A f, g \in FileTags : Id[f] = Id[g] => f = g
<1>1. PICK b : b \in Bijection(1..Cardinality(FileTags), FileTags)
  BY SupuestosAlmacen, FS_CardinalityType DEF ExistsBijection
<1>2. Cardinality(FileTags) \in Nat /\ Cardinality(Hilos) \in Nat \ {0}
  BY SupuestosAlmacen, FS_CardinalityType, FS_EmptySet
<1>3. 1..Cardinality(FileTags) \subseteq Ids
  BY <1>2, SupuestosAlmacen DEF Ids
<1>4. \A f \in FileTags : \E i \in 1..Cardinality(FileTags) : b[i] = f
  BY <1>1 DEF Bijection, Surjection
<1> DEFINE id == [f \in FileTags |-> CHOOSE i \in 1..Cardinality(FileTags) : b[i] = f]
<1>5. \A f \in FileTags : id[f] \in 1..Cardinality(FileTags) /\ b[id[f]] = f
  BY <1>4
<1>6. id \in [FileTags -> Ids] /\ \A f, g \in FileTags : id[f] = id[g] => f = g
  BY <1>3, <1>5
<1> QED BY <1>6 DEF Id

\* What is ever recorded of a logical block, the t_tag and the folders there are.
Registros == [nombre_block : Nombres, bloque_fisico_asociado : {0}]
Tags      == [estado : Estados, tam : Tamanos, usado : Ids \cup {Nada, Colgante},
              lista_block_logicos : Seq(Registros)]
Carpetas  == [estado : Estados, tam : Tamanos, usado : BOOLEAN,
              enlaces : [Nombres -> Bloques \cup {Nada}]]

LEMMA NadaNoEs ==
  /\ Nada \notin Int /\ Nada \notin Ids /\ Nada \notin Tags
  /\ cant_block \in Discos => Nada \notin Carpetas
<1>1. Registros \subseteq LOGICO
  BY DEF Registros, LOGICO
<1>2. Seq(Registros) \subseteq Seq(LOGICO)
  BY <1>1
<1>3. Tags \subseteq TAG
  BY <1>2 DEF Tags, TAG
<1>4. cant_block \in Discos => Bloques \subseteq Nat
  BY SupuestosAlmacen DEF Bloques
<1>5. cant_block \in Discos => Carpetas \subseteq CARPETA
  BY <1>4 DEF Carpetas, CARPETA
<1> QED BY <1>3, <1>5, NadaAparte DEF Ids

LEMMA NombresNat == Nombres \subseteq Nat /\ 0 \in Nombres /\ IsFiniteSet(Nombres)
                    /\ \A n \in Nat, m \in 0..MaxBloques : n < m => n \in Nombres
<1>1. MaxBloques \in Nat
  BY SupuestosAlmacen
<1>2. IsFiniteSet(Nombres)
  BY <1>1, FS_Interval DEF Nombres
<1> QED BY <1>1, <1>2 DEF Nombres

LEMMA TamanosNat == Tamanos \subseteq Nat
  BY SupuestosAlmacen DEF Tamanos

-----------------------------------------------------------------------------
(* The invariant. *)

\* On disk: the index names no block but block 0.
DiscoOK ==
  /\ cant_block \in Discos
  /\ bitmap \subseteq Bits
  /\ contenido \in [Bloques -> Contenidos]
  /\ hash_index_config \in [Contenidos -> {0, Nada}]
  /\ carpeta \in [FileTags -> Carpetas \cup {Nada}]

\* In memory: the logical blocks record block 0; what is listed has its t_tag,
\* and is listed once.
TagsOK == t_tag \in [Ids -> Tags \cup {Nada}]

ListasOK ==
  /\ lista \in [FileTags -> Seq(Ids)]
  /\ \A f \in FileTags : \A k \in 1..Len(lista[f]) : t_tag[lista[f][k]] # Nada
  /\ \A f, g \in FileTags : \A j \in 1..Len(lista[f]), k \in 1..Len(lista[g]) :
       lista[f][j] = lista[g][k] => f = g /\ j = k

\* A thread that is busy has its t_tag, the numbers a TRUNCATE goes through are
\* those of logical blocks, and the block it took is a bit of the bitmap.
Ocupado(h) ==
  /\ levantado /\ t_tag[hilo[h].id] # Nada
  /\ hilo[h].paso # "procesar" => hilo[h].hasta \in 0..MaxBloques
  /\ hilo[h].paso \in {"buscar", "marcar", "enlazar", "devolver"} =>
       hilo[h].nro < hilo[h].hasta
  /\ hilo[h].paso \in {"marcar", "enlazar", "devolver"} => hilo[h].bf \in Bits
  /\ hilo[h].paso = "procesar" => hilo[h].nro >= 1

HilosOK ==
  /\ levantado \in BOOLEAN
  /\ hilo \in [Hilos -> TRABAJO \cup {Ocioso}]
  /\ \A h \in Hilos : hilo[h] # Ocioso => Ocupado(h)

Tipos == DiscoOK /\ TagsOK /\ ListasOK /\ HilosOK

LEMMA TiposInicial == Init => Tipos
<1> SUFFICES ASSUME Init PROVE Tipos
  OBVIOUS
<1> USE DEF Init
<1>1. cant_block \in Discos /\ 0 \in Bloques /\ Bloques \subseteq Bits
  BY BloquesConBit
<1>2. BASE \in FileTags /\ 0 \in Nombres /\ 1 \in Tamanos /\ 1 \in Ids
  <2>1. 1 \in Ids
    BY IdInyecta, SupuestosAlmacen DEF Ids
  <2> QED BY <2>1, NombresNat, SupuestosAlmacen DEF Tamanos
<1>3. DiscoOK
  <2>1. carpeta \in [FileTags -> Carpetas \cup {Nada}]
    <3>1. [SinEnlaces EXCEPT ![0] = 0] \in [Nombres -> Bloques \cup {Nada}]
      BY <1>1, <1>2 DEF SinEnlaces
    <3> QED BY <1>2, <3>1 DEF Carpetas, Estados
  <2>2. contenido \in [Bloques -> Contenidos]
    BY DEF Contenidos
  <2> QED BY <1>1, <2>1, <2>2 DEF DiscoOK
<1>4. Base \in Tags
  <2>1. Logico(0, 0) \in Registros
    BY <1>2 DEF Logico, Registros
  <2>2. <<Logico(0, 0)>> \in Seq(Registros)
    BY <2>1
  <2> QED BY <1>2, <2>2 DEF Base, Tags, Estados
<1>5. TagsOK
  BY <1>4 DEF TagsOK
<1>6. ListasOK
  <2>1. t_tag[1] # Nada
    BY <1>2, <1>4, NadaNoEs
  <2> QED BY <1>2, <2>1 DEF ListasOK
<1>7. HilosOK
  BY DEF HilosOK
<1> QED BY <1>3, <1>5, <1>6, <1>7 DEF Tipos

-----------------------------------------------------------------------------
(* What the operators return. *)

\* The t_tag of a File:Tag that exists.
LEMMA TagExiste ==
  ASSUME Tipos, NEW f \in FileTags, Tag(f) # Nada
  PROVE  /\ lista[f] \in Seq(Ids) /\ lista[f] # <<>> /\ Tag(f) = lista[f][1]
         /\ Tag(f) \in Ids /\ t_tag[Tag(f)] \in Tags /\ t_tag[Tag(f)] # Nada
<1>1. lista[f] \in Seq(Ids) /\ lista[f] # <<>>
  BY DEF Tag, Tipos, ListasOK
<1>2. Tag(f) = lista[f][1] /\ 1 \in 1..Len(lista[f]) /\ lista[f][1] \in Ids
  BY <1>1 DEF Tag
<1> QED BY <1>1, <1>2 DEF Tipos, ListasOK, TagsOK

LEMMA TagNoExiste ==
  ASSUME Tipos, NEW f \in FileTags, Tag(f) = Nada
  PROVE  lista[f] = <<>>
<1>1. lista[f] \in Seq(Ids)
  BY DEF Tipos, ListasOK
<1>2. lista[f] # <<>> => Head(lista[f]) \in Ids
  BY <1>1
<1> QED BY <1>2, NadaNoEs DEF Tag

LEMMA EnlacesTipo ==
  ASSUME DiscoOK, NEW f \in FileTags
  PROVE  /\ Enlaces(f) \in [Nombres -> Bloques \cup {Nada}]
         /\ \A n \in Nombres : Leido(f, n) \in Contenidos \cup {Nada}
         /\ \A n \in Nombres : Enlaces(f)[n] # Nada => Leido(f, n) \in Contenidos
  BY DEF DiscoOK, Enlaces, SinEnlaces, Carpetas, Leido

LEMMA NuevoTag ==
  ASSUME Tipos, Nuevos # {}
  PROVE  /\ Min(Nuevos) \in Ids
         /\ \A h \in Hilos : hilo[h].id # Min(Nuevos)
         /\ \A f \in FileTags : \A k \in 1..Len(lista[f]) : lista[f][k] # Min(Nuevos)
<1>1. Nuevos \subseteq Nat
  BY DEF Nuevos, Ids
<1>2. Min(Nuevos) \in Nuevos
  BY <1>1, MinimoNat
<1>3. \A f \in FileTags : ToSet(lista[f]) = {lista[f][k] : k \in 1..Len(lista[f])}
  BY DEF ToSet, Tipos, ListasOK
<1> QED BY <1>2, <1>3 DEF Nuevos

LEMMA LiberadasTipo ==
  ASSUME TagsOK, NEW i \in Ids, t_tag[i] # Nada
  PROVE  /\ Liberadas(i) \in [Ids -> Tags \cup {Nada}]
         /\ \A j \in Ids : Liberadas(i)[j] = Nada <=> t_tag[j] = Nada
<1> DEFINE L == Liberadas(i)
<1>1. ASSUME NEW j \in Ids
      PROVE  L[j] \in Tags \cup {Nada} /\ (L[j] = Nada <=> t_tag[j] = Nada)
  <2>1. CASE t_tag[j] = Nada
    BY <2>1 DEF Liberadas
  <2>2. CASE t_tag[j] # Nada
    <3>1. t_tag[j] \in Tags
      BY <2>2 DEF TagsOK
    <3>2. [t_tag[j] EXCEPT !.usado = Colgante] \in Tags
      BY <3>1 DEF Tags
    <3>3. L[j] \in Tags
      BY <3>1, <3>2 DEF Liberadas
    <3> QED BY <2>2, <3>3, NadaNoEs
  <2> QED BY <2>1, <2>2
<1> QED BY <1>1 DEF Liberadas

\* A shorter list of logical blocks is a prefix of the one there was.
LEMMA AchicadoTipo ==
  ASSUME NEW tag \in Tags, NEW n \in 0..MaxBloques, n =< tag.tam
  PROVE  /\ Achicado(tag, n) \in Tags
         /\ Achicado(tag, n) = [tag EXCEPT !.tam = n,
              !.lista_block_logicos = Achicado(tag, n).lista_block_logicos]
         /\ LET s == tag.lista_block_logicos
                t == Achicado(tag, n).lista_block_logicos
            IN /\ Len(t) =< Len(s)
               /\ Len(t) = IF Len(s) - (tag.tam - n) > 0
                           THEN Len(s) - (tag.tam - n) ELSE 0
               /\ \A k \in 1..Len(t) : t[k] = s[k]
<1> DEFINE s == tag.lista_block_logicos
           m == IF Len(s) - (tag.tam - n) > 0 THEN Len(s) - (tag.tam - n) ELSE 0
           t == SubSeq(s, 1, m)
<1>1. s \in Seq(Registros) /\ tag.tam \in Nat /\ n \in Tamanos /\ n \in Nat
  BY SupuestosAlmacen, TamanosNat DEF Tags, Tamanos
<1>2. m = Max({0, Len(s) - (tag.tam - n)}) /\ m \in 0..Len(s)
  BY <1>1, MaximoConCero, SMTT(30)
<1>3. t \in Seq(Registros) /\ Len(t) = m /\ \A k \in 1..m : t[k] = s[k]
  BY <1>1, <1>2
<1>4. Achicado(tag, n) = [tag EXCEPT !.tam = n, !.lista_block_logicos = t]
  BY <1>2 DEF Achicado
<1> HIDE DEF t, m
<1>5. Achicado(tag, n).lista_block_logicos = t /\ Achicado(tag, n) \in Tags
  BY <1>1, <1>3, <1>4 DEF Tags
<1> QED BY <1>2, <1>3, <1>4, <1>5 DEF m

-----------------------------------------------------------------------------
(* What a step that leaves a part alone keeps. *)

\* No t_tag that is there is freed.
Conserva == \A i \in Ids : t_tag[i] # Nada => t_tag'[i] # Nada

LEMMA DiscoIgual ==
  ASSUME DiscoOK, UNCHANGED disco
  PROVE  DiscoOK'
  BY DEF DiscoOK, disco, Bloques, Bits, Carpetas

LEMMA CarpetaPaso ==
  ASSUME DiscoOK, NEW f \in FileTags, NEW c \in Carpetas \cup {Nada},
         UNCHANGED <<cant_block, bitmap, contenido, hash_index_config>>,
         carpeta' = [carpeta EXCEPT ![f] = c]
  PROVE  DiscoOK'
<1>1. UNCHANGED <<Bloques, Bits, Carpetas>>
  BY DEF Bloques, Bits, Carpetas
<1> QED BY <1>1 DEF DiscoOK

LEMMA ListasIgual ==
  ASSUME ListasOK, Conserva, UNCHANGED lista
  PROVE  ListasOK'
<1>1. ASSUME NEW f \in FileTags, NEW k \in 1..Len(lista[f])
      PROVE  t_tag'[lista[f][k]] # Nada
  <2>1. lista[f][k] \in Ids /\ t_tag[lista[f][k]] # Nada
    BY DEF ListasOK
  <2> QED BY <2>1 DEF Conserva
<1> QED BY <1>1 DEF ListasOK

LEMMA OcupadosIgual ==
  ASSUME HilosOK, NEW g \in Hilos, hilo[g] # Ocioso, hilo'[g] = hilo[g],
         t_tag[hilo[g].id] # Nada => t_tag'[hilo[g].id] # Nada,
         UNCHANGED <<levantado, cant_block>>
  PROVE  Ocupado(g)'
<1>1. Ocupado(g) /\ UNCHANGED Bits
  BY DEF HilosOK, Bits
<1> QED BY <1>1 DEF Ocupado

LEMMA HilosIgual ==
  ASSUME HilosOK, UNCHANGED <<hilo, levantado, cant_block>>,
         \A h \in Hilos : hilo[h] # Ocioso =>
           (t_tag[hilo[h].id] # Nada => t_tag'[hilo[h].id] # Nada)
  PROVE  HilosOK'
<1>1. ASSUME NEW h \in Hilos, hilo[h] # Ocioso PROVE Ocupado(h)'
  BY <1>1, OcupadosIgual
<1> QED BY <1>1 DEF HilosOK

LEMMA HiloPaso ==
  ASSUME HilosOK, Conserva, UNCHANGED <<levantado, cant_block>>,
         NEW h \in Hilos, NEW t \in TRABAJO \cup {Ocioso},
         hilo' = [hilo EXCEPT ![h] = t], t # Ocioso => Ocupado(h)'
  PROVE  HilosOK'
<1>1. ASSUME NEW g \in Hilos, hilo'[g] # Ocioso PROVE Ocupado(g)'
  <2>1. CASE g = h
    BY <1>1, <2>1 DEF HilosOK
  <2>2. CASE g # h
    <3>1. hilo'[g] = hilo[g] /\ hilo[g] # Ocioso
      BY <1>1, <2>2 DEF HilosOK
    <3>2. hilo[g] \in TRABAJO
      BY <3>1 DEF HilosOK
    <3>3. hilo[g].id \in Ids
      BY <3>2 DEF TRABAJO
    <3> QED BY <3>1, <3>3, OcupadosIgual DEF Conserva
  <2> QED BY <2>1, <2>2
<1> QED BY <1>1 DEF HilosOK

\* A thread that is at a step of TRUNCATE or COMMIT.
LEMMA EnPaso ==
  ASSUME Tipos, NEW h \in Hilos, NEW p \in Pasos, En(h, p)
  PROVE  /\ hilo[h] \in TRABAJO /\ hilo[h] # Ocioso /\ Ocupado(h) /\ levantado
         /\ hilo[h].id \in Ids /\ hilo[h].file \in FileTags
         /\ t_tag[hilo[h].id] \in Tags /\ t_tag[hilo[h].id] # Nada
<1>1. hilo[h] # Ocioso
  BY DEF En, Ocioso, Pasos
<1>2. hilo[h] \in TRABAJO /\ Ocupado(h) /\ levantado
  BY <1>1 DEF Tipos, HilosOK, En
<1>3. hilo[h].id \in Ids /\ hilo[h].file \in FileTags /\ t_tag[hilo[h].id] # Nada
  BY <1>2 DEF TRABAJO, Ocupado
<1> QED BY <1>1, <1>2, <1>3 DEF Tipos, TagsOK

\* A t_tag that is there is given another value.
LEMMA TagPaso ==
  ASSUME TagsOK, NEW i \in Ids, NEW tag \in Tags,
         t_tag' = [t_tag EXCEPT ![i] = tag]
  PROVE  TagsOK' /\ Conserva
<1>1. TagsOK'
  BY DEF TagsOK
<1> QED BY <1>1, NadaNoEs DEF Conserva, TagsOK

LEMMA TagIgual ==
  ASSUME TagsOK, UNCHANGED t_tag
  PROVE  TagsOK' /\ Conserva
  BY DEF TagsOK, Conserva

LEMMA CaidaPaso ==
  ASSUME Caida, UNCHANGED disco, DiscoOK
  PROVE  Tipos'
<1>1. DiscoOK'
  BY DiscoIgual
<1>2. TagsOK'
  BY DEF Caida, TagsOK
<1>3. ListasOK'
  BY DEF Caida, ListasOK
<1>4. HilosOK'
  BY DEF Caida, HilosOK
<1> QED BY <1>1, <1>2, <1>3, <1>4 DEF Tipos

\* A request that changes nothing but the answer.
LEMMA NadaCambia ==
  ASSUME Tipos, UNCHANGED <<disco, levantado, t_tag, lista, hilo>>
  PROVE  Tipos'
<1>1. DiscoOK' /\ TagsOK' /\ Conserva
  BY DiscoIgual, TagIgual DEF Tipos
<1>2. ListasOK'
  BY <1>1, ListasIgual DEF Tipos
<1>3. HilosOK'
  <2>1. UNCHANGED cant_block
    BY DEF disco
  <2> QED BY <2>1, HilosIgual DEF Tipos
<1> QED BY <1>1, <1>2, <1>3 DEF Tipos

-----------------------------------------------------------------------------
(* The steps. *)

LEMMA CrearPaso ==
  ASSUME Tipos, NEW f \in FileTags, NEW tag \in Tags, Nuevos # {},
         NEW e \in [Nombres -> Bloques \cup {Nada}],
         Crear(f, Min(Nuevos), tag, e)
  PROVE  Tipos'
<1> DEFINE i == Min(Nuevos)
<1>1. /\ i \in Ids /\ \A h \in Hilos : hilo[h].id # i
      /\ \A g \in FileTags : \A k \in 1..Len(lista[g]) : lista[g][k] # i
  BY NuevoTag
<1> HIDE DEF i
<1>2. /\ t_tag' = [t_tag EXCEPT ![i] = tag]
      /\ lista' = [lista EXCEPT ![f] = Append(@, i)]
      /\ carpeta' = [carpeta EXCEPT ![f] =
           [estado |-> tag.estado, tam |-> tag.tam, usado |-> tag.usado # Nada,
            enlaces |-> e]]
      /\ UNCHANGED <<cant_block, bitmap, contenido, hash_index_config, levantado,
                     hilo>>
  BY DEF Crear, i
<1>3. DiscoOK'
  <2>1. [estado |-> tag.estado, tam |-> tag.tam, usado |-> tag.usado # Nada,
         enlaces |-> e] \in Carpetas
    BY DEF Tags, Carpetas
  <2> QED BY <1>2, <2>1, CarpetaPaso DEF Tipos
<1>4. TagsOK' /\ Conserva
  BY <1>1, <1>2, TagPaso DEF Tipos
<1>5. ListasOK'
  <2>1. lista' \in [FileTags -> Seq(Ids)]
    BY <1>1, <1>2 DEF Tipos, ListasOK
  <2>2. ASSUME NEW g \in FileTags, NEW k \in 1..Len(lista'[g])
        PROVE  \/ k \in 1..Len(lista[g]) /\ lista'[g][k] = lista[g][k]
               \/ g = f /\ k = Len(lista[f]) + 1 /\ lista'[g][k] = i
    <3>1. lista[g] \in Seq(Ids)
      BY DEF Tipos, ListasOK
    <3> QED BY <1>1, <1>2, <3>1 DEF Tipos, ListasOK
  <2>3. t_tag'[i] # Nada
    BY <1>1, <1>2, NadaNoEs DEF Tipos, TagsOK
  <2>4. ASSUME NEW g \in FileTags, NEW k \in 1..Len(lista'[g])
        PROVE  t_tag'[lista'[g][k]] # Nada
    <3>1. k \in 1..Len(lista[g]) => lista[g][k] \in Ids /\ t_tag[lista[g][k]] # Nada
      BY DEF Tipos, ListasOK
    <3> QED BY <1>4, <2>2, <2>3, <3>1 DEF Conserva
  <2>5. ASSUME NEW g \in FileTags, NEW g2 \in FileTags,
               NEW j \in 1..Len(lista'[g]), NEW k \in 1..Len(lista'[g2]),
               lista'[g][j] = lista'[g2][k]
        PROVE  g = g2 /\ j = k
    <3>1. \/ j \in 1..Len(lista[g]) /\ lista'[g][j] = lista[g][j]
          \/ g = f /\ j = Len(lista[f]) + 1 /\ lista'[g][j] = i
      BY <2>2
    <3>2. \/ k \in 1..Len(lista[g2]) /\ lista'[g2][k] = lista[g2][k]
          \/ g2 = f /\ k = Len(lista[f]) + 1 /\ lista'[g2][k] = i
      BY <2>2
    <3>3. CASE j \in 1..Len(lista[g]) /\ lista'[g][j] = lista[g][j]
      BY <1>1, <2>5, <3>2, <3>3 DEF Tipos, ListasOK
    <3>4. CASE g = f /\ j = Len(lista[f]) + 1 /\ lista'[g][j] = i
      BY <1>1, <2>5, <3>2, <3>4
    <3> QED BY <3>1, <3>3, <3>4
  <2> QED BY <2>1, <2>4, <2>5 DEF ListasOK
<1>6. HilosOK'
  <2>1. ASSUME NEW h \in Hilos, hilo[h] # Ocioso
        PROVE  t_tag[hilo[h].id] # Nada => t_tag'[hilo[h].id] # Nada
    BY <1>1, <1>2, <2>1 DEF Tipos, TagsOK, HilosOK, TRABAJO
  <2> QED BY <1>2, <2>1, HilosIgual DEF Tipos
<1> QED BY <1>3, <1>4, <1>5, <1>6 DEF Tipos

LEMMA CreatePaso ==
  ASSUME Tipos, NEW h \in Hilos, NEW f \in FileTags, Create(h, f)
  PROVE  Tipos'
<1>1. CASE Negar(h, "CREATE", f)
  BY <1>1, NadaCambia DEF Negar
<1>2. CASE ~Negar(h, "CREATE", f)
  <2> DEFINE tag == [estado |-> "WORK_IN_PROGRESS", tam |-> 0, usado |-> Nada,
                     lista_block_logicos |-> <<>>]
  <2>1. Nuevos # {} /\ Crear(f, Min(Nuevos), tag, Enlaces(f))
    BY <1>2 DEF Create
  <2>2. tag \in Tags
    BY SupuestosAlmacen DEF Tags, Estados, Tamanos
  <2>3. Enlaces(f) \in [Nombres -> Bloques \cup {Nada}]
    BY EnlacesTipo DEF Tipos
  <2> HIDE DEF tag
  <2> QED BY <2>1, <2>2, <2>3, CrearPaso
<1> QED BY <1>1, <1>2

\* The links TAG makes: those the folder had, or to the block recorded.
LEMMA EnlacesDeTagTipo ==
  ASSUME Tipos, NEW o \in FileTags, NEW d \in FileTags, Tag(o) # Nada
  PROVE  /\ EnlacesDeTag(o, d) \in [Nombres -> Bloques \cup {Nada}]
         /\ \A n \in Nombres : EnlacesDeTag(o, d)[n] =
              IF Enlaces(d)[n] # Nada THEN Enlaces(d)[n]
              ELSE IF \E k \in 1..Largo(Tag(o)) :
                        t_tag[Tag(o)].lista_block_logicos[k].nombre_block = n
                   THEN 0 ELSE Nada
<1> DEFINE s == t_tag[Tag(o)].lista_block_logicos
           S(n) == {k \in 1..Largo(Tag(o)) : s[k].nombre_block = n}
<1>1. s \in Seq(Registros) /\ Largo(Tag(o)) = Len(s)
  BY TagExiste DEF Tags, Largo
<1>2. ASSUME NEW n \in Nombres, S(n) # {} PROVE s[Min(S(n))].bloque_fisico_asociado = 0
  <2> DEFINE m == Min(S(n))
  <2>1. S(n) \subseteq Nat
    OBVIOUS
  <2>2. m \in S(n)
    BY <1>2, <2>1, MinimoNat
  <2> HIDE DEF m
  <2>3. m \in 1..Len(s)
    BY <1>1, <2>2
  <2> HIDE DEF s
  <2>4. s[m] \in Registros
    BY <1>1, <2>3
  <2>5. s[m].bloque_fisico_asociado = 0
    BY <2>4 DEF Registros
  <2> QED BY <2>5 DEF m
<1>3. Enlaces(d) \in [Nombres -> Bloques \cup {Nada}] /\ 0 \in Bloques
  BY EnlacesTipo, BloquesConBit DEF Tipos, DiscoOK
<1>4. EnlacesDeTag(o, d) =
        [n \in Nombres |->
          IF Enlaces(d)[n] # Nada THEN Enlaces(d)[n]
          ELSE IF S(n) = {} THEN Nada ELSE s[Min(S(n))].bloque_fisico_asociado]
  BY DEF EnlacesDeTag
<1>5. ASSUME NEW n \in Nombres
      PROVE  EnlacesDeTag(o, d)[n] =
               IF Enlaces(d)[n] # Nada THEN Enlaces(d)[n]
               ELSE IF S(n) # {} THEN 0 ELSE Nada
  <2>1. EnlacesDeTag(o, d)[n] =
          IF Enlaces(d)[n] # Nada THEN Enlaces(d)[n]
          ELSE IF S(n) = {} THEN Nada ELSE s[Min(S(n))].bloque_fisico_asociado
    BY <1>4
  <2> QED BY <1>2, <2>1
<1>6. \A n \in Nombres : S(n) # {} <=>
        \E k \in 1..Largo(Tag(o)) : t_tag[Tag(o)].lista_block_logicos[k].nombre_block = n
  OBVIOUS
<1>7. EnlacesDeTag(o, d) \in [Nombres -> Bloques \cup {Nada}]
  <2>1. \A n \in Nombres : EnlacesDeTag(o, d)[n] \in Bloques \cup {Nada}
    BY <1>3, <1>5
  <2>2. EnlacesDeTag(o, d) = [n \in Nombres |-> EnlacesDeTag(o, d)[n]]
    BY <1>4
  <2> QED BY <2>1, <2>2
<1> QED BY <1>5, <1>6, <1>7

LEMMA TagFilePaso ==
  ASSUME Tipos, NEW h \in Hilos, NEW o \in FileTags, NEW d \in FileTags,
         TagFile(h, o, d)
  PROVE  Tipos'
<1>1. CASE Negar(h, "TAG", d)
  BY <1>1, NadaCambia DEF Negar
<1>2. CASE ~Negar(h, "TAG", d)
  <2> DEFINE tag == [t_tag[Tag(o)] EXCEPT !.estado = "WORK_IN_PROGRESS"]
  <2>1. /\ Tag(o) # Nada /\ Nuevos # {}
        /\ Crear(d, Min(Nuevos), tag, EnlacesDeTag(o, d))
    BY <1>2 DEF TagFile
  <2>2. tag \in Tags
    BY <2>1, TagExiste DEF Tags, Estados
  <2>3. EnlacesDeTag(o, d) \in [Nombres -> Bloques \cup {Nada}]
    BY <2>1, EnlacesDeTagTipo
  <2> HIDE DEF tag
  <2> QED BY <2>1, <2>2, <2>3, CrearPaso
<1> QED BY <1>1, <1>2

LEMMA DeletePaso ==
  ASSUME Tipos, NEW h \in Hilos, NEW f \in FileTags, Delete(h, f)
  PROVE  Tipos'
<1>1. CASE Aceptar(h, "DELETE", f)
  BY <1>1, NadaCambia DEF Aceptar
<1>2. CASE DobleFree(Tag(f))
  BY <1>2, CaidaPaso DEF DobleFree, Tipos
<1>3. CASE ~Aceptar(h, "DELETE", f) /\ ~DobleFree(Tag(f))
  <2> DEFINE i == Tag(f)
             L == Liberadas(i)
             queda == \E g \in Hilos : hilo[g].id = i
  <2>1. /\ i # Nada
        /\ t_tag' = [L EXCEPT ![i] = IF queda THEN [@ EXCEPT !.usado = Nada] ELSE Nada]
        /\ lista' = [lista EXCEPT ![f] = Tail(@)]
        /\ carpeta' = [carpeta EXCEPT ![f] = Nada]
        /\ UNCHANGED <<cant_block, bitmap, contenido, hash_index_config, levantado,
                       hilo>>
    BY <1>3 DEF Delete
  <2>2. /\ lista[f] \in Seq(Ids) /\ lista[f] # <<>> /\ i = lista[f][1]
        /\ i \in Ids /\ t_tag[i] \in Tags /\ t_tag[i] # Nada
    BY <2>1, TagExiste
  <2>3. L \in [Ids -> Tags \cup {Nada}] /\ \A j \in Ids : L[j] = Nada <=> t_tag[j] = Nada
    BY <2>2, LiberadasTipo DEF Tipos
  <2> HIDE DEF i, L
  <2>4. DiscoOK'
    BY <2>1, CarpetaPaso DEF Tipos
  <2>5. [L[i] EXCEPT !.usado = Nada] \in Tags
    BY <2>2, <2>3 DEF Tags
  <2>6. TagsOK'
    BY <2>1, <2>3, <2>5 DEF TagsOK
  <2>7. \A j \in Ids : t_tag[j] # Nada /\ (j = i => queda) => t_tag'[j] # Nada
    <3>1. Nada \notin Tags
      BY NadaNoEs
    <3> QED BY <2>1, <2>3, <2>5, <3>1
  <2>8. ListasOK'
    <3>1. lista' \in [FileTags -> Seq(Ids)]
      BY <2>1, <2>2 DEF Tipos, ListasOK
    <3>2. ASSUME NEW g \in FileTags, NEW k \in 1..Len(lista'[g])
          PROVE  \/ g # f /\ k \in 1..Len(lista[g]) /\ lista'[g][k] = lista[g][k]
                 \/ g = f /\ k + 1 \in 1..Len(lista[g]) /\ lista'[g][k] = lista[g][k + 1]
      <4>1. lista[g] \in Seq(Ids)
        BY DEF Tipos, ListasOK
      <4> QED BY <2>1, <2>2, <4>1 DEF Tipos, ListasOK
    <3>3. ASSUME NEW g \in FileTags, NEW k \in 1..Len(lista'[g])
          PROVE  t_tag'[lista'[g][k]] # Nada
      <4>1. PICK j \in 1..Len(lista[g]) :
              lista'[g][k] = lista[g][j] /\ (g = f => j # 1)
        BY <3>2
      <4>2. lista[g][j] \in Ids /\ t_tag[lista[g][j]] # Nada
        BY DEF Tipos, ListasOK
      <4>3. lista[g][j] # i
        <5>1. 1 \in 1..Len(lista[f])
          BY <2>2
        <5> QED BY <2>2, <4>1, <5>1 DEF Tipos, ListasOK
      <4> QED BY <2>7, <4>1, <4>2, <4>3
    <3>4. ASSUME NEW g \in FileTags, NEW g2 \in FileTags,
                 NEW j \in 1..Len(lista'[g]), NEW k \in 1..Len(lista'[g2]),
                 lista'[g][j] = lista'[g2][k]
          PROVE  g = g2 /\ j = k
      <4> DEFINE a == IF g = f THEN j + 1 ELSE j
                 b == IF g2 = f THEN k + 1 ELSE k
      <4>1. a \in 1..Len(lista[g]) /\ lista'[g][j] = lista[g][a]
        BY <3>2
      <4>2. b \in 1..Len(lista[g2]) /\ lista'[g2][k] = lista[g2][b]
        BY <3>2
      <4> HIDE DEF a, b
      <4>3. lista[g][a] = lista[g2][b]
        BY <3>4, <4>1, <4>2
      <4>4. g = g2 /\ a = b
        BY <4>1, <4>2, <4>3 DEF Tipos, ListasOK
      <4> QED BY <4>4 DEF a, b
    <3> QED BY <3>1, <3>3, <3>4 DEF ListasOK
  <2>9. HilosOK'
    <3>1. ASSUME NEW g \in Hilos, hilo[g] # Ocioso
          PROVE  t_tag[hilo[g].id] # Nada => t_tag'[hilo[g].id] # Nada
      <4>1. hilo[g].id \in Ids
        BY <3>1 DEF Tipos, HilosOK, TRABAJO
      <4> QED BY <2>7, <4>1
    <3> QED BY <2>1, <3>1, HilosIgual DEF Tipos
  <2> QED BY <2>4, <2>6, <2>8, <2>9 DEF Tipos
<1> QED BY <1>1, <1>2, <1>3

LEMMA AchicaPaso ==
  ASSUME Tipos, NEW h \in Hilos, NEW f \in FileTags, NEW n \in 0..MaxBloques,
         TruncateAchica(h, f, n)
  PROVE  Tipos'
<1>1. CASE n = 0 /\ DobleFree(Tag(f))
  BY <1>1, CaidaPaso DEF DobleFree, Tipos
<1>2. CASE ~(n = 0 /\ DobleFree(Tag(f)))
  <2> DEFINE i     == Tag(f)
             tag   == Achicado(t_tag[i], n)
             fuera == {t_tag[i].lista_block_logicos[k] :
                         k \in (Len(tag.lista_block_logicos) + 1)..Largo(i)}
             nuevo == IF n = 0 THEN [tag EXCEPT !.usado = Nada] ELSE tag
             c     == IF carpeta[f] = Nada THEN Nada
                      ELSE [Metadata(f, nuevo) EXCEPT !.enlaces =
                             [m \in Nombres |->
                               IF \E l \in fuera : l.nombre_block = m THEN Nada ELSE @[m]]]
  <2>1. /\ i # Nada /\ n =< t_tag[i].tam
        /\ t_tag' = [IF n = 0 THEN Liberadas(i) ELSE t_tag EXCEPT ![i] = nuevo]
        /\ carpeta' = [carpeta EXCEPT ![f] = c]
        /\ UNCHANGED <<cant_block, bitmap, contenido, hash_index_config, levantado,
                       lista, hilo>>
    BY <1>2 DEF TruncateAchica, Truncable
  <2>2. i \in Ids /\ t_tag[i] \in Tags /\ t_tag[i] # Nada
    BY <2>1, TagExiste
  <2>3. tag \in Tags
    BY <2>1, <2>2, AchicadoTipo
  <2> HIDE DEF i, tag, fuera
  <2>4. nuevo \in Tags
    BY <2>3 DEF Tags
  <2> HIDE DEF nuevo
  <2>5. c \in Carpetas \cup {Nada}
    <3>1. CASE carpeta[f] # Nada
      <4>1. carpeta[f] \in Carpetas /\ carpeta[f].enlaces \in [Nombres -> Bloques \cup {Nada}]
        BY <3>1 DEF Tipos, DiscoOK, Carpetas
      <4>2. Metadata(f, nuevo) \in Carpetas
        BY <2>4, <3>1, <4>1 DEF Metadata, Carpetas, Tags
      <4>3. Metadata(f, nuevo).enlaces = carpeta[f].enlaces
        BY <3>1, <4>1 DEF Metadata, Carpetas
      <4> QED BY <3>1, <4>1, <4>2, <4>3 DEF Carpetas
    <3> QED BY <3>1
  <2> HIDE DEF c
  <2>6. DiscoOK'
    BY <2>1, <2>5, CarpetaPaso DEF Tipos
  <2>7. TagsOK' /\ Conserva
    <3>1. CASE n = 0
      <4>1. /\ Liberadas(i) \in [Ids -> Tags \cup {Nada}]
            /\ \A j \in Ids : Liberadas(i)[j] = Nada <=> t_tag[j] = Nada
        BY <2>2, LiberadasTipo DEF Tipos
      <4> QED BY <2>1, <2>2, <2>4, <3>1, <4>1, NadaNoEs DEF TagsOK, Conserva
    <3>2. CASE n # 0
      BY <2>1, <2>2, <2>4, <3>2, TagPaso DEF Tipos
    <3> QED BY <3>1, <3>2
  <2>8. ListasOK'
    BY <2>1, <2>7, ListasIgual DEF Tipos
  <2>9. HilosOK'
    <3>1. ASSUME NEW g \in Hilos, hilo[g] # Ocioso
          PROVE  t_tag[hilo[g].id] # Nada => t_tag'[hilo[g].id] # Nada
      <4>1. hilo[g].id \in Ids
        BY <3>1 DEF Tipos, HilosOK, TRABAJO
      <4> QED BY <2>7, <4>1 DEF Conserva
    <3> QED BY <2>1, <3>1, HilosIgual DEF Tipos
  <2> QED BY <2>6, <2>7, <2>8, <2>9 DEF Tipos
<1> QED BY <1>1, <1>2

\* A step of TRUNCATE that touches no more than the thread and the bitmap.
LEMMA SoloHilo ==
  ASSUME Tipos, NEW h \in Hilos, NEW t \in TRABAJO \cup {Ocioso},
         hilo' = [hilo EXCEPT ![h] = t], t # Ocioso => Ocupado(h)',
         UNCHANGED <<cant_block, contenido, hash_index_config, carpeta, levantado,
                     t_tag, lista>>,
         bitmap' \subseteq Bits
  PROVE  Tipos'
<1>1. UNCHANGED <<Bloques, Bits, Carpetas>>
  BY DEF Bloques, Bits, Carpetas
<1>2. DiscoOK'
  BY <1>1 DEF Tipos, DiscoOK
<1>3. TagsOK' /\ Conserva
  BY TagIgual DEF Tipos
<1>4. ListasOK'
  BY <1>3, ListasIgual DEF Tipos
<1>5. HilosOK'
  BY <1>3, HiloPaso DEF Tipos
<1> QED BY <1>2, <1>3, <1>4, <1>5 DEF Tipos

LEMMA AgrandaPaso ==
  ASSUME Tipos, NEW h \in Hilos, NEW f \in FileTags, NEW n \in 0..MaxBloques,
         TruncateAgranda(h, f, n)
  PROVE  Tipos'
<1> DEFINE t == [paso |-> "buscar", id |-> Tag(f), file |-> f,
                 nro |-> t_tag[Tag(f)].tam, hasta |-> n, bf |-> Nada]
<1>1. /\ levantado /\ Tag(f) # Nada /\ n > t_tag[Tag(f)].tam
      /\ hilo' = [hilo EXCEPT ![h] = t]
      /\ UNCHANGED <<disco, levantado, t_tag, lista>>
  BY DEF TruncateAgranda, Truncable, Pedido
<1>2. Tag(f) \in Ids /\ t_tag[Tag(f)] \in Tags /\ t_tag[Tag(f)] # Nada
  BY <1>1, TagExiste
<1>3. t_tag[Tag(f)].tam \in Nat /\ n \in Nat
  <2>1. t_tag[Tag(f)].tam \in Tamanos
    BY <1>2 DEF Tags
  <2>2. n \in Nat
    BY SupuestosAlmacen
  <2> QED BY <2>1, <2>2, TamanosNat
<1>4. t \in TRABAJO
  BY <1>2, <1>3 DEF TRABAJO, Pasos
<1>5. hilo'[h] = t
  BY <1>1 DEF Tipos, HilosOK
<1>6. Ocupado(h)'
  BY <1>1, <1>2, <1>3, <1>5 DEF Ocupado
<1>7. bitmap' \subseteq Bits
  BY <1>1 DEF disco, Tipos, DiscoOK
<1> HIDE DEF t
<1> QED BY <1>1, <1>4, <1>6, <1>7, SoloHilo DEF disco

LEMMA BuscarPaso ==
  ASSUME Tipos, NEW h \in Hilos, SinBloques(h) \/ Buscar(h)
  PROVE  Tipos'
<1>1. CASE SinBloques(h)
  <2>1. bitmap' \subseteq Bits
    BY <1>1 DEF SinBloques, disco, Tipos, DiscoOK
  <2> QED BY <1>1, <2>1, SoloHilo DEF SinBloques, Termina, disco
<1>2. CASE Buscar(h)
  <2> DEFINE t == [hilo[h] EXCEPT !.paso = "marcar", !.bf = Min(Libres)]
  <2>1. /\ En(h, "buscar") /\ Libres # {} /\ hilo' = [hilo EXCEPT ![h] = t]
        /\ UNCHANGED <<disco, levantado, t_tag, lista>>
    BY <1>2 DEF Buscar
  <2>2. Min(Libres) \in Libres /\ Min(Libres) \in Bits /\ Min(Libres) \in Nat
    <3>1. Libres \subseteq Nat /\ Libres \subseteq Bits
      BY DEF Libres, Bits
    <3>2. Min(Libres) \in Libres
      BY <2>1, <3>1, MinimoNat
    <3> QED BY <3>1, <3>2
  <2>3. hilo[h] \in TRABAJO /\ Ocupado(h)
    BY <2>1, EnPaso DEF Pasos
  <2>4. t \in TRABAJO
    BY <2>2, <2>3 DEF TRABAJO, Pasos
  <2>5. hilo'[h] = t
    BY <2>1 DEF Tipos, HilosOK
  <2>6. Bits' = Bits /\ bitmap' \subseteq Bits
    BY <2>1 DEF disco, Bits, Tipos, DiscoOK
  <2>7. Ocupado(h)'
    BY <2>1, <2>2, <2>3, <2>5, <2>6 DEF Ocupado, En, TRABAJO
  <2> HIDE DEF t
  <2> QED BY <2>1, <2>4, <2>6, <2>7, SoloHilo DEF disco
<1> QED BY <1>1, <1>2

LEMMA MarcarPaso ==
  ASSUME Tipos, NEW h \in Hilos, Marcar(h) \/ NoEnlaza(h)
  PROVE  Tipos'
<1> DEFINE p == IF Marcar(h) THEN "enlazar" ELSE "devolver"
           t == [hilo[h] EXCEPT !.paso = p]
<1>1. /\ En(h, "marcar") \/ En(h, "enlazar")
      /\ hilo' = [hilo EXCEPT ![h] = t]
      /\ bitmap' \in {bitmap, bitmap \cup {hilo[h].bf}}
      /\ UNCHANGED <<cant_block, contenido, hash_index_config, carpeta, levantado,
                     t_tag, lista>>
  BY DEF Marcar, NoEnlaza, Sigue, disco, Tipos, HilosOK
<1>2. hilo[h] \in TRABAJO /\ Ocupado(h)
  BY <1>1, EnPaso DEF Pasos
<1>3. t \in TRABAJO /\ hilo'[h] = t
  BY <1>1, <1>2 DEF TRABAJO, Pasos, Tipos, HilosOK
<1>4. Bits' = Bits /\ bitmap' \subseteq Bits
  BY <1>1, <1>2 DEF Bits, Tipos, DiscoOK, Ocupado, En
<1>5. Ocupado(h)'
  BY <1>1, <1>2, <1>3, <1>4 DEF Ocupado, En, TRABAJO
<1> HIDE DEF t
<1> QED BY <1>1, <1>3, <1>4, <1>5, SoloHilo

\* The next block, or the end of the TRUNCATE.
LEMMA ProximoTipo ==
  ASSUME Tipos, NEW h \in Hilos, En(h, "enlazar") \/ En(h, "devolver"),
         ProximoBloque(h), UNCHANGED <<cant_block, levantado>>,
         t_tag'[hilo[h].id] # Nada
  PROVE  \E t \in TRABAJO : hilo' = [hilo EXCEPT ![h] = t] /\ Ocupado(h)'
<1> DEFINE p == IF hilo[h].nro + 1 = hilo[h].hasta THEN "cerrar" ELSE "buscar"
           t == [hilo[h] EXCEPT !.nro = @ + 1, !.bf = Nada,
                   !.paso = p]
<1>1. hilo[h] \in TRABAJO /\ Ocupado(h)
  BY EnPaso DEF Pasos
<1>2. hilo' = [hilo EXCEPT ![h] = t] /\ hilo'[h] = t
  BY DEF ProximoBloque, Tipos, HilosOK
<1>0. p \in Pasos /\ (p = IF hilo[h].nro + 1 = hilo[h].hasta THEN "cerrar" ELSE "buscar")
  BY DEF Pasos
<1> HIDE DEF p
<1>3. t \in TRABAJO
  <2> DEFINE m == hilo[h].nro + 1
  <2>1. m \in Nat
    BY <1>1 DEF TRABAJO
  <2> HIDE DEF m
  <2>2. [hilo[h] EXCEPT !.nro = m, !.bf = Nada, !.paso = p] \in TRABAJO
    BY <1>0, <1>1, <2>1 DEF TRABAJO
  <2> QED BY <2>2 DEF m
<1>4. hilo[h].nro < hilo[h].hasta /\ hilo[h].hasta \in 0..MaxBloques /\ levantado
  BY <1>1 DEF Ocupado, En
<1>5. hilo[h].nro \in Nat /\ hilo[h].hasta \in Nat
  BY <1>1 DEF TRABAJO
<1>6. /\ t.id = hilo[h].id /\ t.hasta = hilo[h].hasta /\ t.nro = hilo[h].nro + 1
      /\ t.paso = IF hilo[h].nro + 1 = hilo[h].hasta THEN "cerrar" ELSE "buscar"
  BY <1>0, <1>1 DEF TRABAJO
<1> HIDE DEF t
<1>7. Ocupado(h)'
  BY <1>2, <1>4, <1>5, <1>6 DEF Ocupado
<1> QED BY <1>2, <1>3, <1>7

LEMMA EnlazarPaso ==
  ASSUME Tipos, NEW h \in Hilos, Enlazar(h)
  PROVE  Tipos'
<1> DEFINE i == hilo[h].id
           f == hilo[h].file
           tag == [t_tag[i] EXCEPT !.lista_block_logicos = Append(@, Registrado(h)),
                                   !.usado = IF @ = Nada THEN i ELSE @]
           c == [carpeta[f] EXCEPT !.enlaces = [@ EXCEPT ![hilo[h].nro] = hilo[h].bf]]
<1>1. /\ En(h, "enlazar") /\ Enlazable(h) /\ ProximoBloque(h)
      /\ UNCHANGED <<cant_block, bitmap, contenido, hash_index_config, levantado,
                     lista>>
  BY DEF Enlazar
<1>2. /\ i \in Ids /\ f \in FileTags /\ t_tag[i] \in Tags /\ t_tag[i] # Nada
      /\ hilo[h] \in TRABAJO /\ Ocupado(h)
  BY <1>1, EnPaso DEF Pasos
<1>3. hilo[h].nro \in Nombres /\ hilo[h].bf \in Bloques
  <2>1. hilo[h].nro < hilo[h].hasta /\ hilo[h].hasta \in 0..MaxBloques /\ hilo[h].nro \in Nat
    BY <1>1, <1>2 DEF Ocupado, En, TRABAJO
  <2> QED BY <1>1, <2>1, NombresNat DEF Enlazable
<1>4. carpeta[f] # Nada /\ carpeta[f] \in Carpetas
  BY <1>1, <1>2 DEF Enlazable, Tipos, DiscoOK
<1>5. t_tag' = [t_tag EXCEPT ![i] = tag]
  BY <1>2 DEF Enlazar, Tipos, TagsOK
<1>6. carpeta' = [carpeta EXCEPT ![f] = c]
  BY <1>2 DEF Enlazar, Tipos, DiscoOK
<1>7. tag \in Tags
  <2>1. Registrado(h) \in Registros
    BY <1>3 DEF Registrado, Logico, Registros
  <2>2. Append(t_tag[i].lista_block_logicos, Registrado(h)) \in Seq(Registros)
    BY <1>2, <2>1 DEF Tags
  <2> QED BY <1>2, <2>2 DEF Tags
<1>8. c \in Carpetas
  BY <1>3, <1>4 DEF Carpetas
<1> HIDE DEF tag, c, i, f
<1>9. DiscoOK'
  BY <1>1, <1>2, <1>6, <1>8, CarpetaPaso DEF Tipos
<1>10. TagsOK' /\ Conserva
  BY <1>2, <1>5, <1>7, TagPaso DEF Tipos
<1>11. ListasOK'
  BY <1>1, <1>10, ListasIgual DEF Tipos
<1>12. HilosOK'
  <2>1. t_tag'[hilo[h].id] # Nada
    BY <1>2, <1>10 DEF Conserva, i
  <2>2. PICK t \in TRABAJO : hilo' = [hilo EXCEPT ![h] = t] /\ Ocupado(h)'
    BY <1>1, <2>1, ProximoTipo
  <2> QED BY <1>1, <1>10, <2>2, HiloPaso DEF Tipos
<1> QED BY <1>9, <1>10, <1>11, <1>12 DEF Tipos

LEMMA DevolverPaso ==
  ASSUME Tipos, NEW h \in Hilos, Devolver(h)
  PROVE  Tipos'
<1>1. /\ En(h, "devolver") /\ ProximoBloque(h)
      /\ bitmap' = bitmap \ {hilo[h].bf}
      /\ UNCHANGED <<cant_block, contenido, hash_index_config, carpeta, levantado,
                     t_tag, lista>>
  BY DEF Devolver
<1>2. t_tag'[hilo[h].id] # Nada
  BY <1>1, EnPaso DEF Pasos
<1>3. PICK t \in TRABAJO : hilo' = [hilo EXCEPT ![h] = t] /\ Ocupado(h)'
  BY <1>1, <1>2, ProximoTipo
<1>4. bitmap' \subseteq Bits
  BY <1>1 DEF Tipos, DiscoOK
<1> QED BY <1>1, <1>3, <1>4, SoloHilo

\* The end of a TRUNCATE and of a COMMIT.
LEMMA GuardarPaso ==
  ASSUME Tipos, NEW h \in Hilos, NEW p \in Pasos, En(h, p), NEW tag \in Tags,
         Guardar(h, tag)
  PROVE  Tipos'
<1> DEFINE f == hilo[h].file
           i == hilo[h].id
<1>1. f \in FileTags /\ i \in Ids
  BY EnPaso
<1>2. Metadata(f, tag) \in Carpetas \cup {Nada}
  <2>1. carpeta[f] \in Carpetas \cup {Nada}
    BY <1>1 DEF Tipos, DiscoOK
  <2> QED BY <2>1 DEF Metadata, Carpetas, Tags
<1>3. DiscoOK'
  BY <1>1, <1>2, CarpetaPaso DEF Guardar, Tipos
<1>4. TagsOK' /\ Conserva
  BY <1>1, TagPaso DEF Guardar, Tipos
<1>5. ListasOK'
  BY <1>4, ListasIgual DEF Guardar, Tipos
<1>6. HilosOK'
  <2>1. hilo' = [hilo EXCEPT ![h] = Ocioso] /\ UNCHANGED <<levantado, cant_block>>
    BY DEF Guardar, Termina
  <2> QED BY <1>4, <2>1, HiloPaso DEF Tipos
<1> QED BY <1>3, <1>4, <1>5, <1>6 DEF Tipos

LEMMA CerrarPaso ==
  ASSUME Tipos, NEW h \in Hilos, CerrarTruncate(h) \/ CerrarCommit(h)
  PROVE  Tipos'
<1>1. CASE CerrarTruncate(h)
  <2> DEFINE tag == [t_tag[hilo[h].id] EXCEPT !.tam = hilo[h].hasta]
  <2>1. En(h, "cerrar") /\ Guardar(h, tag)
    BY <1>1 DEF CerrarTruncate
  <2>2. t_tag[hilo[h].id] \in Tags /\ Ocupado(h)
    BY <2>1, EnPaso DEF Pasos
  <2>3. hilo[h].hasta \in Tamanos
    BY <2>1, <2>2 DEF Ocupado, En, Tamanos
  <2>4. tag \in Tags
    BY <2>2, <2>3 DEF Tags
  <2> HIDE DEF tag
  <2> QED BY <2>1, <2>4, GuardarPaso DEF Pasos
<1>2. CASE CerrarCommit(h)
  <2>1. En(h, "procesar") /\ Guardar(h, t_tag[hilo[h].id])
    BY <1>2 DEF CerrarCommit
  <2>2. t_tag[hilo[h].id] \in Tags
    BY <2>1, EnPaso DEF Pasos
  <2> QED BY <2>1, <2>2, GuardarPaso DEF Pasos
<1> QED BY <1>1, <1>2

LEMMA CommitPaso ==
  ASSUME Tipos, NEW h \in Hilos, NEW f \in FileTags, Commit(h, f)
  PROVE  Tipos'
<1>1. CASE Negar(h, "COMMIT", f) \/ Aceptar(h, "COMMIT", f)
  BY <1>1, NadaCambia DEF Negar, Aceptar
<1>2. CASE ~(Negar(h, "COMMIT", f) \/ Aceptar(h, "COMMIT", f))
  <2> DEFINE i == Tag(f)
             tag == [t_tag[i] EXCEPT !.estado = "COMMITED"]
             t == [Ocioso EXCEPT !.paso = "procesar", !.id = i, !.file = f, !.nro = 1]
  <2>1. /\ i # Nada /\ levantado
        /\ t_tag' = [t_tag EXCEPT ![i].estado = "COMMITED"]
        /\ hilo' = [hilo EXCEPT ![h] = t]
        /\ UNCHANGED <<disco, levantado, lista>>
    BY <1>2 DEF Commit, Pedido
  <2>2. i \in Ids /\ t_tag[i] \in Tags
    BY <2>1, TagExiste
  <2> HIDE DEF i
  <2>3. t_tag' = [t_tag EXCEPT ![i] = tag]
    BY <2>1, <2>2 DEF Tipos, TagsOK
  <2>4. tag \in Tags
    BY <2>2 DEF Tags, Estados
  <2>5. t \in TRABAJO /\ hilo'[h] = t
    BY <2>1, <2>2 DEF TRABAJO, Pasos, Ocioso, Tipos, HilosOK
  <2> HIDE DEF tag
  <2>6. TagsOK' /\ Conserva
    BY <2>2, <2>3, <2>4, TagPaso DEF Tipos
  <2>7. Ocupado(h)'
    <3>1. t_tag'[i] # Nada
      BY <2>2, <2>3, <2>4, NadaNoEs DEF Tipos, TagsOK
    <3>2. t.paso = "procesar" /\ t.id = i /\ t.nro = 1
      BY DEF Ocioso
    <3> HIDE DEF t
    <3> QED BY <2>1, <2>5, <3>1, <3>2 DEF Ocupado
  <2> HIDE DEF t
  <2>8. DiscoOK' /\ ListasOK'
    BY <2>1, <2>6, DiscoIgual, ListasIgual DEF Tipos
  <2>9. HilosOK'
    BY <2>1, <2>5, <2>6, <2>7, HiloPaso DEF Tipos, disco
  <2> QED BY <2>6, <2>8, <2>9 DEF Tipos
<1> QED BY <1>1, <1>2

\* The index knows block 0 or nothing, and block 0 is the one recorded: COMMIT
\* moves no logical block.
LEMMA ProcesarEfecto ==
  ASSUME Tipos, NEW h \in Hilos, Procesar(h)
  PROVE  \/ Caida /\ UNCHANGED disco
         \/ \E c \in Contenidos :
              /\ hash_index_config' = [hash_index_config EXCEPT ![c] = 0]
              /\ hilo' = [hilo EXCEPT ![h].nro = @ + 1]
              /\ En(h, "procesar") /\ hilo[h].nro \in 1..Largo(hilo[h].id)
              /\ UNCHANGED <<cant_block, bitmap, contenido, carpeta, levantado,
                             t_tag, lista, respuestas>>
<1> DEFINE i == hilo[h].id
           f == hilo[h].file
           k == hilo[h].nro
           l == t_tag[i].lista_block_logicos[k]
           c == Leido(f, l.nombre_block)
           b == hash_index_config[c]
<1>1. En(h, "procesar") /\ k =< Largo(i)
  BY DEF Procesar
<1>2. /\ i \in Ids /\ f \in FileTags /\ t_tag[i] \in Tags
      /\ hilo[h] \in TRABAJO /\ Ocupado(h)
  BY <1>1, EnPaso DEF Pasos
<1>3. k \in 1..Largo(i)
  <2>1. k \in Nat /\ k >= 1
    BY <1>1, <1>2 DEF Ocupado, En, TRABAJO
  <2>2. Largo(i) \in Nat
    BY <1>2 DEF Largo, Tags
  <2> QED BY <1>1, <2>1, <2>2
<1>4. l \in Registros
  BY <1>2, <1>3 DEF Largo, Tags
<1>5. l.bloque_fisico_asociado = 0 /\ l.nombre_block \in Nombres
  BY <1>4 DEF Registros
<1>6. c # Nada => c \in Contenidos
  BY <1>2, <1>5, EnlacesTipo DEF Tipos
<1>7. CASE c = Nada
  BY <1>7 DEF Procesar
<1>8. CASE c # Nada
  <2>1. b \in {0, Nada} /\ c \in Contenidos
    BY <1>6, <1>8 DEF Tipos, DiscoOK
  <2>2. /\ hash_index_config' = [hash_index_config EXCEPT ![c] =
             IF @ = Nada THEN l.bloque_fisico_asociado ELSE @]
        /\ IF b \in {Nada, l.bloque_fisico_asociado}
           THEN UNCHANGED <<t_tag, carpeta, bitmap>> ELSE TRUE
        /\ hilo' = [hilo EXCEPT ![h].nro = k + 1]
        /\ UNCHANGED <<cant_block, contenido, levantado, lista, respuestas>>
    BY <1>8 DEF Procesar
  <2>3. UNCHANGED <<t_tag, carpeta, bitmap>>
    BY <1>5, <2>1, <2>2
  <2>4. hash_index_config' = [hash_index_config EXCEPT ![c] = 0]
    BY <1>5, <2>1, <2>2
  <2>5. hilo' = [hilo EXCEPT ![h].nro = @ + 1]
    BY <2>2
  <2> HIDE DEF i, f, k, l, c, b
  <2> QED BY <1>1, <1>3, <2>1, <2>2, <2>3, <2>4, <2>5 DEF i, k
<1> QED BY <1>7, <1>8

LEMMA ProcesarPaso ==
  ASSUME Tipos, NEW h \in Hilos, Procesar(h)
  PROVE  Tipos'
<1>1. CASE Caida /\ UNCHANGED disco
  BY <1>1, CaidaPaso DEF Tipos
<1>2. CASE ~(Caida /\ UNCHANGED disco)
  <2>1. PICK c \in Contenidos :
          /\ hash_index_config' = [hash_index_config EXCEPT ![c] = 0]
          /\ hilo' = [hilo EXCEPT ![h].nro = @ + 1]
          /\ En(h, "procesar")
          /\ UNCHANGED <<cant_block, bitmap, contenido, carpeta, levantado,
                         t_tag, lista>>
    BY <1>2, ProcesarEfecto
  <2>2. UNCHANGED <<Bloques, Bits, Carpetas>>
    BY <2>1 DEF Bloques, Bits, Carpetas
  <2>3. DiscoOK'
    BY <2>1, <2>2 DEF Tipos, DiscoOK
  <2>4. TagsOK' /\ Conserva
    BY <2>1, TagIgual DEF Tipos
  <2>5. ListasOK'
    BY <2>1, <2>4, ListasIgual DEF Tipos
  <2>6. hilo[h] \in TRABAJO /\ Ocupado(h)
    BY <2>1, EnPaso DEF Pasos
  <2> DEFINE t == [hilo[h] EXCEPT !.nro = @ + 1]
  <2>7. hilo' = [hilo EXCEPT ![h] = t] /\ hilo'[h] = t
    BY <2>1 DEF Tipos, HilosOK
  <2>8. t \in TRABAJO
    BY <2>6 DEF TRABAJO
  <2>9. Ocupado(h)'
    BY <2>1, <2>6, <2>7 DEF Ocupado, En, TRABAJO
  <2> HIDE DEF t
  <2>10. HilosOK'
    BY <2>1, <2>4, <2>7, <2>8, <2>9, HiloPaso DEF Tipos
  <2> QED BY <2>3, <2>4, <2>5, <2>10 DEF Tipos
<1> QED BY <1>1, <1>2

\* Block 0 is the one written.
LEMMA PaginaDeTag ==
  ASSUME Tipos, NEW f \in FileTags, NEW n \in Nombres, Lee(f, n) # Nada
  PROVE  /\ Tag(f) # Nada /\ n + 1 \in 1..Largo(Tag(f))
         /\ Pagina(f, n).bloque = 0 /\ Lee(f, n) \in Contenidos
<1> DEFINE i == Tag(f)
           l == t_tag[i].lista_block_logicos[n + 1]
<1>1. Pagina(f, n) # Nada /\ i # Nada /\ ~(n >= Largo(i))
  BY DEF Lee, Pagina
<1>2. i \in Ids /\ t_tag[i] \in Tags
  BY <1>1, TagExiste
<1>3. Largo(i) \in Nat /\ n \in Nat
  BY <1>2, NombresNat DEF Largo, Tags
<1>4. n + 1 \in 1..Largo(i)
  BY <1>1, <1>3
<1>5. l \in Registros
  BY <1>2, <1>4 DEF Largo, Tags
<1>6. Pagina(f, n) = [leido |-> Leido(f, l.nombre_block), bloque |-> l.bloque_fisico_asociado]
  BY <1>1 DEF Pagina
<1>7. Lee(f, n) = Leido(f, l.nombre_block)
  BY <1>1, <1>6 DEF Lee
<1>8. l.bloque_fisico_asociado = 0 /\ l.nombre_block \in Nombres
  BY <1>5 DEF Registros
<1>9. Lee(f, n) \in Contenidos
  BY <1>7, <1>8, EnlacesTipo DEF Tipos
<1> QED BY <1>1, <1>4, <1>6, <1>8, <1>9

LEMMA WritePaso ==
  ASSUME Tipos, NEW h \in Hilos, NEW f \in FileTags, NEW n \in Nombres,
         NEW c \in Escrituras, WriteBlock(h, f, n, c)
  PROVE  Tipos'
<1>1. CASE Negar(h, "WRITE", f)
  BY <1>1, NadaCambia DEF Negar
<1>2. CASE ~Negar(h, "WRITE", f)
  <2>1. /\ Lee(f, n) # Nada
        /\ contenido' = [contenido EXCEPT ![Pagina(f, n).bloque] = c]
        /\ hash_index_config' = [hash_index_config EXCEPT ![Lee(f, n)] = Nada]
        /\ UNCHANGED <<cant_block, bitmap, carpeta, levantado, t_tag, lista, hilo>>
    BY <1>2 DEF WriteBlock
  <2>2. UNCHANGED <<Bloques, Bits, Carpetas>>
    BY <2>1 DEF Bloques, Bits, Carpetas
  <2>3. DiscoOK'
    BY <2>1, <2>2 DEF Tipos, DiscoOK, Contenidos
  <2>4. TagsOK' /\ Conserva
    BY <2>1, TagIgual DEF Tipos
  <2>5. ListasOK'
    BY <2>1, <2>4, ListasIgual DEF Tipos
  <2>6. HilosOK'
    BY <2>1, HilosIgual DEF Tipos
  <2> QED BY <2>3, <2>4, <2>5, <2>6 DEF Tipos
<1> QED BY <1>1, <1>2

\* What a restart makes of a folder: the t_tag has a logical block for each
\* link, in some order, and records block 0.
LEMMA LevantarEfecto ==
  ASSUME Tipos, Levantar
  PROVE  /\ \A h \in Hilos : hilo[h] = Ocioso
         /\ \A i \in Ids : (\A f \in EnDisco : Id[f] # i) => t_tag'[i] = Nada
         /\ \A f \in EnDisco :
              \E o \in Ordenes(Enlazados(f)) :
                t_tag'[Id[f]] =
                  [estado |-> carpeta[f].estado, tam |-> carpeta[f].tam,
                   usado |-> IF carpeta[f].usado THEN Id[f] ELSE Nada,
                   lista_block_logicos |-> [k \in DOMAIN o |-> Logico(o[k], 0)]]
<1>1. \A h \in Hilos : hilo[h] = Ocioso
  BY DEF Levantar, Tipos, HilosOK, Ocupado
<1>2. \A f \in FileTags : Id[f] \in Ids
  BY IdInyecta
<1>3. PICK orden \in [EnDisco -> UNION {Ordenes(Enlazados(f)) : f \in EnDisco}] :
        /\ \A f \in EnDisco : orden[f] \in Ordenes(Enlazados(f))
        /\ t_tag' = [i \in Ids |->
             IF \E f \in EnDisco : Id[f] = i
             THEN LET f == CHOOSE g \in EnDisco : Id[g] = i IN
                  [estado |-> carpeta[f].estado, tam |-> carpeta[f].tam,
                   usado |-> IF carpeta[f].usado THEN i ELSE Nada,
                   lista_block_logicos |->
                     [k \in DOMAIN orden[f] |-> PorHash(f, orden[f][k])]]
             ELSE Nada]
  BY DEF Levantar
<1>4. \A i \in Ids : (\A f \in EnDisco : Id[f] # i) => t_tag'[i] = Nada
  BY <1>3
<1>5. ASSUME NEW f \in EnDisco
      PROVE  t_tag'[Id[f]] =
                  [estado |-> carpeta[f].estado, tam |-> carpeta[f].tam,
                   usado |-> IF carpeta[f].usado THEN Id[f] ELSE Nada,
                   lista_block_logicos |-> [k \in DOMAIN orden[f] |-> Logico(orden[f][k], 0)]]
  <2>1. f \in FileTags /\ Id[f] \in Ids
    BY IdInyecta DEF EnDisco
  <2>2. (CHOOSE g \in EnDisco : Id[g] = Id[f]) = f
    BY <2>1, IdInyecta DEF EnDisco
  <2>3. t_tag'[Id[f]] =
                  [estado |-> carpeta[f].estado, tam |-> carpeta[f].tam,
                   usado |-> IF carpeta[f].usado THEN Id[f] ELSE Nada,
                   lista_block_logicos |-> [k \in DOMAIN orden[f] |-> PorHash(f, orden[f][k])]]
    BY <1>3, <2>1, <2>2
  <2>4. orden[f] \in Ordenes(Enlazados(f))
    BY <1>3
  <2>5. \A k \in DOMAIN orden[f] : orden[f][k] \in Enlazados(f)
    BY <2>4 DEF Ordenes
  <2>6. ASSUME NEW n \in Enlazados(f) PROVE hash_index_config[Leido(f, n)] = 0
    <3>1. n \in Nombres /\ Enlaces(f)[n] # Nada
      BY DEF Enlazados
    <3>2. Leido(f, n) \in Contenidos
      BY <2>1, <3>1, EnlacesTipo DEF Tipos
    <3>3. hash_index_config[Leido(f, n)] # Nada
      BY DEF Levantar, HashesHallados
    <3> QED BY <3>2, <3>3 DEF Tipos, DiscoOK
  <2>7. \A k \in DOMAIN orden[f] : PorHash(f, orden[f][k]) = Logico(orden[f][k], 0)
    BY <2>5, <2>6 DEF PorHash
  <2>8. [k \in DOMAIN orden[f] |-> PorHash(f, orden[f][k])]
        = [k \in DOMAIN orden[f] |-> Logico(orden[f][k], 0)]
    BY <2>7
  <2> QED BY <2>3, <2>8, Zenon
<1>6. ASSUME NEW f \in EnDisco
      PROVE  \E o \in Ordenes(Enlazados(f)) :
                t_tag'[Id[f]] =
                  [estado |-> carpeta[f].estado, tam |-> carpeta[f].tam,
                   usado |-> IF carpeta[f].usado THEN Id[f] ELSE Nada,
                   lista_block_logicos |-> [k \in DOMAIN o |-> Logico(o[k], 0)]]
  <2>1. orden[f] \in Ordenes(Enlazados(f))
    BY <1>3
  <2> QED BY <1>5, <2>1, Zenon
<1> QED BY <1>1, <1>4, <1>6, Zenon

LEMMA LevantarPaso ==
  ASSUME Tipos, Levantar
  PROVE  Tipos'
<1>1. /\ \A h \in Hilos : hilo[h] = Ocioso
      /\ lista' = [f \in FileTags |-> IF f \in EnDisco THEN <<Id[f]>> ELSE <<>>]
      /\ levantado' = TRUE
      /\ UNCHANGED <<cant_block, contenido, hash_index_config, carpeta, hilo>>
  BY LevantarEfecto DEF Levantar
<1>2. ASSUME NEW f \in EnDisco
      PROVE  Id[f] \in Ids /\ t_tag'[Id[f]] \in Tags
  <2>1. f \in FileTags /\ carpeta[f] # Nada /\ Id[f] \in Ids
    BY IdInyecta DEF EnDisco
  <2>2. carpeta[f] \in Carpetas
    BY <2>1 DEF Tipos, DiscoOK
  <2>3. PICK o \in Ordenes(Enlazados(f)) :
          t_tag'[Id[f]] =
            [estado |-> carpeta[f].estado, tam |-> carpeta[f].tam,
             usado |-> IF carpeta[f].usado THEN Id[f] ELSE Nada,
             lista_block_logicos |-> [k \in DOMAIN o |-> Logico(o[k], 0)]]
    BY LevantarEfecto
  <2> DEFINE S == Enlazados(f)
  <2>4. S \subseteq Nombres /\ Cardinality(S) \in Nat
    <3>1. S \subseteq Nombres
      BY DEF Enlazados
    <3>2. IsFiniteSet(S)
      BY <3>1, NombresNat, FS_Subset
    <3> QED BY <3>1, <3>2, FS_CardinalityType
  <2>5. o \in [1..Cardinality(S) -> S]
    BY DEF Ordenes
  <2> DEFINE s == [k \in DOMAIN o |-> Logico(o[k], 0)]
  <2> HIDE DEF S
  <2>6. s \in [1..Cardinality(S) -> Registros]
    BY <2>4, <2>5 DEF Logico, Registros
  <2>7. s \in Seq(Registros)
    BY <2>4, <2>6
  <2> HIDE DEF s
  <2> QED BY <2>1, <2>2, <2>3, <2>7 DEF Tags, Carpetas, s
<1>3. \A i \in Ids : (\A f \in EnDisco : Id[f] # i) => t_tag'[i] = Nada
  BY LevantarEfecto
<1>4. TagsOK'
  <2>1. t_tag' = [i \in Ids |-> t_tag'[i]]
    BY DEF Levantar
  <2>2. \A i \in Ids : t_tag'[i] \in Tags \cup {Nada}
    BY <1>2, <1>3
  <2> QED BY <2>1, <2>2 DEF TagsOK
<1>5. DiscoOK'
  <2>1. UNCHANGED <<Bloques, Bits, Carpetas>>
    BY <1>1 DEF Bloques, Bits, Carpetas
  <2>2. 0 \in Bits
    BY BloquesConBit DEF Tipos, DiscoOK
  <2>3. ASSUME NEW f \in EnDisco, NEW n \in Enlazados(f)
        PROVE  hash_index_config[Leido(f, n)] = 0
    <3>1. f \in FileTags /\ n \in Nombres /\ Enlaces(f)[n] # Nada
      BY DEF EnDisco, Enlazados
    <3>2. Leido(f, n) \in Contenidos
      BY <3>1, EnlacesTipo DEF Tipos
    <3>3. hash_index_config[Leido(f, n)] # Nada
      BY DEF Levantar, HashesHallados
    <3> QED BY <3>2, <3>3 DEF Tipos, DiscoOK
  <2>4. bitmap' \subseteq Bits
    BY <2>2, <2>3 DEF Levantar, Tipos, DiscoOK
  <2> QED BY <1>1, <2>1, <2>4 DEF Tipos, DiscoOK
<1>6. ListasOK'
  <2>1. ASSUME NEW f \in FileTags, NEW k \in 1..Len(lista'[f])
        PROVE  f \in EnDisco /\ k = 1 /\ lista'[f][k] = Id[f]
    BY <1>1
  <2>2. lista' \in [FileTags -> Seq(Ids)]
    BY <1>1, <1>2
  <2>3. \A f \in FileTags : \A k \in 1..Len(lista'[f]) : t_tag'[lista'[f][k]] # Nada
    BY <1>2, <2>1, NadaNoEs
  <2>4. \A f, g \in FileTags : \A j \in 1..Len(lista'[f]), k \in 1..Len(lista'[g]) :
          lista'[f][j] = lista'[g][k] => f = g /\ j = k
    BY <2>1, IdInyecta
  <2> QED BY <2>2, <2>3, <2>4 DEF ListasOK
<1>7. HilosOK'
  BY <1>1 DEF Tipos, HilosOK
<1> QED BY <1>4, <1>5, <1>6, <1>7 DEF Tipos

\* The requests and the steps of a thread that have a lemma of their own.
LEMMA TiposPaso == Tipos /\ [Next]_vars => Tipos'
<1> SUFFICES ASSUME Tipos, [Next]_vars PROVE Tipos'
  OBVIOUS
<1>1. CASE Caer
  BY <1>1, CaidaPaso DEF Caer, Tipos
<1>2. CASE Levantar
  BY <1>2, LevantarPaso
<1>3. CASE LevantarFalla \/ UNCHANGED vars
  BY <1>3, NadaCambia DEF LevantarFalla, vars
<1>4. ASSUME NEW h \in Hilos, NEW f \in FileTags,
             Create(h, f) \/ Delete(h, f) \/ Commit(h, f) \/ Flush(h, f)
             \/ TruncateRechazado(h, f)
      PROVE  Tipos'
  BY <1>4, CreatePaso, DeletePaso, CommitPaso, NadaCambia
     DEF Flush, TruncateRechazado, Negar, Aceptar
<1>5. ASSUME NEW h \in Hilos, NEW f \in FileTags, NEW n \in 0..MaxBloques,
             TruncateAchica(h, f, n) \/ TruncateAgranda(h, f, n)
      PROVE  Tipos'
  BY <1>5, AchicaPaso, AgrandaPaso
<1>6. ASSUME NEW h \in Hilos, NEW f \in FileTags, NEW o \in FileTags, TagFile(h, o, f)
      PROVE  Tipos'
  BY <1>6, TagFilePaso
<1>7. ASSUME NEW h \in Hilos, NEW f \in FileTags, NEW n \in Nombres, ReadBlock(h, f, n)
      PROVE  Tipos'
  BY <1>7, NadaCambia DEF ReadBlock, Negar, Aceptar
<1>8. ASSUME NEW h \in Hilos, NEW f \in FileTags, NEW n \in Nombres,
             NEW c \in Escrituras, WriteBlock(h, f, n, c)
      PROVE  Tipos'
  BY <1>8, WritePaso
<1>9. ASSUME NEW h \in Hilos,
             \/ SinBloques(h) \/ Buscar(h) \/ Marcar(h) \/ Enlazar(h) \/ NoEnlaza(h)
             \/ Devolver(h) \/ CerrarTruncate(h) \/ Procesar(h) \/ CerrarCommit(h)
      PROVE  Tipos'
  BY <1>9, BuscarPaso, MarcarPaso, EnlazarPaso, DevolverPaso, CerrarPaso, ProcesarPaso
<1>10. ASSUME NEW h \in Hilos, Contestar(h) PROVE Tipos'
  BY <1>10, NadaCambia DEF Contestar
<1> QED BY <1>1, <1>2, <1>3, <1>4, <1>5, <1>6, <1>7, <1>8, <1>9, <1>10 DEF Next

-----------------------------------------------------------------------------
(* What is owed.                                                           *)

\* A thread owes at most one answer, and none while it works on a request.
Deudas ==
  /\ pendiente \in [Hilos -> RESPUESTA \cup {Nada}]
  /\ \A h \in Hilos : hilo[h] # Ocioso => pendiente[h] = Nada

LEMMA DeudaMuda ==
  ASSUME Deudas, NEW h \in Hilos, pendiente[h] = Nada, pendiente' = pendiente,
         \A g \in Hilos \ {h} : hilo'[g] = hilo[g]
  PROVE  Deudas'
<1>1. ASSUME NEW g \in Hilos, hilo'[g] # Ocioso PROVE pendiente'[g] = Nada
  BY <1>1 DEF Deudas
<1> QED BY <1>1 DEF Deudas

LEMMA DeudaNueva ==
  ASSUME Deudas, NEW h \in Hilos, NEW r \in RESPUESTA,
         pendiente' = [pendiente EXCEPT ![h] = r],
         hilo'[h] = Ocioso, \A g \in Hilos \ {h} : hilo'[g] = hilo[g]
  PROVE  Deudas'
<1>1. ASSUME NEW g \in Hilos, hilo'[g] # Ocioso PROVE pendiente'[g] = Nada
  <2>1. g # h
    BY <1>1
  <2> QED BY <1>1, <2>1 DEF Deudas
<1>2. pendiente' \in [Hilos -> RESPUESTA \cup {Nada}]
  BY DEF Deudas
<1> QED BY <1>1, <1>2 DEF Deudas

LEMMA DeudaCaida ==
  ASSUME Caida
  PROVE  Deudas'
  BY DEF Caida, Deudas

\* The requests.
LEMMA DeudaPedido ==
  ASSUME Tipos, Deudas, NEW h \in Hilos, NEW f \in FileTags,
         \/ Create(h, f) \/ Delete(h, f) \/ Commit(h, f) \/ Flush(h, f)
         \/ TruncateRechazado(h, f)
         \/ \E n \in 0..MaxBloques : TruncateAchica(h, f, n) \/ TruncateAgranda(h, f, n)
         \/ \E o \in FileTags : TagFile(h, o, f)
         \/ \E n \in Nombres : ReadBlock(h, f, n)
         \/ \E n \in Nombres, c \in Escrituras : WriteBlock(h, f, n, c)
  PROVE  Deudas'
<1>1. pendiente[h] = Nada /\ hilo[h] = Ocioso
  BY DEF Create, Delete, Commit, Flush, TruncateRechazado, TruncateAchica,
         TruncateAgranda, TagFile, ReadBlock, WriteBlock, Pedido
<1>2. CASE Caida
  BY <1>2, DeudaCaida
<1>3. ASSUME NEW op \in {"CREATE", "TRUNCATE", "TAG", "COMMIT", "DELETE", "READ",
                         "WRITE", "FLUSH"}, NEW rc \in {"OK", "ERROR"},
             Responder(h, op, f, rc), UNCHANGED hilo
      PROVE  Deudas'
  <2> DEFINE r == [op |-> op, file |-> f, rc |-> rc]
  <2>1. r \in RESPUESTA
    BY DEF RESPUESTA
  <2>2. pendiente' = [pendiente EXCEPT ![h] = r]
    BY <1>3 DEF Responder
  <2> HIDE DEF r
  <2> QED BY <1>1, <1>3, <2>1, <2>2, DeudaNueva
<1>4. ASSUME NEW t, hilo' = [hilo EXCEPT ![h] = t], UNCHANGED pendiente
      PROVE  Deudas'
  <2>1. \A g \in Hilos \ {h} : hilo'[g] = hilo[g]
    BY <1>4 DEF Tipos, HilosOK
  <2> QED BY <1>1, <1>4, <2>1, DeudaMuda
<1>5. ASSUME NEW op, NEW rc, Negar(h, op, f) \/ Aceptar(h, op, f)
      PROVE  UNCHANGED hilo /\ \E r \in {"OK", "ERROR"} : Responder(h, op, f, r)
  BY <1>5 DEF Negar, Aceptar
<1>6. CASE Create(h, f)
  BY <1>3, <1>6 DEF Create, Crear, Negar
<1>7. CASE Delete(h, f)
  BY <1>2, <1>3, <1>7 DEF Delete, DobleFree, Aceptar
<1>8. CASE Commit(h, f)
  BY <1>3, <1>4, <1>8 DEF Commit, Negar, Aceptar, respuestas
<1>9. CASE Flush(h, f) \/ TruncateRechazado(h, f)
  BY <1>3, <1>9 DEF Flush, TruncateRechazado, Negar, Aceptar
<1>10. ASSUME NEW n \in 0..MaxBloques, TruncateAchica(h, f, n) PROVE Deudas'
  BY <1>2, <1>3, <1>10 DEF TruncateAchica, DobleFree
<1>11. ASSUME NEW n \in 0..MaxBloques, TruncateAgranda(h, f, n) PROVE Deudas'
  BY <1>4, <1>11 DEF TruncateAgranda, respuestas
<1>12. ASSUME NEW o \in FileTags, TagFile(h, o, f) PROVE Deudas'
  BY <1>3, <1>12 DEF TagFile, Crear, Negar
<1>13. ASSUME NEW n \in Nombres, ReadBlock(h, f, n) PROVE Deudas'
  BY <1>3, <1>13 DEF ReadBlock, Negar, Aceptar
<1>14. ASSUME NEW n \in Nombres, NEW c \in Escrituras, WriteBlock(h, f, n, c)
       PROVE  Deudas'
  BY <1>3, <1>14 DEF WriteBlock, Negar
<1> QED BY <1>6, <1>7, <1>8, <1>9, <1>10, <1>11, <1>12, <1>13, <1>14

\* The steps of a thread that works on a request.
LEMMA DeudaTrabajo ==
  ASSUME Tipos, Deudas, NEW h \in Hilos,
         \/ SinBloques(h) \/ Buscar(h) \/ Marcar(h) \/ Enlazar(h) \/ NoEnlaza(h)
         \/ Devolver(h) \/ CerrarTruncate(h) \/ Procesar(h) \/ CerrarCommit(h)
  PROVE  Deudas'
<1>1. \E p \in Pasos : En(h, p)
  BY DEF SinBloques, Buscar, Marcar, Enlazar, NoEnlaza, Devolver, CerrarTruncate,
         Procesar, CerrarCommit, Pasos
<1>2. hilo[h] # Ocioso /\ hilo[h].file \in FileTags
  BY <1>1, EnPaso
<1>3. pendiente[h] = Nada
  BY <1>2 DEF Deudas
<1>4. CASE Caida
  BY <1>4, DeudaCaida
<1>5. ASSUME NEW t, hilo' = [hilo EXCEPT ![h] = t], UNCHANGED pendiente
      PROVE  Deudas'
  <2>1. \A g \in Hilos \ {h} : hilo'[g] = hilo[g]
    BY <1>5 DEF Tipos, HilosOK
  <2> QED BY <1>3, <1>5, <2>1, DeudaMuda
<1>6. ASSUME NEW op \in {"TRUNCATE", "COMMIT"}, NEW rc \in {"OK", "ERROR"},
             Responder(h, op, hilo[h].file, rc), Termina(h)
      PROVE  Deudas'
  <2> DEFINE r == [op |-> op, file |-> hilo[h].file, rc |-> rc]
  <2>1. r \in RESPUESTA
    BY <1>2 DEF RESPUESTA
  <2>2. pendiente' = [pendiente EXCEPT ![h] = r]
    BY <1>6 DEF Responder
  <2>3. hilo'[h] = Ocioso /\ \A g \in Hilos \ {h} : hilo'[g] = hilo[g]
    BY <1>6 DEF Termina, Tipos, HilosOK
  <2> HIDE DEF r
  <2> QED BY <2>1, <2>2, <2>3, DeudaNueva
<1>7. CASE SinBloques(h) \/ CerrarTruncate(h) \/ CerrarCommit(h)
  BY <1>6, <1>7 DEF SinBloques, CerrarTruncate, CerrarCommit, Guardar
<1>8. CASE Procesar(h)
  BY <1>4, <1>5, <1>8 DEF Procesar, respuestas
<1>9. CASE Buscar(h) \/ Marcar(h) \/ NoEnlaza(h) \/ Devolver(h) \/ Enlazar(h)
  BY <1>5, <1>9 DEF Buscar, Marcar, NoEnlaza, Devolver, Enlazar, Sigue, ProximoBloque,
                    respuestas
<1> QED BY <1>7, <1>8, <1>9

LEMMA DeudasPaso == Tipos /\ Deudas /\ [Next]_vars => Deudas'
<1> SUFFICES ASSUME Tipos, Deudas, [Next]_vars PROVE Deudas'
  OBVIOUS
<1>1. CASE Caer
  BY <1>1, DeudaCaida DEF Caer
<1>2. CASE Levantar \/ LevantarFalla \/ UNCHANGED vars
  <2>1. UNCHANGED <<pendiente, hilo>>
    BY <1>2 DEF Levantar, LevantarFalla, vars, respuestas
  <2> QED BY <2>1 DEF Deudas
<1>3. ASSUME NEW h \in Hilos, Contestar(h) PROVE Deudas'
  BY <1>3 DEF Contestar, Deudas
<1> QED BY <1>1, <1>2, <1>3, DeudaPedido, DeudaTrabajo DEF Next

\* Whatever the threads do, whatever is tagged onto what, and through every
\* stop and restart, each variable holds a value the program can give it.
THEOREM AlmacenTipado == Spec => []TypeOK
<1>1. Tipos /\ Deudas => TypeOK
  <2> SUFFICES ASSUME Tipos, Deudas PROVE TypeOK
    OBVIOUS
  <2>1. 0 \in Bloques /\ Bloques \subseteq Nat /\ Registros \subseteq LOGICO
    BY BloquesConBit, SupuestosAlmacen DEF Tipos, DiscoOK, Bloques, Registros, LOGICO
  <2>2. Carpetas \subseteq CARPETA
    BY <2>1 DEF Carpetas, CARPETA
  <2>3. Seq(Registros) \subseteq Seq(LOGICO)
    BY <2>1
  <2>4. Tags \subseteq TAG
    BY <2>3 DEF Tags, TAG
  <2>5. \A f \in FileTags, n \in Nombres : Enlaces(f)[n] \in Bloques \cup {Nada}
    BY EnlacesTipo DEF Tipos
  <2>6. ASSUME NEW i \in Ids, t_tag[i] # Nada, NEW k \in 1..Largo(i)
        PROVE  t_tag[i].lista_block_logicos[k].bloque_fisico_asociado \in Bloques
    <3>1. t_tag[i].lista_block_logicos \in Seq(Registros)
      BY <2>6 DEF Tipos, TagsOK, Tags
    <3>2. t_tag[i].lista_block_logicos[k] \in Registros
      BY <3>1 DEF Largo
    <3> QED BY <2>1, <3>2 DEF Registros
  <2>7. \A f \in FileTags : \A k \in DOMAIN lista[f] : t_tag[lista[f][k]] # Nada
    BY DEF Tipos, ListasOK
  <2>8. /\ hash_index_config \in [Contenidos -> Bloques \cup {Nada}]
        /\ carpeta \in [FileTags -> CARPETA \cup {Nada}]
        /\ t_tag \in [Ids -> TAG \cup {Nada}]
    BY <2>1, <2>2, <2>4 DEF Tipos, DiscoOK, TagsOK
  <2> QED BY <2>5, <2>6, <2>7, <2>8 DEF Tipos, DiscoOK, ListasOK, HilosOK, Deudas, TypeOK
<1>2. Init => Deudas
  BY DEF Init, Deudas
<1> QED BY TiposInicial, TiposPaso, DeudasPaso, <1>1, <1>2, PTL DEF Spec

\* operaciones_storage.c:172: whatever is linked, tagged, committed or found
\* at a restart, the block recorded is block 0.
THEOREM SoloBloque0 == Spec => []RegistranBloque0
<1>1. Tipos => RegistranBloque0
  <2> SUFFICES ASSUME Tipos, NEW i \in Ids, t_tag[i] # Nada, NEW k \in 1..Largo(i)
               PROVE  t_tag[i].lista_block_logicos[k].bloque_fisico_asociado = 0
    BY DEF RegistranBloque0
  <2>1. t_tag[i].lista_block_logicos \in Seq(Registros)
    BY DEF Tipos, TagsOK, Tags
  <2>2. t_tag[i].lista_block_logicos[k] \in Registros
    BY <2>1 DEF Largo
  <2> QED BY <2>2 DEF Registros
<1> QED BY TiposInicial, TiposPaso, <1>1, PTL DEF Spec

-----------------------------------------------------------------------------
(* The t_tag and the folder, with one thread, restarts, and no TAG onto    *)
(* what exists.                                                            *)

UnHilo == \A h, g \in Hilos : h = g

\* The logical blocks bl are those linked in e, each once.
Nombrados(bl, e) ==
  /\ \A j, k \in 1..Len(bl) : bl[j].nombre_block = bl[k].nombre_block => j = k
  /\ \A n \in Nombres : e[n] # Nada <=> \E k \in 1..Len(bl) : bl[k].nombre_block = n

Fiel(f) ==
  /\ Nombrados(t_tag[Tag(f)].lista_block_logicos, Enlaces(f))
  /\ carpeta[f].tam = t_tag[Tag(f)].tam
  /\ carpeta[f].estado = IF EnCommit(f) THEN "WORK_IN_PROGRESS" ELSE t_tag[Tag(f)].estado

\* A File:Tag has a folder while it is listed, once; the folder holds what was
\* answered last.
CopiaDe(f) ==
  /\ lista[f] = <<>> <=> carpeta[f] = Nada
  /\ lista[f] # <<>> => Len(lista[f]) = 1 /\ Fiel(f)

\* The t_tag a thread works on is still that of its File:Tag.
HiloFiel(h) ==
  hilo[h] # Ocioso =>
    /\ lista[hilo[h].file] # <<>> /\ Tag(hilo[h].file) = hilo[h].id
    /\ t_tag[hilo[h].id].estado =
         IF hilo[h].paso = "procesar" THEN "COMMITED" ELSE "WORK_IN_PROGRESS"

Copia ==
  levantado => /\ \A f \in FileTags : CopiaDe(f)
               /\ \A h \in Hilos : HiloFiel(h)

LEMMA NombradosVacio == Nombrados(<<>>, SinEnlaces)
  BY DEF Nombrados, SinEnlaces

LEMMA NombradosPrefijo ==
  ASSUME NEW s \in Seq(Registros), NEW t \in Seq(Registros), NEW e, NEW d, Nombrados(s, e),
         Len(t) =< Len(s), \A k \in 1..Len(t) : t[k] = s[k],
         \A n \in Nombres : d[n] = IF \E k \in (Len(t) + 1)..Len(s) : s[k].nombre_block = n
                                   THEN Nada ELSE e[n]
  PROVE  Nombrados(t, d)
<1>1. 1..Len(t) \subseteq 1..Len(s) /\ (Len(t) + 1)..Len(s) \subseteq 1..Len(s)
  OBVIOUS
<1>2. ASSUME NEW k \in 1..Len(s), k \notin (Len(t) + 1)..Len(s)
      PROVE  k \in 1..Len(t)
  BY <1>2
<1>3. ASSUME NEW n \in Nombres
      PROVE  d[n] # Nada <=> \E k \in 1..Len(t) : t[k].nombre_block = n
  <2>1. CASE \E k \in (Len(t) + 1)..Len(s) : s[k].nombre_block = n
    <3>1. PICK k \in (Len(t) + 1)..Len(s) : s[k].nombre_block = n
      BY <2>1
    <3>2. \A j \in 1..Len(t) : j # k
      OBVIOUS
    <3>3. \A j \in 1..Len(t) : t[j].nombre_block # n
      BY <1>1, <3>1, <3>2 DEF Nombrados
    <3> QED BY <2>1, <3>3
  <2>2. CASE ~ \E k \in (Len(t) + 1)..Len(s) : s[k].nombre_block = n
    <3>1. d[n] # Nada <=> \E k \in 1..Len(s) : s[k].nombre_block = n
      BY <2>2 DEF Nombrados
    <3> QED BY <1>1, <1>2, <2>2, <3>1
  <2> QED BY <2>1, <2>2
<1>4. \A j, k \in 1..Len(t) : t[j].nombre_block = t[k].nombre_block => j = k
  BY <1>1 DEF Nombrados
<1> QED BY <1>3, <1>4 DEF Nombrados

LEMMA NombradosMas ==
  ASSUME NEW s \in Seq(Registros), NEW e \in [Nombres -> Bloques \cup {Nada}],
         Nombrados(s, e), NEW r \in Registros, e[r.nombre_block] = Nada,
         NEW b, b # Nada
  PROVE  Nombrados(Append(s, r), [e EXCEPT ![r.nombre_block] = b])
<1> DEFINE t == Append(s, r)
           x == r.nombre_block
           d == [e EXCEPT ![x] = b]
<1>1. /\ Len(t) = Len(s) + 1 /\ t[Len(s) + 1] = r
      /\ \A k \in 1..Len(s) : t[k] = s[k]
  OBVIOUS
<1>2. x \in Nombres /\ \A k \in 1..Len(s) : s[k].nombre_block # x
  BY DEF Nombrados, Registros
<1>3. \A n \in Nombres : d[n] = IF n = x THEN b ELSE e[n]
  OBVIOUS
<1>4. \A k : k \in 1..Len(t) <=> k \in 1..Len(s) \/ k = Len(s) + 1
  BY <1>1
<1> HIDE DEF t, d
<1>5. ASSUME NEW n \in Nombres
      PROVE  d[n] # Nada <=> \E k \in 1..Len(t) : t[k].nombre_block = n
  <2>1. CASE n = x
    BY <1>1, <1>3, <1>4, <2>1
  <2>2. CASE n # x
    <3>1. d[n] # Nada <=> \E k \in 1..Len(s) : s[k].nombre_block = n
      BY <1>3, <2>2 DEF Nombrados
    <3> QED BY <1>1, <1>4, <2>2, <3>1
  <2> QED BY <2>1, <2>2
<1>6. ASSUME NEW j \in 1..Len(t), NEW k \in 1..Len(t),
             t[j].nombre_block = t[k].nombre_block
      PROVE  j = k
  BY <1>1, <1>2, <1>4, <1>6 DEF Nombrados
<1>7. Nombrados(t, d)
  BY <1>5, <1>6 DEF Nombrados
<1> QED BY <1>7 DEF t, d

\* A step that changes one File:Tag and, of the others, at most to whom their
\* strings belong.
LEMMA CopiaPaso ==
  ASSUME Copia, levantado, NEW f \in FileTags, CopiaDe(f)', \A h \in Hilos : HiloFiel(h)',
         \A g \in FileTags : g # f =>
           /\ lista'[g] = lista[g] /\ carpeta'[g] = carpeta[g]
           /\ lista[g] # <<>> =>
                /\ t_tag'[Tag(g)].estado = t_tag[Tag(g)].estado
                /\ t_tag'[Tag(g)].tam = t_tag[Tag(g)].tam
                /\ t_tag'[Tag(g)].lista_block_logicos = t_tag[Tag(g)].lista_block_logicos
                /\ EnCommit(g)' <=> EnCommit(g)
  PROVE  Copia'
<1>1. ASSUME NEW g \in FileTags, g # f PROVE CopiaDe(g)'
  <2>1. lista'[g] = lista[g] /\ carpeta'[g] = carpeta[g] /\ CopiaDe(g)
    BY <1>1 DEF Copia
  <2>2. Tag(g)' = Tag(g) /\ Enlaces(g)' = Enlaces(g)
    BY <2>1 DEF Tag, Enlaces
  <2>3. CASE lista[g] = <<>>
    BY <2>1, <2>3 DEF CopiaDe
  <2>4. CASE lista[g] # <<>>
    <3>1. Fiel(g)
      BY <2>1, <2>4 DEF CopiaDe
    <3>2. /\ t_tag'[Tag(g)].estado = t_tag[Tag(g)].estado
          /\ t_tag'[Tag(g)].tam = t_tag[Tag(g)].tam
          /\ t_tag'[Tag(g)].lista_block_logicos = t_tag[Tag(g)].lista_block_logicos
          /\ EnCommit(g)' <=> EnCommit(g)
      BY <1>1, <2>4
    <3>3. Fiel(g)'
      BY <2>1, <2>2, <3>1, <3>2 DEF Fiel, Nombrados
    <3> QED BY <2>1, <3>3 DEF CopiaDe
  <2> QED BY <2>3, <2>4
<1> QED BY <1>1 DEF Copia

LEMMA CopiaIgual ==
  ASSUME Copia, UNCHANGED <<t_tag, lista, carpeta, hilo, levantado>>
  PROVE  Copia'
<1>1. ASSUME NEW f \in FileTags PROVE Tag(f)' = Tag(f) /\ Enlaces(f)' = Enlaces(f)
  BY DEF Tag, Enlaces
<1>2. ASSUME NEW f \in FileTags PROVE Fiel(f)' <=> Fiel(f)
  BY <1>1 DEF Fiel, Nombrados, EnCommit
<1>3. ASSUME NEW f \in FileTags PROVE CopiaDe(f)' <=> CopiaDe(f)
  BY <1>2 DEF CopiaDe
<1>4. ASSUME NEW h \in Hilos PROVE HiloFiel(h)' <=> HiloFiel(h)
  BY DEF HiloFiel, Tag
<1> QED BY <1>3, <1>4 DEF Copia

LEMMA OtroTag ==
  ASSUME Tipos, NEW f \in FileTags, NEW g \in FileTags, f # g, Tag(f) # Nada,
         lista[g] # <<>>
  PROVE  Tag(g) \in Ids /\ Tag(g) # Nada /\ Tag(g) # Tag(f)
<1>1. lista[f] \in Seq(Ids) /\ lista[f] # <<>> /\ Tag(f) = lista[f][1]
  BY TagExiste
<1>2. lista[g] \in Seq(Ids) /\ Tag(g) = lista[g][1]
  BY DEF Tipos, ListasOK, Tag
<1>3. 1 \in 1..Len(lista[f]) /\ 1 \in 1..Len(lista[g])
  BY <1>1, <1>2
<1>4. Tag(g) # Tag(f)
  BY <1>1, <1>2, <1>3 DEF Tipos, ListasOK
<1>5. Tag(g) \in Ids
  BY <1>2, <1>3
<1> QED BY <1>4, <1>5, NadaNoEs

\* A step that keeps what is listed and changes the t_tag and the folder of f,
\* alike.
LEMMA CopiaCambia ==
  ASSUME Tipos, Copia, levantado, UnHilo, NEW h \in Hilos, NEW f \in FileTags,
         Tag(f) # Nada, UNCHANGED <<lista, levantado>>,
         NEW c, c # Nada, carpeta' = [carpeta EXCEPT ![f] = c],
         NEW tag, t_tag'[Tag(f)] = tag,
         \A j \in Ids : j # Tag(f) /\ t_tag[j] # Nada =>
           /\ t_tag'[j].estado = t_tag[j].estado
           /\ t_tag'[j].tam = t_tag[j].tam
           /\ t_tag'[j].lista_block_logicos = t_tag[j].lista_block_logicos,
         Nombrados(tag.lista_block_logicos, c.enlaces),
         c.tam = tag.tam,
         c.estado = IF hilo'[h].paso = "procesar" /\ hilo'[h].id = Tag(f)
                    THEN "WORK_IN_PROGRESS" ELSE tag.estado,
         hilo[h].id \in {Tag(f), Nada}, hilo'[h].id \in {Tag(f), Nada},
         HiloFiel(h)'
  PROVE  Copia'
<1>1. lista[f] # <<>> /\ Len(lista[f]) = 1 /\ Tag(f)' = Tag(f)
  BY TagExiste DEF Copia, CopiaDe, Tag
<1>2. Hilos = {h}
  BY DEF UnHilo
<1>3. carpeta'[f] = c /\ Enlaces(f)' = c.enlaces
  BY DEF Enlaces, Tipos, DiscoOK
<1>4. EnCommit(f)' <=> hilo'[h].paso = "procesar" /\ hilo'[h].id = Tag(f)
  BY <1>1, <1>2 DEF EnCommit
<1>5. c.estado = IF EnCommit(f)' THEN "WORK_IN_PROGRESS" ELSE tag.estado
  BY <1>4
<1>6. Fiel(f)'
  BY <1>1, <1>3, <1>5 DEF Fiel, Nombrados
<1>7. CopiaDe(f)'
  BY <1>1, <1>3, <1>6 DEF CopiaDe
<1>8. ASSUME NEW g \in FileTags, g # f
      PROVE  /\ lista'[g] = lista[g] /\ carpeta'[g] = carpeta[g]
             /\ lista[g] # <<>> =>
                /\ t_tag'[Tag(g)].estado = t_tag[Tag(g)].estado
                /\ t_tag'[Tag(g)].tam = t_tag[Tag(g)].tam
                /\ t_tag'[Tag(g)].lista_block_logicos = t_tag[Tag(g)].lista_block_logicos
                /\ EnCommit(g)' <=> EnCommit(g)
  <2>1. lista'[g] = lista[g] /\ carpeta'[g] = carpeta[g]
    BY <1>8 DEF Tipos, DiscoOK
  <2>2. CASE lista[g] # <<>>
    <3>1. Tag(g) \in Ids /\ Tag(g) # Nada /\ Tag(g) # Tag(f)
      BY <1>8, <2>2, OtroTag
    <3>2. t_tag[Tag(g)] # Nada
      BY <3>1, TagExiste
    <3>3. Tag(g)' = Tag(g)
      BY DEF Tag
    <3>4. ~EnCommit(g) /\ ~EnCommit(g)'
      BY <1>2, <3>1, <3>3 DEF EnCommit
    <3> QED BY <2>1, <3>1, <3>2, <3>4
  <2> QED BY <2>1, <2>2
<1>9. \A k \in Hilos : HiloFiel(k)'
  BY <1>2
<1> QED BY <1>7, <1>8, <1>9, CopiaPaso

\* A step of a thread that leaves every t_tag and every folder.
LEMMA CopiaHilo ==
  ASSUME Tipos, Copia, levantado, UnHilo, NEW h \in Hilos,
         UNCHANGED <<t_tag, lista, carpeta, levantado>>, HiloFiel(h)',
         \A f \in FileTags : EnCommit(f)' <=> EnCommit(f)
  PROVE  Copia'
<1>1. \A k \in Hilos : k = h
  BY DEF UnHilo
<1>2. \A k \in Hilos : HiloFiel(k)'
  BY <1>1
<1>3. ASSUME NEW f \in FileTags PROVE Tag(f)' = Tag(f) /\ Enlaces(f)' = Enlaces(f)
  BY DEF Tag, Enlaces
<1>4. ASSUME NEW f \in FileTags PROVE Fiel(f)' <=> Fiel(f)
  <2> DEFINE t == t_tag[Tag(f)]
  <2>1. t' = t /\ Enlaces(f)' = Enlaces(f) /\ carpeta'[f] = carpeta[f]
    BY <1>3
  <2>2. EnCommit(f)' <=> EnCommit(f)
    OBVIOUS
  <2>3. Nombrados(t.lista_block_logicos, Enlaces(f))' <=> Nombrados(t.lista_block_logicos, Enlaces(f))
    <3> HIDE DEF t
    <3> QED BY <2>1 DEF Nombrados
  <2> HIDE DEF t
  <2>4. t.tam' = t.tam /\ t.estado' = t.estado
    BY <2>1
  <2> QED BY <2>1, <2>2, <2>3, <2>4 DEF Fiel, t
<1>5. ASSUME NEW f \in FileTags PROVE CopiaDe(f)'
  BY <1>4 DEF CopiaDe, Copia
<1> QED BY <1>2, <1>5 DEF Copia

\* The next block, or the next one of a COMMIT: the thread is still at it.
LEMMA CopiaSigue ==
  ASSUME Tipos, Copia, levantado, UnHilo, NEW h \in Hilos, hilo[h] # Ocioso,
         UNCHANGED <<t_tag, lista, carpeta, levantado>>,
         hilo'[h] # Ocioso, hilo'[h].id = hilo[h].id, hilo'[h].file = hilo[h].file,
         hilo'[h].paso = "procesar" <=> hilo[h].paso = "procesar"
  PROVE  Copia'
<1>1. \A k \in Hilos : k = h
  BY DEF UnHilo
<1>2. HiloFiel(h)
  BY DEF Copia
<1>3. HiloFiel(h)'
  BY <1>2 DEF HiloFiel, Tag
<1>4. \A f \in FileTags : EnCommit(f)' <=> EnCommit(f)
  BY <1>1 DEF EnCommit, Tag
<1> QED BY <1>3, <1>4, CopiaHilo

LEMMA CopiaBloque ==
  ASSUME Tipos, Copia, UnHilo, NEW h \in Hilos,
         Buscar(h) \/ Marcar(h) \/ NoEnlaza(h) \/ Devolver(h) \/ Procesar(h)
  PROVE  Copia'
<1>1. CASE Caida /\ UNCHANGED disco
  BY <1>1 DEF Caida, Copia
<1>2. CASE ~(Caida /\ UNCHANGED disco)
  <2>1. PICK p \in {"buscar", "marcar", "enlazar", "devolver", "procesar"} : En(h, p)
    BY <1>2, ProcesarEfecto DEF Buscar, Marcar, NoEnlaza, Devolver
  <2>2. hilo[h] \in TRABAJO /\ hilo[h] # Ocioso /\ levantado
    BY <2>1, EnPaso DEF Pasos
  <2>3. UNCHANGED <<t_tag, lista, carpeta, levantado>>
    BY <1>2, ProcesarEfecto DEF Buscar, Marcar, NoEnlaza, Devolver, disco
  <2>4. /\ hilo'[h].id = hilo[h].id /\ hilo'[h].file = hilo[h].file
        /\ hilo'[h].paso = "procesar" <=> hilo[h].paso = "procesar"
    <3>1. hilo \in [Hilos -> TRABAJO \cup {Ocioso}]
      BY DEF Tipos, HilosOK
    <3>2. CASE Buscar(h)
      BY <2>2, <3>1, <3>2 DEF Buscar, En, TRABAJO
    <3>3. CASE Marcar(h) \/ NoEnlaza(h)
      <4>1. PICK q \in {"enlazar", "devolver"} : hilo' = [hilo EXCEPT ![h].paso = q]
        BY <3>3 DEF Marcar, NoEnlaza, Sigue
      <4>2. hilo[h].paso \in {"marcar", "enlazar"}
        BY <3>3 DEF Marcar, NoEnlaza, En
      <4>3. hilo'[h] = [hilo[h] EXCEPT !.paso = q]
        BY <3>1, <4>1
      <4> QED BY <2>2, <4>2, <4>3 DEF TRABAJO
    <3>4. CASE Devolver(h)
      BY <2>2, <3>1, <3>4 DEF Devolver, ProximoBloque, En, TRABAJO
    <3>5. CASE Procesar(h)
      <4>1. En(h, "procesar") /\ hilo' = [hilo EXCEPT ![h].nro = @ + 1]
        BY <1>2, <3>5, ProcesarEfecto
      <4> QED BY <2>2, <3>1, <4>1 DEF TRABAJO
    <3> QED BY <3>2, <3>3, <3>4, <3>5
  <2>5. hilo'[h] # Ocioso
    <3>1. hilo[h].id \in Ids /\ Nada \notin Ids
      BY <2>2, NadaNoEs DEF TRABAJO
    <3> QED BY <2>4, <3>1 DEF Ocioso
  <2> QED BY <2>2, <2>3, <2>4, <2>5, CopiaSigue
<1> QED BY <1>1, <1>2

\* TRUNCATE begins, or ends for lack of blocks.
LEMMA CopiaAgranda ==
  ASSUME Tipos, Copia, UnHilo, NEW h \in Hilos, NEW f \in FileTags,
         NEW n \in 0..MaxBloques, TruncateAgranda(h, f, n)
  PROVE  Copia'
<1> DEFINE i == Tag(f)
           t == [paso |-> "buscar", id |-> i, file |-> f,
                 nro |-> t_tag[i].tam, hasta |-> n, bf |-> Nada]
<1>1. /\ levantado /\ hilo[h] = Ocioso /\ Truncable(f)
      /\ hilo' = [hilo EXCEPT ![h] = t] /\ UNCHANGED <<t_tag, lista, carpeta, levantado>>
  BY DEF TruncateAgranda, Pedido, disco
<1>2. lista[f] # <<>> /\ t_tag[i] \in Tags
  BY <1>1, TagExiste DEF Truncable
<1>3. t_tag[i].estado = "WORK_IN_PROGRESS"
  BY <1>1, <1>2 DEF Truncable, Tags, Estados
<1>4. hilo'[h] = t /\ t.paso = "buscar" /\ t.id = i /\ t.file = f
  BY <1>1 DEF Tipos, HilosOK
<1> HIDE DEF t
<1>5. HiloFiel(h)'
  BY <1>1, <1>2, <1>3, <1>4 DEF HiloFiel, Tag
<1>6. ASSUME NEW g \in FileTags PROVE EnCommit(g)' <=> EnCommit(g)
  <2>1. Ocioso.paso = "ocioso"
    BY DEF Ocioso
  <2> QED BY <1>1, <1>4, <2>1 DEF EnCommit, UnHilo
<1> QED BY <1>1, <1>5, <1>6, CopiaHilo

LEMMA CopiaSinBloques ==
  ASSUME Tipos, Copia, UnHilo, NEW h \in Hilos, SinBloques(h)
  PROVE  Copia'
<1>1. /\ levantado /\ hilo[h].paso = "buscar" /\ hilo' = [hilo EXCEPT ![h] = Ocioso]
      /\ UNCHANGED <<t_tag, lista, carpeta, levantado>>
  BY DEF SinBloques, En, Termina, disco
<1>2. hilo'[h] = Ocioso /\ Ocioso.paso = "ocioso"
  BY <1>1 DEF Tipos, HilosOK, Ocioso
<1>3. HiloFiel(h)'
  BY <1>2 DEF HiloFiel
<1>4. \A f \in FileTags : EnCommit(f)' <=> EnCommit(f)
  BY <1>1, <1>2 DEF EnCommit, UnHilo
<1> QED BY <1>1, <1>3, <1>4, CopiaHilo

LEMMA CopiaEnlazar ==
  ASSUME Tipos, Copia, UnHilo, NEW h \in Hilos, Enlazar(h)
  PROVE  Copia'
<1> DEFINE i == hilo[h].id
           f == hilo[h].file
           r == Registrado(h)
           b == hilo[h].bf
           tag == [t_tag[i] EXCEPT !.lista_block_logicos = Append(@, r),
                                   !.usado = IF @ = Nada THEN i ELSE @]
           c == [carpeta[f] EXCEPT !.enlaces = [@ EXCEPT ![r.nombre_block] = b]]
<1>1. /\ En(h, "enlazar") /\ Enlazable(h) /\ ProximoBloque(h)
      /\ UNCHANGED <<lista, levantado>>
  BY DEF Enlazar
<1>2. /\ i \in Ids /\ f \in FileTags /\ t_tag[i] \in Tags
      /\ hilo[h] \in TRABAJO /\ hilo[h] # Ocioso /\ Ocupado(h) /\ levantado
  BY <1>1, EnPaso DEF Pasos
<1>3. HiloFiel(h)
  BY <1>2 DEF Copia
<1>4. lista[f] # <<>> /\ Tag(f) = i /\ t_tag[i].estado = "WORK_IN_PROGRESS"
  BY <1>1, <1>2, <1>3 DEF HiloFiel, En
<1>5. Fiel(f)
  BY <1>2, <1>4 DEF Copia, CopiaDe
<1>6. hilo[h].nro \in Nombres
  <2>1. hilo[h].nro < hilo[h].hasta /\ hilo[h].hasta \in 0..MaxBloques /\ hilo[h].nro \in Nat
    BY <1>1, <1>2 DEF Ocupado, En, TRABAJO
  <2> QED BY <2>1, NombresNat
<1>7. r \in Registros /\ r.nombre_block = hilo[h].nro
  BY <1>6 DEF Registrado, Logico, Registros
<1>8. b \in Bloques /\ b # Nada
  <2>1. b \in Bloques
    BY <1>1 DEF Enlazable
  <2>2. b \in Int
    BY <2>1, SupuestosAlmacen DEF Tipos, DiscoOK, Bloques
  <2> QED BY <2>1, <2>2, NadaNoEs
<1>9. /\ carpeta[f] # Nada /\ carpeta[f] \in Carpetas
      /\ Enlaces(f) = carpeta[f].enlaces /\ carpeta[f].enlaces[r.nombre_block] = Nada
  BY <1>1, <1>2, <1>7 DEF Enlazable, Tipos, DiscoOK, Enlaces
<1>10. t_tag' = [t_tag EXCEPT ![i] = tag]
  BY <1>2 DEF Enlazar, Tipos, TagsOK
<1>11. carpeta' = [carpeta EXCEPT ![f] = c]
  BY <1>2, <1>7 DEF Enlazar, Tipos, DiscoOK
<1>12. /\ tag.lista_block_logicos = Append(t_tag[i].lista_block_logicos, r)
       /\ tag.estado = t_tag[i].estado /\ tag.tam = t_tag[i].tam
  BY <1>2 DEF Tags
<1>13. /\ c.enlaces = [carpeta[f].enlaces EXCEPT ![r.nombre_block] = b]
       /\ c.estado = carpeta[f].estado /\ c.tam = carpeta[f].tam
  BY <1>9 DEF Carpetas
<1>14. c # Nada
  <2>1. c \in Carpetas
    BY <1>7, <1>8, <1>9 DEF Carpetas, Registros
  <2> QED BY <2>1, NadaNoEs DEF Tipos, DiscoOK
<1>15. /\ hilo'[h].id = i /\ hilo'[h].file = f /\ hilo'[h].paso \in {"cerrar", "buscar"}
  BY <1>1, <1>2 DEF ProximoBloque, Tipos, HilosOK, TRABAJO
<1> HIDE DEF tag, c, i, f, r, b
<1>16. Nombrados(tag.lista_block_logicos, c.enlaces)
  <2> DEFINE s == t_tag[i].lista_block_logicos
             e == carpeta[f].enlaces
  <2>1. Nombrados(s, e)
    BY <1>4, <1>5, <1>9 DEF Fiel
  <2>2. s \in Seq(Registros) /\ e \in [Nombres -> Bloques \cup {Nada}]
    BY <1>2, <1>9 DEF Tags, Carpetas
  <2>3. e[r.nombre_block] = Nada
    BY <1>9
  <2> HIDE DEF s, e
  <2>4. Nombrados(Append(s, r), [e EXCEPT ![r.nombre_block] = b])
    BY <1>7, <1>8, <2>1, <2>2, <2>3, NombradosMas
  <2> QED BY <1>12, <1>13, <2>4 DEF s, e
<1>17. \A g \in FileTags : ~EnCommit(g)
  BY <1>1 DEF EnCommit, UnHilo, En
<1>18. c.tam = tag.tam /\ c.estado = tag.estado
  BY <1>2, <1>4, <1>5, <1>12, <1>13, <1>17 DEF Fiel
<1>19. t_tag'[i] = tag /\ \A j \in Ids : j # i => t_tag'[j] = t_tag[j]
  BY <1>2, <1>10 DEF Tipos, TagsOK
<1>20. HiloFiel(h)'
  BY <1>1, <1>4, <1>12, <1>15, <1>19 DEF HiloFiel, Tag
<1>21. i # Nada /\ hilo[h].id = i
  BY <1>2, NadaNoEs DEF i
<1>22. \A j \in Ids : j # Tag(f) /\ t_tag[j] # Nada =>
           /\ t_tag'[j].estado = t_tag[j].estado
           /\ t_tag'[j].tam = t_tag[j].tam
           /\ t_tag'[j].lista_block_logicos = t_tag[j].lista_block_logicos
  BY <1>4, <1>19
<1>23. c.estado = IF hilo'[h].paso = "procesar" /\ hilo'[h].id = Tag(f)
                  THEN "WORK_IN_PROGRESS" ELSE tag.estado
  BY <1>15, <1>18
<1>24. /\ Tag(f) # Nada /\ t_tag'[Tag(f)] = tag
       /\ hilo[h].id \in {Tag(f), Nada} /\ hilo'[h].id \in {Tag(f), Nada}
  BY <1>4, <1>15, <1>19, <1>21
<1> QED
  BY <1>1, <1>2, <1>11, <1>14, <1>16, <1>18, <1>20, <1>22, <1>23, <1>24, CopiaCambia

\* A request is taken by a thread that is idle: no COMMIT is in course.
LEMMA Parados ==
  ASSUME UnHilo, NEW h \in Hilos, Pedido(h)
  PROVE  /\ levantado /\ hilo[h] = Ocioso /\ hilo[h].id = Nada
         /\ hilo[h].paso = "ocioso" /\ \A g \in Hilos : g = h
         /\ \A f \in FileTags : ~EnCommit(f)
  BY DEF UnHilo, Pedido, Ocioso, EnCommit

\* CREATE and TAG: the first t_tag of a File:Tag.
LEMMA CopiaCrear ==
  ASSUME Tipos, Copia, UnHilo, NEW h \in Hilos, Pedido(h), NEW f \in FileTags,
         lista[f] = <<>>, Nuevos # {}, NEW tag \in Tags,
         tag.estado = "WORK_IN_PROGRESS", NEW e \in [Nombres -> Bloques \cup {Nada}],
         Nombrados(tag.lista_block_logicos, e), Crear(f, Min(Nuevos), tag, e)
  PROVE  Copia'
<1> DEFINE i == Min(Nuevos)
           c == [estado |-> tag.estado, tam |-> tag.tam, usado |-> tag.usado # Nada,
                 enlaces |-> e]
<1>1. /\ i \in Ids
      /\ \A g \in FileTags : \A k \in 1..Len(lista[g]) : lista[g][k] # i
  BY NuevoTag
<1>2. /\ t_tag' = [t_tag EXCEPT ![i] = tag] /\ lista' = [lista EXCEPT ![f] = Append(@, i)]
      /\ carpeta' = [carpeta EXCEPT ![f] = c] /\ UNCHANGED <<levantado, hilo>>
  BY DEF Crear
<1>3. c.estado = "WORK_IN_PROGRESS" /\ c.tam = tag.tam /\ c.enlaces = e
  OBVIOUS
<1>4. c # Nada
  <2>1. c \in Carpetas
    BY DEF Carpetas, Tags
  <2> QED BY <2>1, NadaNoEs DEF Tipos, DiscoOK
<1> HIDE DEF i, c
<1>5. /\ levantado /\ hilo[h] = Ocioso /\ \A g \in Hilos : g = h
      /\ hilo[h].paso = "ocioso" /\ \A g \in FileTags : ~EnCommit(g)
  BY Parados
<1>6. lista'[f] = <<i>> /\ lista'[f] # <<>> /\ Len(lista'[f]) = 1 /\ Tag(f)' = i
  <2>1. lista'[f] = <<i>>
    BY <1>2 DEF Tipos, ListasOK
  <2> QED BY <2>1 DEF Tag
<1>7. t_tag'[i] = tag /\ \A j \in Ids : j # i => t_tag'[j] = t_tag[j]
  BY <1>1, <1>2 DEF Tipos, TagsOK
<1>8. carpeta'[f] = c
  BY <1>2 DEF Tipos, DiscoOK
<1>9. \A g \in FileTags : ~EnCommit(g)'
  BY <1>2, <1>5 DEF EnCommit
<1>10. CopiaDe(f)'
  <2>1. Enlaces(f)' = e
    BY <1>3, <1>4, <1>8 DEF Enlaces
  <2>2. Fiel(f)'
    BY <1>3, <1>6, <1>7, <1>8, <1>9, <2>1 DEF Fiel, Nombrados
  <2> QED BY <1>4, <1>6, <1>8, <2>2 DEF CopiaDe
<1>11. ASSUME NEW g \in FileTags, g # f
       PROVE  /\ lista'[g] = lista[g] /\ carpeta'[g] = carpeta[g]
              /\ lista[g] # <<>> =>
                 /\ t_tag'[Tag(g)].estado = t_tag[Tag(g)].estado
                 /\ t_tag'[Tag(g)].tam = t_tag[Tag(g)].tam
                 /\ t_tag'[Tag(g)].lista_block_logicos = t_tag[Tag(g)].lista_block_logicos
                 /\ EnCommit(g)' <=> EnCommit(g)
  <2>1. lista'[g] = lista[g] /\ carpeta'[g] = carpeta[g]
    BY <1>2, <1>11 DEF Tipos, DiscoOK, ListasOK
  <2>2. lista[g] # <<>> => Tag(g) \in Ids /\ Tag(g) # i
    <3>1. lista[g] \in Seq(Ids)
      BY DEF Tipos, ListasOK
    <3>2. lista[g] # <<>> => 1 \in 1..Len(lista[g]) /\ Tag(g) = lista[g][1]
      BY <3>1 DEF Tag
    <3> QED BY <1>1, <3>1, <3>2
  <2> QED BY <1>5, <1>7, <1>9, <2>1, <2>2
<1>12. \A g \in Hilos : HiloFiel(g)'
  BY <1>2, <1>5 DEF HiloFiel
<1> QED BY <1>5, <1>10, <1>11, <1>12, CopiaPaso

LEMMA CopiaCreate ==
  ASSUME Tipos, Copia, UnHilo, NEW h \in Hilos, NEW f \in FileTags, Create(h, f)
  PROVE  Copia'
<1>1. CASE Negar(h, "CREATE", f)
  BY <1>1, CopiaIgual DEF Negar, disco
<1>2. CASE ~Negar(h, "CREATE", f)
  <2> DEFINE tag == [estado |-> "WORK_IN_PROGRESS", tam |-> 0, usado |-> Nada,
                     lista_block_logicos |-> <<>>]
  <2>1. Pedido(h) /\ Tag(f) = Nada /\ Nuevos # {} /\ Crear(f, Min(Nuevos), tag, Enlaces(f))
    BY <1>2 DEF Create
  <2>2. lista[f] = <<>> /\ levantado
    BY <2>1, TagNoExiste DEF Pedido
  <2>3. Enlaces(f) = SinEnlaces
    BY <2>2 DEF Copia, CopiaDe, Enlaces
  <2>4. tag \in Tags
    BY SupuestosAlmacen DEF Tags, Tamanos, Estados
  <2>5. tag.estado = "WORK_IN_PROGRESS" /\ tag.lista_block_logicos = <<>>
    OBVIOUS
  <2>6. SinEnlaces \in [Nombres -> Bloques \cup {Nada}]
    BY DEF SinEnlaces
  <2> HIDE DEF tag
  <2>7. Crear(f, Min(Nuevos), tag, SinEnlaces)
    BY <2>1, <2>3
  <2> QED BY <2>1, <2>2, <2>4, <2>5, <2>6, <2>7, NombradosVacio, CopiaCrear
<1> QED BY <1>1, <1>2

LEMMA CopiaTagFile ==
  ASSUME Tipos, Copia, UnHilo, ~TagRepetido, NEW h \in Hilos, NEW o \in FileTags,
         NEW f \in FileTags, TagFile(h, o, f)
  PROVE  Copia'
<1>1. CASE Negar(h, "TAG", f)
  BY <1>1, CopiaIgual DEF Negar, disco
<1>2. CASE ~Negar(h, "TAG", f)
  <2> DEFINE s == t_tag[Tag(o)].lista_block_logicos
             tag == [t_tag[Tag(o)] EXCEPT !.estado = "WORK_IN_PROGRESS"]
             e == EnlacesDeTag(o, f)
  <2>1. /\ Pedido(h) /\ Tag(o) # Nada /\ Tag(f) = Nada /\ Nuevos # {}
        /\ Crear(f, Min(Nuevos), tag, e)
    BY <1>2 DEF TagFile
  <2>2. lista[f] = <<>> /\ levantado
    BY <2>1, TagNoExiste DEF Pedido
  <2>3. Enlaces(f) = SinEnlaces
    BY <2>2 DEF Copia, CopiaDe, Enlaces
  <2>4. t_tag[Tag(o)] \in Tags /\ lista[o] # <<>>
    BY <2>1, TagExiste
  <2>5. /\ tag \in Tags /\ tag.estado = "WORK_IN_PROGRESS"
        /\ tag.lista_block_logicos = s
    BY <2>4 DEF Tags, Estados
  <2>6. e \in [Nombres -> Bloques \cup {Nada}]
    BY <2>1, EnlacesDeTagTipo
  <2>7. \A n \in Nombres : e[n] = IF \E k \in 1..Len(s) : s[k].nombre_block = n
                                  THEN 0 ELSE Nada
    <3>1. \A n \in Nombres : SinEnlaces[n] = Nada
      BY DEF SinEnlaces
    <3> QED BY <2>1, <2>3, <3>1, EnlacesDeTagTipo DEF Largo
  <2>8. Fiel(o)
    BY <2>2, <2>4 DEF Copia, CopiaDe
  <2> HIDE DEF tag, e
  <2>9. Nombrados(s, e)
    <3>1. 0 # Nada
      BY NadaNoEs
    <3> QED BY <2>7, <2>8, <3>1 DEF Fiel, Nombrados
  <2>10. Nombrados(tag.lista_block_logicos, e)
    BY <2>5, <2>9
  <2> QED BY <2>1, <2>2, <2>5, <2>6, <2>10, CopiaCrear
<1> QED BY <1>1, <1>2

\* To free the strings changes nothing else of a t_tag.
LEMMA LiberadasCampos ==
  ASSUME TagsOK, NEW i \in Ids, NEW j \in Ids, t_tag[j] # Nada
  PROVE  /\ Liberadas(i)[j].estado = t_tag[j].estado
         /\ Liberadas(i)[j].tam = t_tag[j].tam
         /\ Liberadas(i)[j].lista_block_logicos = t_tag[j].lista_block_logicos
<1>1. t_tag[j] \in Tags
  BY DEF TagsOK
<1>2. Liberadas(i)[j] \in {t_tag[j], [t_tag[j] EXCEPT !.usado = Colgante]}
  BY DEF Liberadas
<1> QED BY <1>1, <1>2 DEF Tags

LEMMA CopiaDelete ==
  ASSUME Tipos, Copia, UnHilo, NEW h \in Hilos, NEW f \in FileTags, Delete(h, f)
  PROVE  Copia'
<1>1. CASE Aceptar(h, "DELETE", f)
  BY <1>1, CopiaIgual DEF Aceptar, disco
<1>2. CASE DobleFree(Tag(f))
  BY <1>2 DEF DobleFree, Caida, Copia
<1>3. CASE ~Aceptar(h, "DELETE", f) /\ ~DobleFree(Tag(f))
  <2> DEFINE i == Tag(f)
             L == Liberadas(i)
             p == IF \E g \in Hilos : hilo[g].id = i THEN [L[i] EXCEPT !.usado = Nada] ELSE Nada
  <2>1. /\ Pedido(h) /\ i # Nada /\ t_tag' = [L EXCEPT ![i] = p]
        /\ lista' = [lista EXCEPT ![f] = Tail(@)]
        /\ carpeta' = [carpeta EXCEPT ![f] = Nada] /\ UNCHANGED <<levantado, hilo>>
    BY <1>3 DEF Delete
  <2>2. /\ levantado /\ hilo[h] = Ocioso /\ \A g \in Hilos : g = h
        /\ \A g \in FileTags : ~EnCommit(g)
    BY <2>1, Parados
  <2>3. lista[f] # <<>> /\ lista[f] \in Seq(Ids) /\ i \in Ids /\ t_tag[i] # Nada
    BY <2>1, TagExiste
  <2>4. Len(lista[f]) = 1
    BY <2>2, <2>3 DEF Copia, CopiaDe
  <2>5. lista'[f] = <<>> /\ carpeta'[f] = Nada
    <3>1. lista'[f] = Tail(lista[f])
      BY <2>1 DEF Tipos, ListasOK
    <3>2. Tail(lista[f]) = <<>>
      <4> DEFINE s == lista[f]
      <4>1. s \in Seq(Ids) /\ s # <<>> /\ Len(s) = 1
        BY <2>3, <2>4
      <4> HIDE DEF s
      <4>2. Tail(s) \in Seq(Ids) /\ Len(Tail(s)) = 0
        <5>1. Tail(s) \in Seq(Ids) /\ Len(Tail(s)) = Len(s) - 1
          BY <4>1, HeadTailProperties
        <5> QED BY <4>1, <5>1
      <4>3. Tail(s) = <<>>
        BY <4>2, EmptySeq
      <4> QED BY <4>3 DEF s
    <3> QED BY <2>1, <3>1, <3>2 DEF Tipos, DiscoOK
  <2>6. CopiaDe(f)'
    BY <2>5 DEF CopiaDe
  <2>7. L \in [Ids -> Tags \cup {Nada}]
    BY <2>3, LiberadasTipo DEF Tipos
  <2> HIDE DEF p, L
  <2>8. \A j \in Ids : j # i => t_tag'[j] = L[j]
    BY <2>1, <2>7
  <2>9. ASSUME NEW g \in FileTags, g # f
        PROVE  /\ lista'[g] = lista[g] /\ carpeta'[g] = carpeta[g]
               /\ lista[g] # <<>> =>
                  /\ t_tag'[Tag(g)].estado = t_tag[Tag(g)].estado
                  /\ t_tag'[Tag(g)].tam = t_tag[Tag(g)].tam
                  /\ t_tag'[Tag(g)].lista_block_logicos = t_tag[Tag(g)].lista_block_logicos
                  /\ EnCommit(g)' <=> EnCommit(g)
    <3>1. lista'[g] = lista[g] /\ carpeta'[g] = carpeta[g]
      BY <2>1, <2>9 DEF Tipos, DiscoOK, ListasOK
    <3>2. ~EnCommit(g)'
      BY <2>1, <2>2 DEF EnCommit, Ocioso
    <3>3. CASE lista[g] # <<>>
      <4>1. Tag(g) \in Ids /\ Tag(g) # Nada /\ Tag(g) # i
        BY <2>1, <2>9, <3>3, OtroTag
      <4>2. t_tag[Tag(g)] # Nada
        BY <4>1, TagExiste
      <4> DEFINE j == Tag(g)
      <4>3. t_tag'[j] = L[j] /\ j \in Ids /\ t_tag[j] # Nada
        BY <2>8, <4>1, <4>2
      <4> HIDE DEF j
      <4>4. /\ L[j].estado = t_tag[j].estado /\ L[j].tam = t_tag[j].tam
            /\ L[j].lista_block_logicos = t_tag[j].lista_block_logicos
        BY <2>3, <4>3, LiberadasCampos DEF L, Tipos
      <4>5. /\ t_tag'[j].estado = t_tag[j].estado /\ t_tag'[j].tam = t_tag[j].tam
            /\ t_tag'[j].lista_block_logicos = t_tag[j].lista_block_logicos
        BY <4>3, <4>4
      <4> QED BY <2>2, <3>1, <3>2, <4>5 DEF j
    <3> QED BY <3>1, <3>3
  <2>10. \A g \in Hilos : HiloFiel(g)'
    BY <2>1, <2>2 DEF HiloFiel
  <2> QED BY <2>2, <2>6, <2>9, <2>10, CopiaPaso
<1> QED BY <1>1, <1>2, <1>3

LEMMA CopiaAchica ==
  ASSUME Tipos, Copia, UnHilo, NEW h \in Hilos, NEW f \in FileTags,
         NEW n \in 0..MaxBloques, TruncateAchica(h, f, n)
  PROVE  Copia'
<1>1. CASE n = 0 /\ DobleFree(Tag(f))
  BY <1>1 DEF DobleFree, Caida, Copia
<1>2. CASE ~(n = 0 /\ DobleFree(Tag(f)))
  <2> DEFINE i     == Tag(f)
             s     == t_tag[i].lista_block_logicos
             tag   == Achicado(t_tag[i], n)
             t     == tag.lista_block_logicos
             fuera == {s[k] : k \in (Len(t) + 1)..Largo(i)}
             nuevo == IF n = 0 THEN [tag EXCEPT !.usado = Nada] ELSE tag
             d     == [m \in Nombres |->
                        IF \E l \in fuera : l.nombre_block = m THEN Nada
                        ELSE Metadata(f, nuevo).enlaces[m]]
             c     == [Metadata(f, nuevo) EXCEPT !.enlaces = d]
  <2>1. /\ Pedido(h) /\ i # Nada /\ t_tag[i].estado # "COMMITED" /\ n =< t_tag[i].tam
        /\ t_tag' = [IF n = 0 THEN Liberadas(i) ELSE t_tag EXCEPT ![i] = nuevo]
        /\ carpeta' = [carpeta EXCEPT ![f] = IF @ = Nada THEN Nada ELSE c]
        /\ UNCHANGED <<levantado, lista, hilo>>
    BY <1>2 DEF TruncateAchica, Truncable
  <2>2. lista[f] # <<>> /\ i \in Ids /\ t_tag[i] \in Tags /\ t_tag[i] # Nada
    BY <2>1, TagExiste
  <2>3. /\ levantado /\ hilo[h] = Ocioso /\ hilo[h].id = Nada /\ hilo[h].paso = "ocioso"
        /\ \A g \in FileTags : ~EnCommit(g)
    BY <2>1, Parados
  <2>4. Fiel(f) /\ carpeta[f] # Nada
    BY <2>2, <2>3 DEF Copia, CopiaDe
  <2>5. carpeta[f] \in Carpetas /\ Enlaces(f) = carpeta[f].enlaces
    BY <2>4 DEF Tipos, DiscoOK, Enlaces
  <2>6. /\ tag \in Tags /\ Len(t) =< Len(s) /\ \A k \in 1..Len(t) : t[k] = s[k]
        /\ tag = [t_tag[i] EXCEPT !.tam = n, !.lista_block_logicos = t]
    BY <2>1, <2>2, AchicadoTipo
  <2>7. s \in Seq(Registros) /\ t \in Seq(Registros) /\ Largo(i) = Len(s)
    BY <2>2, <2>6 DEF Tags, Largo
  <2>8. tag.estado = t_tag[i].estado /\ tag.tam = n
    <3> HIDE DEF tag
    <3> QED BY <2>2, <2>6 DEF Tags
  <2>9. fuera = {s[k] : k \in (Len(t) + 1)..Len(s)}
    BY <2>7
  <2> HIDE DEF i, tag, t, fuera, s
  <2>10. /\ nuevo \in Tags /\ nuevo.lista_block_logicos = tag.lista_block_logicos
         /\ nuevo.estado = tag.estado /\ nuevo.tam = tag.tam
    BY <2>6 DEF Tags
  <2> HIDE DEF nuevo
  <2>11. /\ Metadata(f, nuevo) \in Carpetas /\ Metadata(f, nuevo).enlaces = carpeta[f].enlaces
         /\ Metadata(f, nuevo).estado = nuevo.estado /\ Metadata(f, nuevo).tam = nuevo.tam
    BY <2>4, <2>5, <2>10 DEF Metadata, Carpetas, Tags
  <2>12. d \in [Nombres -> Bloques \cup {Nada}]
    BY <2>5, <2>11 DEF Carpetas
  <2>13. \A m \in Nombres : d[m] = IF \E k \in (Len(t) + 1)..Len(s) : s[k].nombre_block = m
                                   THEN Nada ELSE carpeta[f].enlaces[m]
    BY <2>9, <2>11
  <2> HIDE DEF d
  <2>14. /\ c \in Carpetas /\ c.enlaces = d /\ c.estado = nuevo.estado /\ c.tam = nuevo.tam
    BY <2>11, <2>12 DEF Carpetas
  <2> HIDE DEF c
  <2>15. c # Nada
    BY <2>14, NadaNoEs DEF Tipos, DiscoOK
  <2>16. Nombrados(t, d)
    <3> DEFINE e == carpeta[f].enlaces
    <3>1. Nombrados(s, e)
      BY <2>4, <2>5 DEF Fiel, i, s
    <3>2. \A m \in Nombres : d[m] = IF \E k \in (Len(t) + 1)..Len(s) : s[k].nombre_block = m
                                    THEN Nada ELSE e[m]
      BY <2>13
    <3>3. Len(t) =< Len(s) /\ \A k \in 1..Len(t) : t[k] = s[k]
      BY <2>6
    <3> HIDE DEF e
    <3> QED BY <2>7, <3>1, <3>2, <3>3, NombradosPrefijo, SMTT(30)
  <2>17. carpeta' = [carpeta EXCEPT ![f] = c]
    BY <2>1, <2>4
  <2>18. t_tag'[i] = nuevo
    <3>1. Liberadas(i) \in [Ids -> Tags \cup {Nada}]
      BY <2>2, LiberadasTipo DEF Tipos
    <3> QED BY <2>1, <2>2, <3>1 DEF Tipos, TagsOK
  <2>19. ASSUME NEW j \in Ids, j # i, t_tag[j] # Nada
         PROVE  /\ t_tag'[j].estado = t_tag[j].estado
                /\ t_tag'[j].tam = t_tag[j].tam
                /\ t_tag'[j].lista_block_logicos = t_tag[j].lista_block_logicos
    <3>1. Liberadas(i) \in [Ids -> Tags \cup {Nada}]
      BY <2>2, LiberadasTipo DEF Tipos
    <3>2. t_tag'[j] = IF n = 0 THEN Liberadas(i)[j] ELSE t_tag[j]
      BY <2>1, <2>19, <3>1 DEF Tipos, TagsOK
    <3>3. CASE n = 0
      <4>1. t_tag'[j] = Liberadas(i)[j]
        BY <3>2, <3>3
      <4> QED BY <2>2, <2>19, <4>1, LiberadasCampos DEF Tipos
    <3> QED BY <3>2, <3>3
  <2>20. HiloFiel(h)'
    BY <2>1, <2>3 DEF HiloFiel
  <2>21. Nombrados(nuevo.lista_block_logicos, c.enlaces)
    BY <2>10, <2>14, <2>16 DEF t
  <2>22. c.estado = IF hilo'[h].paso = "procesar" /\ hilo'[h].id = Tag(f)
                    THEN "WORK_IN_PROGRESS" ELSE nuevo.estado
    BY <2>1, <2>3, <2>14
  <2>23. /\ Tag(f) # Nada /\ t_tag'[Tag(f)] = nuevo /\ c.tam = nuevo.tam
         /\ hilo[h].id \in {Tag(f), Nada} /\ hilo'[h].id \in {Tag(f), Nada}
    BY <2>1, <2>3, <2>14, <2>18 DEF i
  <2>24. \A j \in Ids : j # Tag(f) /\ t_tag[j] # Nada =>
           /\ t_tag'[j].estado = t_tag[j].estado
           /\ t_tag'[j].tam = t_tag[j].tam
           /\ t_tag'[j].lista_block_logicos = t_tag[j].lista_block_logicos
    BY <2>19 DEF i
  <2> QED BY <2>1, <2>3, <2>15, <2>17, <2>20, <2>21, <2>22, <2>23, <2>24, CopiaCambia
<1> QED BY <1>1, <1>2

LEMMA CopiaCommit ==
  ASSUME Tipos, Copia, UnHilo, NEW h \in Hilos, NEW f \in FileTags, Commit(h, f)
  PROVE  Copia'
<1>1. CASE Negar(h, "COMMIT", f) \/ Aceptar(h, "COMMIT", f)
  BY <1>1, CopiaIgual DEF Negar, Aceptar, disco
<1>2. CASE ~(Negar(h, "COMMIT", f) \/ Aceptar(h, "COMMIT", f))
  <2> DEFINE i == Tag(f)
             tag == [t_tag[i] EXCEPT !.estado = "COMMITED"]
             t == [Ocioso EXCEPT !.paso = "procesar", !.id = i, !.file = f, !.nro = 1]
             c == carpeta[f]
  <2>1. /\ Pedido(h) /\ i # Nada /\ t_tag[i].estado # "COMMITED"
        /\ t_tag' = [t_tag EXCEPT ![i].estado = "COMMITED"]
        /\ hilo' = [hilo EXCEPT ![h] = t]
        /\ UNCHANGED <<carpeta, levantado, lista>>
    BY <1>2 DEF Commit, disco
  <2>2. lista[f] # <<>> /\ i \in Ids /\ t_tag[i] \in Tags /\ t_tag[i] # Nada
    BY <2>1, TagExiste
  <2>3. levantado /\ hilo[h].id = Nada /\ \A g \in FileTags : ~EnCommit(g)
    BY <2>1, Parados
  <2>4. Fiel(f) /\ c # Nada
    BY <2>2, <2>3 DEF Copia, CopiaDe
  <2>5. c.estado = "WORK_IN_PROGRESS" /\ c.tam = t_tag[i].tam
    BY <2>1, <2>2, <2>3, <2>4 DEF Fiel, Tags, Estados
  <2>6. Nombrados(t_tag[i].lista_block_logicos, c.enlaces)
    BY <2>4 DEF Fiel, Enlaces
  <2>7. t_tag'[i] = tag /\ \A j \in Ids : j # i => t_tag'[j] = t_tag[j]
    BY <2>1, <2>2 DEF Tipos, TagsOK
  <2>8. /\ tag.estado = "COMMITED" /\ tag.tam = t_tag[i].tam
        /\ tag.lista_block_logicos = t_tag[i].lista_block_logicos
    BY <2>2 DEF Tags
  <2>9. hilo'[h] = t /\ t.paso = "procesar" /\ t.id = i /\ t.file = f
    BY <2>1 DEF Ocioso, Tipos, HilosOK
  <2>10. carpeta' = [carpeta EXCEPT ![f] = c]
    BY <2>1 DEF Tipos, DiscoOK
  <2> HIDE DEF tag, t, c, i
  <2>11. HiloFiel(h)'
    BY <2>1, <2>2, <2>7, <2>8, <2>9 DEF HiloFiel, Tag, i
  <2>12. Nombrados(tag.lista_block_logicos, c.enlaces) /\ c.tam = tag.tam
    BY <2>5, <2>6, <2>8
  <2>13. c.estado = IF hilo'[h].paso = "procesar" /\ hilo'[h].id = Tag(f)
                    THEN "WORK_IN_PROGRESS" ELSE tag.estado
    BY <2>5, <2>9 DEF i
  <2>14. /\ Tag(f) # Nada /\ t_tag'[Tag(f)] = tag
         /\ hilo[h].id \in {Tag(f), Nada} /\ hilo'[h].id \in {Tag(f), Nada}
    BY <2>1, <2>3, <2>7, <2>9 DEF i
  <2>15. \A j \in Ids : j # Tag(f) /\ t_tag[j] # Nada =>
           /\ t_tag'[j].estado = t_tag[j].estado
           /\ t_tag'[j].tam = t_tag[j].tam
           /\ t_tag'[j].lista_block_logicos = t_tag[j].lista_block_logicos
    BY <2>7 DEF i
  <2> QED
    BY <2>1, <2>3, <2>4, <2>10, <2>11, <2>12, <2>13, <2>14, <2>15, CopiaCambia
<1> QED BY <1>1, <1>2

\* The end of a TRUNCATE and of a COMMIT: metadata.config is written.
LEMMA CopiaGuardar ==
  ASSUME Tipos, Copia, UnHilo, NEW h \in Hilos, NEW p \in Pasos, En(h, p),
         NEW tag \in Tags, Guardar(h, tag),
         tag.lista_block_logicos = t_tag[hilo[h].id].lista_block_logicos
  PROVE  Copia'
<1> DEFINE i == hilo[h].id
           f == hilo[h].file
           c == Metadata(f, tag)
<1>1. /\ i \in Ids /\ f \in FileTags /\ levantado /\ hilo[h] # Ocioso
      /\ t_tag[i] # Nada
  BY EnPaso
<1>2. lista[f] # <<>> /\ Tag(f) = i
  BY <1>1 DEF Copia, HiloFiel
<1>3. Fiel(f) /\ carpeta[f] # Nada
  BY <1>1, <1>2 DEF Copia, CopiaDe
<1>4. carpeta[f] \in Carpetas /\ Enlaces(f) = carpeta[f].enlaces
  BY <1>1, <1>3 DEF Tipos, DiscoOK, Enlaces
<1>5. /\ c \in Carpetas /\ c.enlaces = carpeta[f].enlaces
      /\ c.estado = tag.estado /\ c.tam = tag.tam
  BY <1>3, <1>4 DEF Metadata, Carpetas, Tags
<1>6. c # Nada
  BY <1>5, NadaNoEs DEF Tipos, DiscoOK
<1>7. /\ t_tag' = [t_tag EXCEPT ![i] = tag] /\ carpeta' = [carpeta EXCEPT ![f] = c]
      /\ hilo' = [hilo EXCEPT ![h] = Ocioso] /\ UNCHANGED <<levantado, lista>>
  BY DEF Guardar, Termina
<1> HIDE DEF c
<1>8. Nombrados(tag.lista_block_logicos, c.enlaces)
  BY <1>2, <1>3, <1>4, <1>5 DEF Fiel
<1>9. t_tag'[i] = tag /\ \A j \in Ids : j # i => t_tag'[j] = t_tag[j]
  BY <1>1, <1>7 DEF Tipos, TagsOK
<1>10. hilo'[h] = Ocioso /\ Ocioso.paso = "ocioso" /\ Ocioso.id = Nada
  BY <1>7 DEF Tipos, HilosOK, Ocioso
<1>11. HiloFiel(h)'
  BY <1>10 DEF HiloFiel
<1>12. c.estado = IF hilo'[h].paso = "procesar" /\ hilo'[h].id = Tag(f)
                  THEN "WORK_IN_PROGRESS" ELSE tag.estado
  BY <1>5, <1>10
<1>13. /\ Tag(f) # Nada /\ t_tag'[Tag(f)] = tag
       /\ hilo[h].id \in {Tag(f), Nada} /\ hilo'[h].id \in {Tag(f), Nada}
  BY <1>1, <1>2, <1>9, <1>10, NadaNoEs
<1>14. \A j \in Ids : j # Tag(f) /\ t_tag[j] # Nada =>
         /\ t_tag'[j].estado = t_tag[j].estado
         /\ t_tag'[j].tam = t_tag[j].tam
         /\ t_tag'[j].lista_block_logicos = t_tag[j].lista_block_logicos
  BY <1>2, <1>9
<1> HIDE DEF i, f
<1> QED
  BY <1>1, <1>5, <1>6, <1>7, <1>8, <1>11, <1>12, <1>13, <1>14, CopiaCambia

LEMMA CopiaCerrar ==
  ASSUME Tipos, Copia, UnHilo, NEW h \in Hilos, CerrarTruncate(h) \/ CerrarCommit(h)
  PROVE  Copia'
<1>1. CASE CerrarTruncate(h)
  <2> DEFINE tag == [t_tag[hilo[h].id] EXCEPT !.tam = hilo[h].hasta]
  <2>1. En(h, "cerrar") /\ Guardar(h, tag)
    BY <1>1 DEF CerrarTruncate
  <2>2. t_tag[hilo[h].id] \in Tags /\ Ocupado(h)
    BY <2>1, EnPaso DEF Pasos
  <2>3. hilo[h].hasta \in Tamanos
    BY <2>1, <2>2 DEF Ocupado, En, Tamanos
  <2>4. tag \in Tags /\ tag.lista_block_logicos = t_tag[hilo[h].id].lista_block_logicos
    BY <2>2, <2>3 DEF Tags
  <2> HIDE DEF tag
  <2> QED BY <2>1, <2>4, CopiaGuardar DEF Pasos
<1>2. CASE CerrarCommit(h)
  <2>1. En(h, "procesar") /\ Guardar(h, t_tag[hilo[h].id])
    BY <1>2 DEF CerrarCommit
  <2>2. t_tag[hilo[h].id] \in Tags
    BY <2>1, EnPaso DEF Pasos
  <2> QED BY <2>1, <2>2, CopiaGuardar DEF Pasos
<1> QED BY <1>1, <1>2

\* readdir gives each name of a folder once.
LEMMA OrdenInyecta ==
  ASSUME NEW S, IsFiniteSet(S), NEW o \in Ordenes(S)
  PROVE  /\ Cardinality(S) \in Nat /\ o \in [1..Cardinality(S) -> S]
         /\ \A j, k \in 1..Cardinality(S) : o[j] = o[k] => j = k
         /\ \A x \in S : \E k \in 1..Cardinality(S) : o[k] = x
<1> DEFINE n == Cardinality(S)
<1>1. n \in Nat
  BY FS_CardinalityType
<1>2. o \in [1..n -> S] /\ \A x \in S : \E k \in 1..n : o[k] = x
  BY DEF Ordenes
<1>3. o \in Surjection(1..n, S)
  BY <1>2 DEF Surjection
<1>4. 1 \in Int /\ n \in Int
  BY <1>1
<1>5. IsFiniteSet(1..n) /\ Cardinality(1..n) = n
  BY <1>1, <1>4, FS_Interval
<1>6. o \in Injection(1..n, S)
  BY <1>3, <1>5, FS_SurjSameCardinalityImpliesInj
<1>7. \A j, k \in 1..n : o[j] = o[k] => j = k
  BY <1>2, <1>6 DEF Injection, IsInjective
<1> QED BY <1>1, <1>2, <1>7

LEMMA CopiaLevantar ==
  ASSUME Tipos, Levantar
  PROVE  Copia'
<1>1. /\ \A h \in Hilos : hilo[h] = Ocioso
      /\ lista' = [f \in FileTags |-> IF f \in EnDisco THEN <<Id[f]>> ELSE <<>>]
      /\ UNCHANGED <<carpeta, hilo>>
  BY LevantarEfecto DEF Levantar
<1>2. \A f \in FileTags : ~EnCommit(f)'
  BY <1>1 DEF EnCommit, Ocioso
<1>3. \A h \in Hilos : HiloFiel(h)'
  BY <1>1 DEF HiloFiel
<1>4. ASSUME NEW f \in EnDisco PROVE Fiel(f)'
  <2>1. f \in FileTags /\ carpeta[f] # Nada /\ Tag(f)' = Id[f]
    BY <1>1 DEF EnDisco, Tag
  <2> DEFINE S == Enlazados(f)
             N == Cardinality(S)
  <2>2. S \subseteq Nombres
    BY DEF Enlazados
  <2>3. IsFiniteSet(S)
    BY <2>2, NombresNat, FS_Subset
  <2>4. PICK o \in Ordenes(S) :
          t_tag'[Id[f]] =
            [estado |-> carpeta[f].estado, tam |-> carpeta[f].tam,
             usado |-> IF carpeta[f].usado THEN Id[f] ELSE Nada,
             lista_block_logicos |-> [k \in DOMAIN o |-> Logico(o[k], 0)]]
    BY LevantarEfecto
  <2>5. \A n \in Nombres : n \in S <=> Enlaces(f)[n] # Nada
    BY DEF Enlazados
  <2> HIDE DEF S
  <2>6. /\ N \in Nat /\ o \in [1..N -> S]
        /\ \A j, k \in 1..N : o[j] = o[k] => j = k
        /\ \A x \in S : \E k \in 1..N : o[k] = x
    BY <2>3, OrdenInyecta
  <2> DEFINE s == [k \in DOMAIN o |-> Logico(o[k], 0)]
  <2>7. DOMAIN s = 1..N /\ \A k \in 1..N : s[k].nombre_block = o[k]
    BY <2>6 DEF Logico
  <2>8. s \in Seq(Registros)
    <3>1. s \in [1..N -> Registros]
      BY <2>2, <2>6 DEF Logico, Registros
    <3> QED BY <2>6, <3>1
  <2>9. /\ t_tag'[Id[f]].lista_block_logicos = s
        /\ t_tag'[Id[f]].estado = carpeta[f].estado
        /\ t_tag'[Id[f]].tam = carpeta[f].tam
    BY <2>4
  <2> HIDE DEF N, s
  <2>10. Len(s) = N
    BY <2>6, <2>7, <2>8
  <2>11. Nombrados(s, Enlaces(f))
    BY <2>2, <2>5, <2>6, <2>7, <2>10 DEF Nombrados
  <2>12. Enlaces(f)' = Enlaces(f)
    BY <1>1 DEF Enlaces
  <2> QED BY <1>1, <1>2, <2>1, <2>9, <2>11, <2>12 DEF Fiel, Nombrados
<1>5. ASSUME NEW f \in FileTags PROVE CopiaDe(f)'
  <2>1. CASE f \in EnDisco
    <3>1. lista'[f] = <<Id[f]>> /\ carpeta'[f] # Nada
      BY <1>1, <2>1 DEF EnDisco
    <3> QED BY <1>4, <2>1, <3>1 DEF CopiaDe
  <2>2. CASE f \notin EnDisco
    BY <1>1, <2>2 DEF EnDisco, CopiaDe
  <2> QED BY <2>1, <2>2
<1> QED BY <1>3, <1>5 DEF Copia

LEMMA CopiaInicial == Init => Copia
<1> SUFFICES ASSUME Init PROVE Copia
  OBVIOUS
<1> USE DEF Init
<1>1. 1 \in Ids /\ 0 \in Nombres /\ BASE \in FileTags
  BY IdInyecta, NombresNat, SupuestosAlmacen DEF Ids
<1>2. Base = [estado |-> "COMMITED", tam |-> 1, usado |-> 1,
              lista_block_logicos |-> <<Logico(0, 0)>>]
  BY DEF Base
<1>3. \A h \in Hilos : HiloFiel(h)
  BY DEF HiloFiel
<1>4. \A f \in FileTags : ~EnCommit(f)
  BY DEF EnCommit, Ocioso
<1>5. CopiaDe(BASE)
  <2> DEFINE bl == <<Logico(0, 0)>>
             e == [SinEnlaces EXCEPT ![0] = 0]
  <2>1. /\ lista[BASE] = <<1>> /\ Tag(BASE) = 1 /\ t_tag[1] = Base
        /\ carpeta[BASE] = [estado |-> "COMMITED", tam |-> 1, usado |-> TRUE, enlaces |-> e]
    BY <1>1 DEF Tag
  <2>2. carpeta[BASE] # Nada
    <3>1. DiscoOK
      BY TiposInicial DEF Tipos
    <3>2. cant_block \in Discos /\ Nada \notin Carpetas
      BY NadaNoEs
    <3>3. 0 \in Bloques
      BY <3>2, BloquesConBit
    <3>4. e \in [Nombres -> Bloques \cup {Nada}]
      BY <3>3 DEF SinEnlaces
    <3> HIDE DEF e
    <3>5. carpeta[BASE] \in Carpetas
      <4>1. "COMMITED" \in Estados /\ 1 \in Tamanos /\ TRUE \in BOOLEAN
        BY DEF Estados, Tamanos
      <4>2. [estado |-> "COMMITED", tam |-> 1, usado |-> TRUE, enlaces |-> e] \in Carpetas
        BY <3>4, <4>1, Zenon DEF Carpetas
      <4> QED BY <2>1, <4>2, Zenon
    <3> QED BY <3>2, <3>5
  <2>3. Enlaces(BASE) = e
    BY <2>1, <2>2 DEF Enlaces
  <2>4. Len(bl) = 1 /\ bl[1].nombre_block = 0 /\ 0 # Nada
    BY NadaNoEs DEF Logico
  <2>5. \A n \in Nombres : e[n] = IF n = 0 THEN 0 ELSE Nada
    BY DEF SinEnlaces
  <2> HIDE DEF bl, e
  <2>6. Nombrados(bl, e)
    BY <2>4, <2>5 DEF Nombrados
  <2>7. Fiel(BASE)
    <3>1. Base.lista_block_logicos = bl /\ Base.estado = "COMMITED" /\ Base.tam = 1
      BY <1>2 DEF bl
    <3>2. carpeta[BASE].estado = "COMMITED" /\ carpeta[BASE].tam = 1
      BY <2>1
    <3>3. ~EnCommit(BASE)
      BY <1>1, <1>4
    <3> QED BY <2>1, <2>3, <2>6, <3>1, <3>2, <3>3 DEF Fiel
  <2> QED BY <2>1, <2>2, <2>7 DEF CopiaDe
<1>6. ASSUME NEW f \in FileTags, f # BASE PROVE CopiaDe(f)
  BY <1>6 DEF CopiaDe
<1> QED BY <1>3, <1>5, <1>6 DEF Copia

LEMMA CopiaSiempre ==
  ASSUME Tipos, Copia, UnHilo, ~TagRepetido, [Next]_vars
  PROVE  Copia'
<1>1. CASE UNCHANGED vars \/ LevantarFalla
  BY <1>1, CopiaIgual DEF vars, LevantarFalla, disco
<1>2. CASE Caer
  BY <1>2 DEF Caer, Caida, Copia
<1>3. CASE Levantar
  BY <1>3, CopiaLevantar
<1>4. ASSUME NEW h \in Hilos, NEW f \in FileTags,
             \/ Create(h, f) \/ Delete(h, f) \/ Commit(h, f)
             \/ \E n \in 0..MaxBloques : TruncateAchica(h, f, n) \/ TruncateAgranda(h, f, n)
             \/ \E o \in FileTags : TagFile(h, o, f)
      PROVE  Copia'
  BY <1>4, CopiaCreate, CopiaDelete, CopiaCommit, CopiaAchica, CopiaAgranda, CopiaTagFile
<1>5. ASSUME NEW h \in Hilos, NEW f \in FileTags,
             \/ Flush(h, f) \/ TruncateRechazado(h, f)
             \/ \E n \in Nombres : ReadBlock(h, f, n)
             \/ \E n \in Nombres, c \in Escrituras : WriteBlock(h, f, n, c)
      PROVE  Copia'
  <2>1. UNCHANGED <<t_tag, lista, carpeta, hilo, levantado>>
    BY <1>5 DEF Flush, TruncateRechazado, ReadBlock, WriteBlock, Negar, Aceptar, disco
  <2> QED BY <2>1, CopiaIgual
<1>6. ASSUME NEW h \in Hilos,
             \/ SinBloques(h) \/ Buscar(h) \/ Marcar(h) \/ Enlazar(h) \/ NoEnlaza(h)
             \/ Devolver(h) \/ CerrarTruncate(h) \/ Procesar(h) \/ CerrarCommit(h)
      PROVE  Copia'
  BY <1>6, CopiaSinBloques, CopiaBloque, CopiaEnlazar, CopiaCerrar
<1>7. ASSUME NEW h \in Hilos, Contestar(h) PROVE Copia'
  BY <1>7, CopiaIgual DEF Contestar, disco
<1> QED BY <1>1, <1>2, <1>3, <1>4, <1>5, <1>6, <1>7 DEF Next

\* operaciones_storage.c:172, f_fresh_stat.c:881: with one thread and no TAG onto what
\* exists, a File:Tag lists the links of its folder, each once, after any link
\* that fails and any restart.
THEOREM ListaSiempreEsCarpeta ==
  ASSUME UnHilo, ~TagRepetido
  PROVE  Spec => []ListaEsCarpeta
<1>1. Tipos /\ Copia => ListaEsCarpeta
  <2> SUFFICES ASSUME Tipos, Copia, NEW f \in Listadas
               PROVE  LET bl == t_tag[Tag(f)].lista_block_logicos IN
                      /\ {bl[k].nombre_block : k \in DOMAIN bl} = Enlazados(f)
                      /\ Cardinality(Enlazados(f)) = Len(bl)
    BY DEF ListaEsCarpeta
  <2> DEFINE bl == t_tag[Tag(f)].lista_block_logicos
             S == Enlazados(f)
             N == Len(bl)
  <2>1. levantado /\ f \in FileTags /\ Tag(f) # Nada
    BY DEF Listadas
  <2>2. lista[f] # <<>> /\ t_tag[Tag(f)] \in Tags
    BY <2>1, TagExiste
  <2>3. Nombrados(bl, Enlaces(f))
    BY <2>1, <2>2 DEF Copia, CopiaDe, Fiel
  <2>4. bl \in Seq(Registros) /\ N \in Nat /\ DOMAIN bl = 1..N
    BY <2>2 DEF Tags
  <2> HIDE DEF bl
  <2>5. \A k \in 1..N : bl[k].nombre_block \in Nombres
    <3>1. \A k \in 1..N : bl[k] \in Registros
      BY <2>4
    <3> QED BY <3>1 DEF Registros
  <2> HIDE DEF N
  <2>6. \A n \in Nombres : n \in S <=> \E k \in 1..N : bl[k].nombre_block = n
    BY <2>3 DEF Nombrados, Enlazados, N
  <2>7. S \subseteq Nombres
    BY DEF Enlazados
  <2> HIDE DEF S
  <2>8. {bl[k].nombre_block : k \in DOMAIN bl} = S
    BY <2>4, <2>5, <2>6, <2>7
  <2> DEFINE g == [k \in 1..N |-> bl[k].nombre_block]
  <2>9. g \in Bijection(1..N, S)
    <3>1. g \in [1..N -> S]
      BY <2>5, <2>6
    <3>2. \A j, k \in 1..N : g[j] = g[k] => j = k
      BY <2>3 DEF Nombrados, N
    <3>3. \A n \in S : \E k \in 1..N : g[k] = n
      BY <2>6, <2>7
    <3> QED BY <3>1, <3>2, <3>3 DEF Bijection, Injection, Surjection, IsInjective
  <2>10. ExistsBijection(1..N, S)
    BY <2>9 DEF ExistsBijection
  <2>11. IsFiniteSet(1..N) /\ Cardinality(1..N) = N
    <3>1. 1 \in Int /\ N \in Int
      BY <2>4
    <3> QED BY <2>4, <3>1, FS_Interval
  <2>12. Cardinality(S) = N
    BY <2>10, <2>11, FS_Bijection
  <2> QED BY <2>8, <2>12 DEF S, N, bl
<1>2. Tipos /\ Copia /\ [Next]_vars => (Tipos /\ Copia)'
  BY TiposPaso, CopiaSiempre
<1> QED BY TiposInicial, CopiaInicial, <1>1, <1>2, PTL DEF Spec

-----------------------------------------------------------------------------
(* The catalogue: what Storage answers is what the folders hold.           *)

Entrada(c) == IF c = Nada THEN Nada ELSE [estado |-> c.estado, tam |-> c.tam]
Cat == [f \in FileTags |-> Entrada(carpeta[f])]

\* What Storage shows of a File:Tag, up or down, is its metadata.config.
Espejo == [f \in FileTags |-> Visible(f)] = Cat

LEMMA EspejoSiempre == Tipos /\ Copia => Espejo
<1> SUFFICES ASSUME Tipos, Copia, NEW f \in FileTags
             PROVE  Visible(f) = Entrada(carpeta[f])
  BY DEF Espejo, Cat
<1>1. CASE ~levantado
  BY <1>1 DEF Visible, Entrada
<1>2. CASE levantado /\ Tag(f) = Nada
  <2>1. carpeta[f] = Nada
    BY <1>2, TagNoExiste DEF Copia, CopiaDe
  <2> QED BY <1>2, <2>1 DEF Visible, Entrada
<1>3. CASE levantado /\ Tag(f) # Nada
  <2>1. lista[f] # <<>>
    BY <1>3, TagExiste
  <2>2. Fiel(f) /\ carpeta[f] # Nada
    BY <1>3, <2>1 DEF Copia, CopiaDe
  <2> QED BY <1>3, <2>2 DEF Visible, Entrada, Fiel
<1> QED BY <1>1, <1>2, <1>3

\* The entry of a File:Tag, seen from its t_tag.
LEMMA EntradaDe ==
  ASSUME Tipos, Copia, levantado, NEW f \in FileTags
  PROVE  /\ Cat[f] # Nada <=> Tag(f) # Nada
         /\ Cat[f] # Nada <=> carpeta[f] # Nada
         /\ Tag(f) # Nada =>
              /\ carpeta[f] # Nada /\ carpeta[f] \in Carpetas
              /\ Cat[f] = [estado |-> carpeta[f].estado, tam |-> carpeta[f].tam]
              /\ carpeta[f].tam = t_tag[Tag(f)].tam
              /\ carpeta[f].estado = IF EnCommit(f) THEN "WORK_IN_PROGRESS"
                                     ELSE t_tag[Tag(f)].estado
<1>1. Cat[f] = Entrada(carpeta[f])
  BY DEF Cat
<1>2. CASE Tag(f) = Nada
  <2>1. carpeta[f] = Nada
    BY <1>2, TagNoExiste DEF Copia, CopiaDe
  <2> QED BY <1>1, <1>2, <2>1 DEF Entrada
<1>3. CASE Tag(f) # Nada
  <2>1. lista[f] # <<>>
    BY <1>3, TagExiste
  <2>2. Fiel(f) /\ carpeta[f] # Nada /\ carpeta[f] \in Carpetas
    BY <2>1 DEF Copia, CopiaDe, Tipos, DiscoOK
  <2>3. Cat[f] = [estado |-> carpeta[f].estado, tam |-> carpeta[f].tam]
    BY <1>1, <2>2 DEF Entrada
  <2>4. [estado |-> carpeta[f].estado, tam |-> carpeta[f].tam] \in [estado : Estados, tam : Tamanos]
    BY <2>2 DEF Carpetas
  <2>5. Cat[f] # Nada
    BY <2>3, <2>4, NadaAparte
  <2> QED BY <1>3, <2>2, <2>3, <2>5 DEF Fiel
<1> QED BY <1>2, <1>3

LEMMA CatPaso ==
  ASSUME Tipos, NEW f \in FileTags, NEW c, carpeta' = [carpeta EXCEPT ![f] = c]
  PROVE  Cat' = [Cat EXCEPT ![f] = Entrada(c)]
<1>1. \A g \in FileTags : carpeta'[g] = IF g = f THEN c ELSE carpeta[g]
  BY DEF Tipos, DiscoOK
<1>2. Cat' = [g \in FileTags |-> Entrada(carpeta'[g])]
  BY DEF Cat, Entrada
<1>3. [Cat EXCEPT ![f] = Entrada(c)]
      = [g \in FileTags |-> IF g = f THEN Entrada(c) ELSE Entrada(carpeta[g])]
  BY DEF Cat
<1>4. \A g \in FileTags : Entrada(carpeta'[g]) = IF g = f THEN Entrada(c) ELSE Entrada(carpeta[g])
  BY <1>1
<1> QED BY <1>2, <1>3, <1>4

LEMMA CatIgual ==
  ASSUME UNCHANGED carpeta
  PROVE  Cat' = Cat
  BY DEF Cat

\* A step that changes neither the catalogue nor what is owed or answered.
Quieto == UNCHANGED <<[f \in FileTags |-> Visible(f)], pendiente, resp>>

LEMMA PasoMudo ==
  ASSUME Espejo, Espejo', Cat' = Cat, UNCHANGED respuestas
  PROVE  Quieto
  BY DEF Espejo, Quieto, respuestas

\* A stop leaves what is on disk and drops what is owed.
LEMMA CaeEnCatalogo ==
  ASSUME Espejo, Espejo', Caida, UNCHANGED disco
  PROVE  C!Caer
<1>1. Cat' = Cat
  BY CatIgual DEF disco
<1> QED BY <1>1 DEF Caida, Espejo, C!Caer

\* A thread does a request, and owes its answer.
LEMMA Hecho ==
  ASSUME NEW h \in Hilos, NEW f \in FileTags, NEW op \in C!Operaciones,
         NEW rc \in {"OK", "ERROR"}, Deudas, pendiente[h] = Nada,
         Responder(h, op, f, rc), C!Efecto(op, f, rc)
  PROVE  C!Hacer(h)
<1> DEFINE r == [op |-> op, file |-> f, rc |-> rc]
<1>1. DOMAIN pendiente = Hilos
  BY DEF Deudas
<1>2. pendiente'[h] = r /\ pendiente' = [pendiente EXCEPT ![h] = r] /\ UNCHANGED resp
  BY <1>1 DEF Responder
<1>3. r \in C!Respuestas /\ r.op = op /\ r.file = f /\ r.rc = rc
  BY DEF C!Respuestas
<1> QED BY <1>2, <1>3 DEF C!Hacer

LEMMA CreaEnCatalogo ==
  ASSUME Tipos, Deudas, Copia, Espejo, Espejo', NEW h \in Hilos, NEW f \in FileTags, Create(h, f)
  PROVE  C!Hacer(h)
<1>1. levantado /\ pendiente[h] = Nada
  BY DEF Create, Pedido
<1>2. CASE Tag(f) # Nada /\ Negar(h, "CREATE", f)
  <2>1. Cat' = Cat
    BY <1>2, CatIgual DEF Negar, disco
  <2>2. Cat[f] # Nada
    BY <1>1, <1>2, EntradaDe
  <2>3. C!Efecto("CREATE", f, "ERROR")
    BY <2>1, <2>2 DEF C!Efecto, C!Create, C!Existe, Espejo
  <2> QED BY <1>1, <1>2, <2>3, Hecho DEF Negar, C!Operaciones
<1>3. CASE ~(Tag(f) # Nada /\ Negar(h, "CREATE", f))
  <2> DEFINE tag == [estado |-> "WORK_IN_PROGRESS", tam |-> 0, usado |-> Nada,
                     lista_block_logicos |-> <<>>]
             c == [estado |-> tag.estado, tam |-> tag.tam, usado |-> tag.usado # Nada,
                   enlaces |-> Enlaces(f)]
  <2>1. /\ Tag(f) = Nada /\ Responder(h, "CREATE", f, "OK")
        /\ carpeta' = [carpeta EXCEPT ![f] = c]
    BY <1>3 DEF Create, Crear
  <2>2. c.estado = "WORK_IN_PROGRESS" /\ c.tam = 0 /\ c # Nada
    <3>1. c \in Carpetas
      <4>1. tag.estado \in Estados /\ tag.tam \in Tamanos /\ (tag.usado # Nada) \in BOOLEAN
        BY SupuestosAlmacen DEF Estados, Tamanos
      <4>2. Enlaces(f) \in [Nombres -> Bloques \cup {Nada}]
        BY EnlacesTipo DEF Tipos
      <4> HIDE DEF tag
      <4> QED BY <4>1, <4>2, Zenon DEF Carpetas
    <3>2. c # Nada
      BY <3>1, NadaNoEs DEF Tipos, DiscoOK
    <3> QED BY <3>2
  <2> HIDE DEF c, tag
  <2>3. Cat' = [Cat EXCEPT ![f] = [estado |-> "WORK_IN_PROGRESS", tam |-> 0]]
    BY <2>1, <2>2, CatPaso DEF Entrada
  <2>4. Cat[f] = Nada
    BY <1>1, <2>1, EntradaDe
  <2>5. C!Efecto("CREATE", f, "OK")
    BY <2>3, <2>4 DEF C!Efecto, C!Create, C!Existe, C!Poner, C!Nuevo, Espejo
  <2> QED BY <1>1, <2>1, <2>5, Hecho DEF C!Operaciones
<1> QED BY <1>2, <1>3

LEMMA TagEnCatalogo ==
  ASSUME Tipos, Deudas, Copia, UnHilo, ~TagRepetido, Espejo, Espejo',
         NEW h \in Hilos, NEW o \in FileTags, NEW f \in FileTags, TagFile(h, o, f)
  PROVE  C!Hacer(h)
<1>1. levantado /\ pendiente[h] = Nada
  BY DEF TagFile, Pedido
<1>2. CASE Tag(o) = Nada /\ Negar(h, "TAG", f)
  <2>1. Cat' = Cat
    BY <1>2, CatIgual DEF Negar, disco
  <2>2. Cat[o] = Nada
    BY <1>1, <1>2, EntradaDe
  <2>3. C!Efecto("TAG", f, "ERROR")
    BY <2>1, <2>2 DEF C!Efecto, C!Tag, C!Existe, Espejo
  <2> QED BY <1>1, <1>2, <2>3, Hecho DEF Negar, C!Operaciones
<1>3. CASE ~(Tag(o) = Nada /\ Negar(h, "TAG", f))
  <2> DEFINE i == Tag(o)
             tag == [t_tag[i] EXCEPT !.estado = "WORK_IN_PROGRESS"]
             e == EnlacesDeTag(o, f)
             c == [estado |-> tag.estado, tam |-> tag.tam, usado |-> tag.usado # Nada,
                   enlaces |-> e]
  <2>1. /\ i # Nada /\ Tag(f) = Nada /\ Responder(h, "TAG", f, "OK")
        /\ carpeta' = [carpeta EXCEPT ![f] = c]
    BY <1>3 DEF TagFile, Crear
  <2>2. t_tag[i] \in Tags
    BY <2>1, TagExiste
  <2>3. tag.estado = "WORK_IN_PROGRESS" /\ tag.tam = t_tag[i].tam /\ tag.tam \in Tamanos
    BY <2>2 DEF Tags
  <2>4. e \in [Nombres -> Bloques \cup {Nada}]
    BY <2>1, EnlacesDeTagTipo
  <2>5. Cat[o] # Nada /\ Cat[o].tam = t_tag[i].tam /\ Cat[f] = Nada
    <3>1. /\ Cat[o] # Nada /\ carpeta[o].tam = t_tag[i].tam
          /\ Cat[o] = [estado |-> carpeta[o].estado, tam |-> carpeta[o].tam]
      BY <1>1, <2>1, EntradaDe
    <3>2. Cat[f] = Nada
      BY <1>1, <2>1, EntradaDe
    <3> QED BY <3>1, <3>2
  <2> HIDE DEF tag, e, i
  <2>6. c.estado = "WORK_IN_PROGRESS" /\ c.tam = t_tag[i].tam
    BY <2>3
  <2>7. c # Nada
    <3>1. "WORK_IN_PROGRESS" \in Estados /\ (tag.usado # Nada) \in BOOLEAN
      BY DEF Estados
    <3>2. c \in Carpetas
      BY <2>3, <2>4, <3>1, Zenon DEF Carpetas
    <3> QED BY <3>2, NadaNoEs DEF Tipos, DiscoOK
  <2> HIDE DEF c
  <2>8. Cat' = [Cat EXCEPT ![f] = [estado |-> "WORK_IN_PROGRESS", tam |-> Cat[o].tam]]
    <3>1. Entrada(c) = [estado |-> "WORK_IN_PROGRESS", tam |-> Cat[o].tam]
      BY <2>5, <2>6, <2>7 DEF Entrada
    <3>2. Cat' = [Cat EXCEPT ![f] = Entrada(c)]
      BY <2>1, CatPaso
    <3> QED BY <3>1, <3>2
  <2>9. C!Efecto("TAG", f, "OK")
    BY <2>5, <2>8 DEF C!Efecto, C!Tag, C!Existe, C!Poner, C!Nuevo, Espejo
  <2> QED BY <1>1, <2>1, <2>9, Hecho DEF C!Operaciones
<1> QED BY <1>2, <1>3

LEMMA BorraEnCatalogo ==
  ASSUME Tipos, Deudas, Copia, Espejo, Espejo', NEW h \in Hilos, NEW f \in FileTags, Delete(h, f)
  PROVE  C!Hacer(h) \/ C!Caer
<1>1. levantado /\ pendiente[h] = Nada
  BY DEF Delete, Pedido
<1>2. CASE Tag(f) = Nada /\ Aceptar(h, "DELETE", f)
  <2>1. Cat' = Cat /\ Cat[f] = Nada
    BY <1>1, <1>2, CatIgual, EntradaDe DEF Aceptar, disco
  <2>2. Cat' = [Cat EXCEPT ![f] = Nada]
    BY <2>1 DEF Cat
  <2>3. C!Efecto("DELETE", f, "OK")
    BY <2>2 DEF C!Efecto, C!Delete, C!Poner, Espejo
  <2> QED BY <1>1, <1>2, <2>3, Hecho DEF Aceptar, C!Operaciones
<1>3. CASE DobleFree(Tag(f))
  BY <1>3, CaeEnCatalogo DEF DobleFree
<1>4. CASE ~(Tag(f) = Nada /\ Aceptar(h, "DELETE", f)) /\ ~DobleFree(Tag(f))
  <2>1. carpeta' = [carpeta EXCEPT ![f] = Nada] /\ Responder(h, "DELETE", f, "OK")
    BY <1>4 DEF Delete
  <2>2. Cat' = [Cat EXCEPT ![f] = Nada]
    BY <2>1, CatPaso DEF Entrada
  <2>3. C!Efecto("DELETE", f, "OK")
    BY <2>2 DEF C!Efecto, C!Delete, C!Poner, Espejo
  <2> QED BY <1>1, <2>1, <2>3, Hecho DEF C!Operaciones
<1> QED BY <1>2, <1>3, <1>4

LEMMA AchicaEnCatalogo ==
  ASSUME Tipos, Deudas, Copia, UnHilo, Espejo, Espejo', NEW h \in Hilos, NEW f \in FileTags,
         NEW n \in 0..MaxBloques, TruncateAchica(h, f, n)
  PROVE  C!Hacer(h) \/ C!Caer
<1>1. CASE n = 0 /\ DobleFree(Tag(f))
  BY <1>1, CaeEnCatalogo DEF DobleFree
<1>2. CASE ~(n = 0 /\ DobleFree(Tag(f)))
  <2> DEFINE i     == Tag(f)
             tag   == Achicado(t_tag[i], n)
             nuevo == IF n = 0 THEN [tag EXCEPT !.usado = Nada] ELSE tag
             d     == [m \in Nombres |->
                        IF \E l \in {t_tag[i].lista_block_logicos[k] :
                                       k \in (Len(tag.lista_block_logicos) + 1)..Largo(i)} :
                             l.nombre_block = m
                        THEN Nada ELSE Metadata(f, nuevo).enlaces[m]]
             c     == [Metadata(f, nuevo) EXCEPT !.enlaces = d]
  <2>1. /\ Pedido(h) /\ i # Nada /\ t_tag[i].estado # "COMMITED" /\ n =< t_tag[i].tam
        /\ carpeta' = [carpeta EXCEPT ![f] = IF @ = Nada THEN Nada ELSE c]
        /\ Responder(h, "TRUNCATE", f, "OK")
    BY <1>2 DEF TruncateAchica, Truncable
  <2>2. t_tag[i] \in Tags
    BY <2>1, TagExiste
  <2>3. levantado /\ ~EnCommit(f) /\ pendiente[h] = Nada
    BY <2>1, Parados DEF Pedido
  <2>4. /\ carpeta[f] # Nada /\ carpeta[f] \in Carpetas /\ Cat[f] # Nada
        /\ Cat[f] = [estado |-> carpeta[f].estado, tam |-> carpeta[f].tam]
        /\ carpeta[f].estado = t_tag[i].estado
    BY <2>1, <2>3, EntradaDe
  <2>5. t_tag[i].estado = "WORK_IN_PROGRESS"
    BY <2>1, <2>2 DEF Tags, Estados
  <2>6. tag \in Tags /\ tag.estado = t_tag[i].estado /\ tag.tam = n
    <3>1. tag \in Tags /\ tag = [t_tag[i] EXCEPT !.tam = n,
                                   !.lista_block_logicos = tag.lista_block_logicos]
      BY <2>1, <2>2, AchicadoTipo
    <3> HIDE DEF tag
    <3> QED BY <2>2, <3>1 DEF Tags
  <2> HIDE DEF i, tag
  <2>7. nuevo \in Tags /\ nuevo.estado = tag.estado /\ nuevo.tam = tag.tam
    BY <2>6 DEF Tags
  <2> HIDE DEF nuevo
  <2>8. /\ Metadata(f, nuevo) \in Carpetas
        /\ Metadata(f, nuevo).enlaces = carpeta[f].enlaces
        /\ Metadata(f, nuevo).estado = nuevo.estado /\ Metadata(f, nuevo).tam = nuevo.tam
    BY <2>4, <2>7 DEF Metadata, Carpetas, Tags
  <2>9. d \in [Nombres -> Bloques \cup {Nada}]
    BY <2>4, <2>8 DEF Carpetas
  <2> HIDE DEF d
  <2>10. c \in Carpetas /\ c.estado = nuevo.estado /\ c.tam = nuevo.tam
    BY <2>8, <2>9 DEF Carpetas
  <2> HIDE DEF c
  <2>11. c # Nada
    BY <2>10, NadaNoEs DEF Tipos, DiscoOK
  <2>12. Entrada(c) = [Cat[f] EXCEPT !.tam = n]
    BY <2>4, <2>6, <2>7, <2>10, <2>11 DEF Entrada
  <2>13. carpeta' = [carpeta EXCEPT ![f] = c]
    BY <2>1, <2>4
  <2>14. Cat' = [Cat EXCEPT ![f] = [Cat[f] EXCEPT !.tam = n]]
    BY <2>12, <2>13, CatPaso
  <2>15. Cat[f] # Nada /\ Cat[f].estado = "WORK_IN_PROGRESS"
    BY <2>4, <2>5
  <2>16. C!Efecto("TRUNCATE", f, "OK")
    BY <2>14, <2>15 DEF C!Efecto, C!Truncate, C!Escribible, C!Existe, C!Poner, Espejo
  <2> QED BY <2>1, <2>3, <2>16, Hecho DEF C!Operaciones
<1> QED BY <1>1, <1>2

\* The end of a TRUNCATE that grows, or of a COMMIT.
LEMMA GuardaEnCatalogo ==
  ASSUME Tipos, Copia, NEW h \in Hilos, NEW p \in Pasos, En(h, p), NEW tag \in Tags,
         Guardar(h, tag)
  PROVE  /\ hilo[h].file \in FileTags /\ Cat[hilo[h].file] # Nada
         /\ Tag(hilo[h].file) = hilo[h].id
         /\ Cat[hilo[h].file] = [estado |-> carpeta[hilo[h].file].estado,
                                 tam |-> carpeta[hilo[h].file].tam]
         /\ carpeta[hilo[h].file].tam = t_tag[hilo[h].id].tam
         /\ carpeta[hilo[h].file].estado = IF EnCommit(hilo[h].file) THEN "WORK_IN_PROGRESS"
                                           ELSE t_tag[hilo[h].id].estado
         /\ t_tag[hilo[h].id].estado = IF p = "procesar" THEN "COMMITED" ELSE "WORK_IN_PROGRESS"
         /\ Cat' = [Cat EXCEPT ![hilo[h].file] = [estado |-> tag.estado, tam |-> tag.tam]]
<1> DEFINE f == hilo[h].file
           i == hilo[h].id
           c == Metadata(f, tag)
<1>1. /\ f \in FileTags /\ levantado /\ hilo[h] # Ocioso /\ i \in Ids /\ i # Nada
      /\ hilo[h].paso = p
  BY EnPaso, NadaNoEs DEF En
<1>2. /\ Tag(f) = i
      /\ t_tag[i].estado = IF p = "procesar" THEN "COMMITED" ELSE "WORK_IN_PROGRESS"
  BY <1>1 DEF Copia, HiloFiel
<1>3. /\ carpeta[f] # Nada /\ carpeta[f] \in Carpetas /\ Cat[f] # Nada
      /\ Cat[f] = [estado |-> carpeta[f].estado, tam |-> carpeta[f].tam]
      /\ carpeta[f].tam = t_tag[i].tam
      /\ carpeta[f].estado = IF EnCommit(f) THEN "WORK_IN_PROGRESS" ELSE t_tag[i].estado
  BY <1>1, <1>2, EntradaDe
<1>4. c \in Carpetas /\ c.estado = tag.estado /\ c.tam = tag.tam
  BY <1>3 DEF Metadata, Carpetas, Tags
<1>5. carpeta' = [carpeta EXCEPT ![f] = c]
  BY DEF Guardar
<1> HIDE DEF c
<1>6. c # Nada
  BY <1>4, NadaNoEs DEF Tipos, DiscoOK
<1>7. Cat' = [Cat EXCEPT ![f] = Entrada(c)]
  BY <1>1, <1>5, CatPaso
<1> QED BY <1>1, <1>2, <1>3, <1>4, <1>6, <1>7 DEF Entrada

LEMMA NadaDebe ==
  ASSUME Tipos, Deudas, NEW h \in Hilos, NEW p \in Pasos, En(h, p)
  PROVE  pendiente[h] = Nada
  BY EnPaso DEF Deudas

LEMMA CierraEnCatalogo ==
  ASSUME Tipos, Deudas, Copia, Espejo, Espejo', NEW h \in Hilos,
         CerrarTruncate(h) \/ CerrarCommit(h)
  PROVE  C!Hacer(h)
<1> DEFINE f == hilo[h].file
           i == hilo[h].id
<1>1. CASE CerrarTruncate(h)
  <2> DEFINE n == hilo[h].hasta
             tag == [t_tag[i] EXCEPT !.tam = n]
  <2>1. En(h, "cerrar") /\ Guardar(h, tag) /\ Responder(h, "TRUNCATE", f, "OK")
    BY <1>1 DEF CerrarTruncate
  <2>2. t_tag[i] \in Tags /\ Ocupado(h)
    BY <2>1, EnPaso DEF Pasos
  <2>3. n \in 0..MaxBloques /\ n \in Tamanos
    BY <2>1, <2>2 DEF Ocupado, En, Tamanos
  <2>4. tag \in Tags /\ tag.tam = n /\ tag.estado = t_tag[i].estado
    BY <2>2, <2>3 DEF Tags
  <2> HIDE DEF tag
  <2>5. /\ f \in FileTags /\ Cat[f] # Nada
        /\ Cat[f] = [estado |-> carpeta[f].estado, tam |-> carpeta[f].tam]
        /\ carpeta[f].estado = IF EnCommit(f) THEN "WORK_IN_PROGRESS" ELSE t_tag[i].estado
        /\ t_tag[i].estado = "WORK_IN_PROGRESS"
        /\ Cat' = [Cat EXCEPT ![f] = [estado |-> tag.estado, tam |-> tag.tam]]
    BY <2>1, <2>4, GuardaEnCatalogo DEF Pasos
  <2>6. Cat[f].estado = "WORK_IN_PROGRESS" /\ tag.estado = "WORK_IN_PROGRESS"
    BY <2>4, <2>5
  <2>7. [estado |-> tag.estado, tam |-> tag.tam] = [Cat[f] EXCEPT !.tam = n]
    BY <2>4, <2>5, <2>6
  <2> HIDE DEF f, n
  <2>8. Cat' = [Cat EXCEPT ![f] = [Cat[f] EXCEPT !.tam = n]]
    BY <2>5, <2>7
  <2>9. C!Efecto("TRUNCATE", f, "OK")
    BY <2>3, <2>5, <2>6, <2>8
       DEF C!Efecto, C!Truncate, C!Escribible, C!Existe, C!Poner, Espejo
  <2>10. pendiente[h] = Nada
    BY <2>1, NadaDebe DEF Pasos
  <2> QED BY <2>1, <2>5, <2>9, <2>10, Hecho DEF C!Operaciones
<1>2. CASE CerrarCommit(h)
  <2> DEFINE tag == t_tag[i]
  <2>1. En(h, "procesar") /\ Guardar(h, tag) /\ Responder(h, "COMMIT", f, "OK")
    BY <1>2 DEF CerrarCommit
  <2>2. tag \in Tags
    BY <2>1, EnPaso DEF Pasos
  <2>3. /\ f \in FileTags /\ Cat[f] # Nada
        /\ Cat[f] = [estado |-> carpeta[f].estado, tam |-> carpeta[f].tam]
        /\ carpeta[f].tam = tag.tam
        /\ tag.estado = "COMMITED"
        /\ Cat' = [Cat EXCEPT ![f] = [estado |-> tag.estado, tam |-> tag.tam]]
    BY <2>1, <2>2, GuardaEnCatalogo DEF Pasos
  <2>4. [estado |-> tag.estado, tam |-> tag.tam] = [Cat[f] EXCEPT !.estado = "COMMITED"]
    BY <2>3
  <2> HIDE DEF f, tag
  <2>5. Cat' = [Cat EXCEPT ![f] = [Cat[f] EXCEPT !.estado = "COMMITED"]]
    BY <2>3, <2>4
  <2>6. C!Efecto("COMMIT", f, "OK")
    BY <2>3, <2>5 DEF C!Efecto, C!Commit, C!Existe, C!Poner, Espejo
  <2>7. pendiente[h] = Nada
    BY <2>1, NadaDebe DEF Pasos
  <2> QED BY <2>1, <2>3, <2>6, <2>7, Hecho DEF C!Operaciones
<1> QED BY <1>1, <1>2

LEMMA CommitEnCatalogo ==
  ASSUME Tipos, Deudas, Copia, UnHilo, Espejo, Espejo', NEW h \in Hilos, NEW f \in FileTags,
         Commit(h, f)
  PROVE  C!Hacer(h) \/ Quieto
<1>1. levantado /\ ~EnCommit(f) /\ pendiente[h] = Nada
  BY Parados DEF Commit, Pedido
<1>2. UNCHANGED carpeta
  BY DEF Commit, Negar, Aceptar, disco
<1>3. Cat' = Cat
  BY <1>2, CatIgual
<1>4. CASE Tag(f) = Nada /\ Negar(h, "COMMIT", f)
  <2>1. Cat[f] = Nada
    BY <1>1, <1>4, EntradaDe
  <2>2. C!Efecto("COMMIT", f, "ERROR")
    BY <1>3, <2>1 DEF C!Efecto, C!Commit, C!Existe, Espejo
  <2> QED BY <1>1, <1>4, <2>2, Hecho DEF Negar, C!Operaciones
<1>5. CASE Tag(f) # Nada /\ t_tag[Tag(f)].estado = "COMMITED" /\ Aceptar(h, "COMMIT", f)
  <2>1. /\ Cat[f] # Nada /\ carpeta[f].estado = "COMMITED"
        /\ Cat[f] = [estado |-> carpeta[f].estado, tam |-> carpeta[f].tam]
    BY <1>1, <1>5, EntradaDe
  <2>2. [Cat[f] EXCEPT !.estado = "COMMITED"] = Cat[f]
    BY <2>1
  <2>3. Cat' = [Cat EXCEPT ![f] = [Cat[f] EXCEPT !.estado = "COMMITED"]]
    <3>1. [Cat EXCEPT ![f] = Cat[f]] = Cat
      BY DEF Cat
    <3> QED BY <1>3, <2>2, <3>1
  <2>4. C!Efecto("COMMIT", f, "OK")
    BY <2>1, <2>3 DEF C!Efecto, C!Commit, C!Existe, C!Poner, Espejo
  <2> QED BY <1>1, <1>5, <2>4, Hecho DEF Aceptar, C!Operaciones
<1>6. CASE UNCHANGED respuestas
  BY <1>3, <1>6, PasoMudo
<1> QED BY <1>4, <1>5, <1>6 DEF Commit

\* The requests that change no File:Tag.
LEMMA ConsultaEnCatalogo ==
  ASSUME Tipos, Deudas, Copia, Espejo, Espejo', NEW h \in Hilos, NEW f \in FileTags,
         \/ Flush(h, f) \/ TruncateRechazado(h, f)
         \/ \E n \in Nombres : ReadBlock(h, f, n)
         \/ \E n \in Nombres, c \in Escrituras : WriteBlock(h, f, n, c)
  PROVE  C!Hacer(h)
<1>1. levantado /\ pendiente[h] = Nada /\ UNCHANGED carpeta
  BY DEF Flush, TruncateRechazado, ReadBlock, WriteBlock, Pedido, Negar, Aceptar, disco
<1>2. Cat' = Cat /\ (Cat[f] # Nada <=> Tag(f) # Nada)
  BY <1>1, CatIgual, EntradaDe
<1>3. CASE Flush(h, f)
  <2>1. PICK rc \in {"OK", "ERROR"} :
          (rc = "OK" <=> Tag(f) # Nada) /\ Responder(h, "FLUSH", f, rc)
    BY <1>3 DEF Flush, Negar, Aceptar
  <2>2. C!Efecto("FLUSH", f, rc)
    BY <1>2, <2>1 DEF C!Efecto, C!Flush, C!Existe, Espejo
  <2> QED BY <1>1, <2>1, <2>2, Hecho DEF C!Operaciones
<1>4. CASE TruncateRechazado(h, f)
  <2>1. C!Efecto("TRUNCATE", f, "ERROR")
    BY <1>2 DEF C!Efecto, C!Truncate, Espejo
  <2> QED BY <1>1, <1>4, <2>1, Hecho DEF TruncateRechazado, Negar, C!Operaciones
<1>5. ASSUME NEW n \in Nombres, ReadBlock(h, f, n) PROVE C!Hacer(h)
  <2>1. PICK rc \in {"OK", "ERROR"} :
          (rc = "OK" => Lee(f, n) # Nada) /\ Responder(h, "READ", f, rc)
    BY <1>5 DEF ReadBlock, Negar, Aceptar
  <2>2. rc = "OK" => Cat[f] # Nada
    BY <1>2, <2>1, PaginaDeTag
  <2>3. C!Efecto("READ", f, rc)
    BY <1>2, <2>2 DEF C!Efecto, C!Consultar, C!Existe, Espejo
  <2> QED BY <1>1, <2>1, <2>3, Hecho DEF C!Operaciones
<1>6. ASSUME NEW n \in Nombres, NEW c \in Escrituras, WriteBlock(h, f, n, c)
      PROVE  C!Hacer(h)
  <2>1. PICK rc \in {"OK", "ERROR"} :
          (rc = "OK" => Lee(f, n) # Nada) /\ Responder(h, "WRITE", f, rc)
    BY <1>6 DEF WriteBlock, Negar
  <2>2. rc = "OK" => Cat[f] # Nada
    BY <1>2, <2>1, PaginaDeTag
  <2>3. C!Efecto("WRITE", f, rc)
    BY <1>2, <2>2 DEF C!Efecto, C!Consultar, C!Existe, Espejo
  <2> QED BY <1>1, <2>1, <2>3, Hecho DEF C!Operaciones
<1> QED BY <1>3, <1>4, <1>5, <1>6

\* The steps of a request that is not answered yet.
LEMMA BloqueMudo ==
  ASSUME Tipos, NEW h \in Hilos,
         \/ \E f \in FileTags, n \in 0..MaxBloques : TruncateAgranda(h, f, n)
         \/ Buscar(h) \/ Marcar(h) \/ Enlazar(h) \/ NoEnlaza(h) \/ Devolver(h)
         \/ Procesar(h)
  PROVE  \/ Cat' = Cat /\ UNCHANGED respuestas
         \/ Caida /\ UNCHANGED disco
<1>1. CASE UNCHANGED <<carpeta, respuestas>>
  BY <1>1, CatIgual
<1>2. CASE Procesar(h)
  BY <1>1, <1>2, ProcesarEfecto
<1>3. CASE Enlazar(h)
  <2> DEFINE f == hilo[h].file
             b == hilo[h].bf
             c == [carpeta[f] EXCEPT !.enlaces = [@ EXCEPT ![hilo[h].nro] = b]]
  <2>1. En(h, "enlazar") /\ Enlazable(h) /\ UNCHANGED respuestas
    BY <1>3 DEF Enlazar
  <2>2. f \in FileTags /\ carpeta[f] # Nada /\ carpeta[f] \in Carpetas /\ b \in Bloques
    BY <2>1, EnPaso DEF Enlazable, Pasos, Tipos, DiscoOK
  <2>3. carpeta' = [carpeta EXCEPT ![f] = c]
    BY <1>3, <2>2 DEF Enlazar, Tipos, DiscoOK
  <2>4. c \in Carpetas /\ c.estado = carpeta[f].estado /\ c.tam = carpeta[f].tam
    BY <2>2 DEF Carpetas
  <2> HIDE DEF c, f
  <2>5. c # Nada
    BY <2>4, NadaNoEs DEF Tipos, DiscoOK
  <2>6. Cat' = [Cat EXCEPT ![f] = Entrada(c)]
    BY <2>2, <2>3, CatPaso
  <2>7. Entrada(c) = Cat[f]
    BY <2>2, <2>4, <2>5 DEF Entrada, Cat
  <2>8. [Cat EXCEPT ![f] = Cat[f]] = Cat
    BY DEF Cat
  <2> QED BY <2>1, <2>6, <2>7, <2>8
<1>4. CASE \/ \E f \in FileTags, n \in 0..MaxBloques : TruncateAgranda(h, f, n)
           \/ Buscar(h) \/ Marcar(h) \/ NoEnlaza(h) \/ Devolver(h)
  <2>1. UNCHANGED <<carpeta, respuestas>>
    BY <1>4 DEF TruncateAgranda, Buscar, Marcar, NoEnlaza, Devolver, disco
  <2> QED BY <1>1, <2>1
<1> QED BY <1>2, <1>3, <1>4

LEMMA CatalogoPaso ==
  ASSUME Tipos, Deudas, Copia, UnHilo, ~TagRepetido, Espejo, Espejo', [Next]_vars
  PROVE  C!Next \/ Quieto
<1>1. CASE UNCHANGED vars \/ Levantar \/ LevantarFalla
  <2>1. UNCHANGED <<carpeta, respuestas>>
    BY <1>1 DEF vars, Levantar, LevantarFalla, disco
  <2> QED BY <2>1, CatIgual, PasoMudo
<1>2. CASE Caer
  BY <1>2, CaeEnCatalogo DEF Caer, C!Next
<1>3. ASSUME NEW h \in Hilos, C!Hacer(h)
      PROVE  C!Next
  BY <1>3 DEF C!Next
<1>4. ASSUME NEW h \in Hilos, NEW f \in FileTags,
             \/ Create(h, f) \/ Delete(h, f) \/ Commit(h, f) \/ Flush(h, f)
             \/ TruncateRechazado(h, f)
             \/ \E n \in 0..MaxBloques : TruncateAchica(h, f, n)
             \/ \E o \in FileTags : TagFile(h, o, f)
             \/ \E n \in Nombres : ReadBlock(h, f, n)
             \/ \E n \in Nombres, c \in Escrituras : WriteBlock(h, f, n, c)
      PROVE  C!Hacer(h) \/ C!Caer \/ Quieto
  BY <1>4, CreaEnCatalogo, BorraEnCatalogo, CommitEnCatalogo, ConsultaEnCatalogo,
     AchicaEnCatalogo, TagEnCatalogo
<1>5. ASSUME NEW h \in Hilos,
             \/ \E f \in FileTags, n \in 0..MaxBloques : TruncateAgranda(h, f, n)
             \/ Buscar(h) \/ Marcar(h) \/ Enlazar(h) \/ NoEnlaza(h) \/ Devolver(h)
             \/ Procesar(h)
      PROVE  C!Caer \/ Quieto
  BY <1>5, BloqueMudo, PasoMudo, CaeEnCatalogo
<1>6. ASSUME NEW h \in Hilos, SinBloques(h)
      PROVE  C!Hacer(h)
  <2>1. /\ hilo[h].file \in FileTags /\ Responder(h, "TRUNCATE", hilo[h].file, "ERROR")
        /\ UNCHANGED carpeta /\ pendiente[h] = Nada
    BY <1>6, EnPaso, NadaDebe DEF SinBloques, Pasos, disco
  <2>2. Cat' = Cat
    BY <2>1, CatIgual
  <2>3. C!Efecto("TRUNCATE", hilo[h].file, "ERROR")
    BY <2>2 DEF C!Efecto, C!Truncate, Espejo
  <2> QED BY <2>1, <2>3, Hecho DEF C!Operaciones
<1>7. ASSUME NEW h \in Hilos, CerrarTruncate(h) \/ CerrarCommit(h)
      PROVE  C!Hacer(h)
  BY <1>7, CierraEnCatalogo
<1>8. ASSUME NEW h \in Hilos, Contestar(h)
      PROVE  C!Next
  <2>1. Cat' = Cat
    BY <1>8, CatIgual DEF Contestar, disco
  <2>2. C!Contestar(h)
    BY <1>8, <2>1 DEF Contestar, C!Contestar, Espejo
  <2> QED BY <2>2 DEF C!Next
<1>9. C!Caer => C!Next
  BY DEF C!Next
<1>10. CASE Next
  BY <1>1, <1>2, <1>3, <1>4, <1>5, <1>6, <1>7, <1>8, <1>9, <1>10 DEF Next
<1> QED BY <1>1, <1>10

LEMMA CatalogoInicial == Init => C!Init
<1> SUFFICES ASSUME Init PROVE C!Init
  OBVIOUS
<1>1. Espejo /\ Tipos
  BY TiposInicial, CopiaInicial, EspejoSiempre
<1>2. resp = Nada /\ pendiente = [h \in Hilos |-> Nada]
  BY DEF Init
<1>3. ASSUME NEW f \in FileTags
      PROVE  Entrada(carpeta[f]) = IF f = BASE THEN [estado |-> "COMMITED", tam |-> 1] ELSE Nada
  <2>1. CASE f = BASE
    <3>1. carpeta[f].estado = "COMMITED" /\ carpeta[f].tam = 1
      BY <2>1 DEF Init
    <3>2. carpeta[f] # Nada
      <4>1. levantado /\ lista[f] # <<>>
        BY <2>1 DEF Init
      <4> QED BY <4>1, CopiaInicial DEF Copia, CopiaDe
    <3> QED BY <2>1, <3>1, <3>2 DEF Entrada
  <2>2. CASE f # BASE
    BY <2>2 DEF Init, Entrada
  <2> QED BY <2>1, <2>2
<1>4. Cat = [f \in FileTags |-> IF f = BASE THEN [estado |-> "COMMITED", tam |-> 1] ELSE Nada]
  BY <1>3 DEF Cat
<1> QED BY <1>1, <1>2, <1>4 DEF C!Init, Espejo

\* atencion_worker.c:117, 254: with one thread and no TAG onto what exists, every
\* request happens at once before it is answered, is answered by what happened,
\* and no stop and no restart, between any two steps, takes back what happened,
\* answered or not: the File:Tags are the same in memory and on disk.
THEOREM AlmacenEsCatalogo ==
  ASSUME UnHilo, ~TagRepetido
  PROVE  Spec => ImplementaCatalogo
<1>1. Tipos /\ Deudas /\ Copia /\ [Next]_vars => (Tipos /\ Deudas /\ Copia)'
  BY TiposPaso, DeudasPaso, CopiaSiempre
<1>2. Tipos /\ Deudas /\ Copia /\ Espejo /\ Espejo' /\ [Next]_vars
      => [C!Next]_<<[f \in FileTags |-> Visible(f)], pendiente, resp>>
  BY CatalogoPaso DEF Quieto
<1>3. Init => Deudas
  BY DEF Init, Deudas
<1> QED
  BY TiposInicial, CopiaInicial, EspejoSiempre, CatalogoInicial, <1>1, <1>2, <1>3, PTL
     DEF Spec, ImplementaCatalogo, C!Spec
=============================================================================
