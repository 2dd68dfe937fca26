---------------------------- MODULE MemoriaProofs ----------------------------
(***************************************************************************)
(* Proofs about Memoria, for any File:Tags, bytes, page size, number of    *)
(* frames and both replacement algorithms, whatever Storage answers.       *)
(*                                                                         *)
(* Five invariants, each inductive given the ones before it:               *)
(*   Tipos         TypeOK, and what the instruction in course must have    *)
(*                 for its next access to be to a page of a file;          *)
(*   Tabla         TablaCoherente, and the frame that waits for a page is  *)
(*                 clean, empty, and the only one that will hold it;       *)
(*   NadaSePierde  as it stands: a step may change a dirty frame only if   *)
(*                 Storage takes its bytes in the same step;               *)
(*   Recencia      under LRU, last_used orders the frames as they were     *)
(*                 accessed, but for the page that was just brought;       *)
(*   SinResto      the buffer of a READ is empty out of it.                *)
(* VolcadoCompleto follows: a flush ends well with no dirty frame left.    *)
(* So does VictimaJusta, from Recencia or from the passes of CLOCK-M.      *)
(* Last, step by step, Memoria implements MemoriaPlana.                    *)
(***************************************************************************)
EXTENDS Memoria, WellFoundedInduction, FiniteSetTheorems, TLAPS

\* A set of naturals that is not empty has a least element.
LEMMA MinimoNat ==
  ASSUME NEW S \in SUBSET Nat, S # {}
  PROVE  Min(S) \in S /\ \A y \in S : Min(S) =< y
<1> DEFINE T == {0..x : x \in S}
<1>1. T \subseteq FiniteSubsetsOf(Nat) /\ T # {}
  <2>1. ASSUME NEW x \in S PROVE 0..x \in FiniteSubsetsOf(Nat)
    <3>1. 0 \in Int /\ x \in Int
      OBVIOUS
    <3>2. IsFiniteSet(0..x)
      BY <3>1, FS_Interval
    <3>3. 0..x \in SUBSET Nat
      OBVIOUS
    <3> QED BY <3>2, <3>3 DEF FiniteSubsetsOf
  <2> QED BY <2>1
<1>2. PICK t \in T :
         \A u \in T : <<u, t>> \notin StrictSubsetOrdering(Nat)
  BY <1>1, FS_StrictSubsetOrderingWellFounded, WFMin
<1>3. PICK x \in S : t = 0..x
  BY <1>2
<1>4. ASSUME NEW y \in S, y < x PROVE FALSE
  <2>1. 0..y \subseteq 0..x /\ x \in 0..x /\ x \notin 0..y
    BY <1>4
  <2>2. 0..y \in T /\ 0..y \in SUBSET Nat /\ 0..x \in SUBSET Nat
    BY <1>4
  <2>3. <<0..y, t>> \in StrictSubsetOrdering(Nat)
    BY <1>3, <2>1, <2>2 DEF StrictSubsetOrdering
  <2> QED BY <1>2, <2>2, <2>3
<1>5. x \in S /\ \A y \in S : x =< y
  BY <1>4
<1>6. QED
  BY <1>5 DEF Min

\* A function to the naturals has a least value on a set that is not empty.
LEMMA MenorValor ==
  ASSUME NEW D, NEW f \in [D -> Nat], NEW S \in SUBSET D, S # {}
  PROVE  \E i \in S : \A j \in S : f[i] =< f[j]
<1> DEFINE V == {f[i] : i \in S}
<1>1. V \in SUBSET Nat /\ V # {}
  OBVIOUS
<1>2. Min(V) \in V /\ \A y \in V : Min(V) =< y
  BY <1>1, MinimoNat
<1>3. QED
  BY <1>2

\* The page of an address of a file is one of its pages.
LEMMA PagCota ==
  ASSUME NEW P \in Nat \ {0}, NEW n \in Nat, NEW d \in Nat, d < n * P
  PROVE  d \div P \in 0..(n - 1)
<1> DEFINE q == d \div P
<1>1. q \in Nat /\ P * q =< d
  BY Z3
<1>2. ASSUME q >= n PROVE FALSE
  <2>1. P * q >= P * n
    BY <1>1, <1>2
  <2> QED BY <1>1, <2>1
<1> QED BY <1>1, <1>2

-----------------------------------------------------------------------------
(* Types. *)

\* What an instruction in course carries: a File:Tag, the byte of a WRITE, and
\* an address still to access while a frame waits for its page.
Curso == /\ op \in Accesos => fileTag \in FileTags
         /\ op = "WRITE" => valor \in Bytes
         /\ marco # Nada => op \in Accesos /\ dir < fin

Tipos == TypeOK /\ Curso

\* The sizes are naturals, and the memory has a frame.
LEMMA Tamanos ==
  /\ PAGE_SIZE \in Nat /\ PAGE_SIZE > 0 /\ FRAMES \in Nat /\ FRAMES > 0
  /\ NPAG \in Nat /\ NPAG > 0 /\ NPAG * PAGE_SIZE \in Nat
  /\ 0 \in Marcos /\ Marcos \in SUBSET Nat
  /\ \A n \in Int : n % FRAMES \in Marcos
  /\ \A d \in Nat : d % PAGE_SIZE \in Offsets
<1>1. /\ PAGE_SIZE \in Nat /\ PAGE_SIZE > 0 /\ FRAMES \in Nat /\ FRAMES > 0
      /\ NPAG \in Nat /\ NPAG > 0
  BY SupuestosMemoria
<1>2. NPAG * PAGE_SIZE \in Nat
  BY <1>1
<1>3. 0 \in Marcos /\ Marcos \in SUBSET Nat
  BY <1>1 DEF Marcos
<1>4. \A n \in Int : n % FRAMES \in Marcos
  BY <1>1 DEF Marcos
<1>5. \A d \in Nat : d % PAGE_SIZE \in Offsets
  BY <1>1 DEF Offsets
<1> QED BY <1>1, <1>2, <1>3, <1>4, <1>5

\* A function updated with a value of its type keeps its type.
LEMMA Actualizar ==
  ASSUME NEW S, NEW T, NEW f \in [S -> T], NEW x, NEW v \in T
  PROVE  [f EXCEPT ![x] = v] \in [S -> T]
  OBVIOUS

\* The marks put on a frame leave it a frame.
LEMMA MarcoTipo ==
  ASSUME NEW m \in Marco
  PROVE  /\ Limpio(m) \in Marco /\ SinPagina(m) \in Marco
         /\ \A u \in {0, 1} : [m EXCEPT !.U = u] \in Marco
         /\ reloj' \in Nat => Usado(m) \in Marco
<1>1. Limpio(m) \in Marco
  BY DEF Limpio, Marco
<1>2. \A k \in Marco : [k EXCEPT !.file = Nada] \in Marco
  BY DEF Marco
<1>3. SinPagina(m) \in Marco
  BY <1>1, <1>2 DEF SinPagina
<1>4. \A u \in {0, 1} : [m EXCEPT !.U = u] \in Marco
  BY DEF Marco
<1>5. reloj' \in Nat => Usado(m) \in Marco
  BY DEF Usado, Marco
<1> QED BY <1>1, <1>3, <1>4, <1>5

\* Each replacement algorithm finds a frame when none is free, and moves the
\* hand and the use bits inside their types.
LEMMA VictimaEsMarco ==
  ASSUME TypeOK, Libres = {}
  PROVE  /\ Victima \in Marcos /\ PunteroTrasElegir \in Marcos
         /\ TrasElegir \in [Marcos -> Marco]
<1>1. Ocupados = Marcos /\ Ocupados # {}
  BY Tamanos DEF Ocupados
<1>2. VictimaLRU \in Marcos
  <2> DEFINE f == [i \in Marcos |-> marcos[i].last_used]
             E == {i \in Ocupados :
                     \A j \in Ocupados : marcos[i].last_used =< marcos[j].last_used}
  <2>1. f \in [Marcos -> Nat]
    BY DEF TypeOK, Marco
  <2>2. PICK i \in Ocupados : \A j \in Ocupados : f[i] =< f[j]
    BY <1>1, <2>1, MenorValor
  <2>3. i \in E
    BY <1>1, <2>2
  <2>4. E \in SUBSET Nat /\ E # {} /\ E \subseteq Marcos
    BY <1>1, <2>3, Tamanos
  <2>5. Min(E) \in E
    BY <2>4, MinimoNat
  <2> QED BY <2>4, <2>5 DEF VictimaLRU
<1>3. ASSUME NEW S \in SUBSET Marcos, S # {} PROVE Primero(S) \in Marcos
  <2> DEFINE V == {Vuelta(i) : i \in S}
  <2>1. \A i \in S : Vuelta(i) \in Marcos
    <3>1. PUNTERO_RELOJ \in Int /\ \A i \in S : i \in Int
      BY Tamanos DEF TypeOK
    <3>2. \A i \in S : i + FRAMES - PUNTERO_RELOJ \in Int
      BY <3>1, Tamanos
    <3> QED BY <3>2, Tamanos DEF Vuelta
  <2>2. V \in SUBSET Nat /\ V # {}
    BY <1>3, <2>1, Tamanos
  <2>3. Min(V) \in Nat
    BY <2>2, MinimoNat
  <2>4. PUNTERO_RELOJ + Min(V) \in Int
    BY <2>3, Tamanos DEF TypeOK
  <2> QED BY <2>4, Tamanos DEF Primero, DesdePuntero
<1>4. VictimaCLOCKM \in Marcos
  <2>1. Clase(0, 0) \in SUBSET Marcos /\ Clase(0, 1) \in SUBSET Marcos
    BY <1>1 DEF Clase
  <2> QED BY <1>1, <1>3, <2>1 DEF VictimaCLOCKM
<1>5. Victima \in Marcos
  BY <1>2, <1>4 DEF Victima
<1>6. PunteroTrasElegir \in Marcos
  <2>1. VictimaCLOCKM + 1 \in Int
    BY <1>4, Tamanos
  <2> QED BY <2>1, Tamanos DEF PunteroTrasElegir, TypeOK
<1>7. TrasElegir \in [Marcos -> Marco]
  <2>1. \A i \in Marcos : marcos[i] \in Marco
    BY DEF TypeOK
  <2>2. \A i \in Marcos :
          [marcos[i] EXCEPT !.U = IF i \in Recorridos THEN 0 ELSE @] \in Marco
    BY <2>1 DEF Marco
  <2> QED BY <2>2 DEF TrasElegir, TypeOK
<1> QED BY <1>5, <1>6, <1>7

\* The frame a flush writes next is dirty, has a page, and belongs to the
\* File:Tag being flushed.
LEMMA SiguienteEsSucio ==
  ASSUME TypeOK, QuedanSucios
  PROVE  /\ Siguiente \in Marcos /\ marcos[Siguiente].dirty
         /\ ~marcos[Siguiente].libre /\ marcos[Siguiente].file \in FileTags
<1>1. \A f : Sucios(f) \in SUBSET Marcos /\ Sucios(f) \in SUBSET Nat
  BY Tamanos DEF Sucios
<1>2. \A f : Sucios(f) # {} => Min(Sucios(f)) \in Sucios(f)
  BY <1>1, MinimoNat
<1>3. \E f : Siguiente \in Sucios(f)
  BY <1>2 DEF Siguiente, QuedanSucios
<1> QED BY <1>3 DEF Sucios, TypeOK, Marco

\* The three parts of the type: frame table, instruction, Storage and history.
TiposMemoria == marcos \in [Marcos -> Marco] /\ PUNTERO_RELOJ \in Marcos
                /\ reloj \in Nat
TiposInstr ==
  /\ op \in {"listo"} \cup Accesos \cup Volcados
  /\ fileTag \in FileTags \cup {Nada}
  /\ dir \in 0..(NPAG * PAGE_SIZE) /\ fin \in 0..(NPAG * PAGE_SIZE)
  /\ valor \in Bytes \cup {Nada} /\ marco \in Marcos \cup {Nada}
  /\ salida \in [Direcciones -> Bytes \cup {Nada}] /\ rc \in {0, -1}
TiposStorage == /\ almacen \in [Paginas -> Bloques \cup {Nada}]
                /\ pendiente \in [Celdas -> Bytes \cup {Nada}]
                /\ antes \subseteq Marcos \X Marcos

LEMMA PartesDeTipos ==
  /\ TypeOK <=> TiposMemoria /\ TiposInstr /\ TiposStorage
  /\ TypeOK' <=> TiposMemoria' /\ TiposInstr' /\ TiposStorage'
BY DEF TypeOK, TiposMemoria, TiposInstr, TiposStorage

\* The end of an instruction forgets what it carried.
LEMMA TerminarTipo ==
  ASSUME NEW r \in {0, -1}, Terminar(r)
  PROVE  TiposInstr' /\ Curso' /\ marco' = Nada
<1>1. SinSalida \in [Direcciones -> Bytes \cup {Nada}]
  BY DEF SinSalida
<1>2. 0 \in 0..(NPAG * PAGE_SIZE)
  BY Tamanos
<1>3. op' = "listo" /\ marco' = Nada
  BY DEF Terminar
<1>4. TiposInstr'
  BY <1>1, <1>2, <1>3 DEF Terminar, TiposInstr
<1>5. Curso'
  BY <1>3 DEF Curso, Accesos
<1> QED BY <1>3, <1>4, <1>5

\* What Storage takes is a block.
LEMMA StorageTipo ==
  ASSUME TypeOK, NEW i \in Marcos, StorageEscribe(i), antes' = antes
  PROVE  TiposStorage'
<1>1. marcos[i].base \in Bloques \cup {Nada}
  BY DEF TypeOK, Marco
<1>2. almacen' = [almacen EXCEPT ![PaginaDe(i)] = marcos[i].base]
  BY DEF StorageEscribe
<1>3. almacen' \in [Paginas -> Bloques \cup {Nada}]
  BY <1>1, <1>2, Actualizar DEF TypeOK
<1>4. pendiente' \in [Celdas -> Bytes \cup {Nada}]
  BY DEF StorageEscribe, TypeOK
<1> QED BY <1>3, <1>4 DEF TiposStorage, TypeOK

\* An address still to access is one of the file, and so is its page.
LEMMA DirEnRango ==
  ASSUME TypeOK, dir < fin
  PROVE  /\ dir \in Nat /\ dir < NPAG * PAGE_SIZE
         /\ Pag(dir) \in 0..(NPAG - 1)
<1>1. dir \in Nat /\ fin \in Nat /\ fin =< NPAG * PAGE_SIZE
  BY Tamanos DEF TypeOK
<1>2. dir < NPAG * PAGE_SIZE
  BY <1>1, Tamanos
<1>3. Pag(dir) \in 0..(NPAG - 1)
  BY <1>1, <1>2, Tamanos, PagCota DEF Pag
<1> QED BY <1>1, <1>2, <1>3

\* The access goes on at the end of the page, or is over.
LEMMA DirSiguiente ==
  ASSUME TypeOK, dir < fin
  PROVE  Min({fin, (Pag(dir) + 1) * PAGE_SIZE}) \in 0..(NPAG * PAGE_SIZE)
<1> DEFINE n == (Pag(dir) + 1) * PAGE_SIZE
<1>1. Pag(dir) \in Nat /\ fin \in Nat /\ fin =< NPAG * PAGE_SIZE
  BY DirEnRango, Tamanos DEF TypeOK
<1>2. n \in Nat
  BY <1>1, Tamanos
<1>3. {fin, n} \in SUBSET Nat /\ {fin, n} # {}
  BY <1>1, <1>2
<1>4. Min({fin, n}) \in {fin, n} /\ Min({fin, n}) =< fin
  BY <1>3, MinimoNat
<1>5. Min({fin, n}) \in Nat
  BY <1>3, <1>4
<1> QED BY <1>1, <1>4, <1>5, Tamanos

LEMMA InitTipos == Init => Tipos
<1> SUFFICES ASSUME Init PROVE Tipos
  OBVIOUS
<1>1. TiposMemoria
  <2>1. 0 \in 0..(NPAG - 1)
    BY Tamanos
  <2>2. marcos \in [Marcos -> Marco]
    BY <2>1 DEF Init, Marco, Bloques
  <2> QED BY <2>2, Tamanos DEF Init, TiposMemoria
<1>2. TiposInstr
  <2>1. 0 \in 0..(NPAG * PAGE_SIZE)
    BY Tamanos
  <2> QED BY <2>1 DEF Init, TiposInstr, SinSalida
<1>3. TiposStorage
  BY DEF Init, TiposStorage
<1> QED BY <1>1, <1>2, <1>3, PartesDeTipos DEF Tipos, Init, Curso, Accesos

\* An instruction that starts.
LEMMA EmpezarTipo ==
  ASSUME Tipos, NEW o \in Accesos \cup Volcados, NEW f \in FileTags \cup {Nada},
         Empezar(o, f), dir' \in 0..(NPAG * PAGE_SIZE),
         fin' \in 0..(NPAG * PAGE_SIZE), valor' \in Bytes \cup {Nada},
         o \in Accesos => f \in FileTags, o = "WRITE" => valor' \in Bytes
  PROVE  Tipos'
<1>1. op = "listo" /\ op' = o /\ fileTag' = f
  BY DEF Empezar
<1>2. marco = Nada /\ marco' = Nada
  BY <1>1 DEF Empezar, Tipos, Curso, Accesos
<1>3. TiposMemoria' /\ TiposStorage'
  BY PartesDeTipos DEF Empezar, Tipos, varsMemoria, TiposMemoria, TiposStorage
<1>4. TiposInstr'
  BY <1>1, <1>2 DEF Empezar, Tipos, TypeOK, TiposInstr
<1>5. Curso'
  BY <1>1, <1>2 DEF Curso
<1> QED BY <1>3, <1>4, <1>5, PartesDeTipos DEF Tipos

LEMMA AccesoTipo ==
  ASSUME Tipos, NEW i \in Marcos, AccederTramo(i)
  PROVE  Tipos'
<1>1. /\ op \in Accesos /\ marco = Nada /\ dir < fin
      /\ fileTag \in FileTags /\ reloj \in Nat
  BY DEF AccederTramo, Tipos, Curso, TypeOK
<1>2. reloj' \in Nat
  BY <1>1, SupuestosMemoria DEF AccederTramo, PasaTiempo
<1>3. Usado(marcos[i]) \in Marco
  BY <1>2, MarcoTipo DEF Tipos, TypeOK
<1>4. dir' \in 0..(NPAG * PAGE_SIZE)
  BY <1>1, DirSiguiente DEF AccederTramo, Tipos
<1>5. /\ marcos' \in [Marcos -> Marco]
      /\ salida' \in [Direcciones -> Bytes \cup {Nada}]
      /\ pendiente' \in [Celdas -> Bytes \cup {Nada}]
  <2>1. CASE op = "WRITE"
    <3> DEFINE escritos == {Off(d) : d \in Tramo}
               base == [o \in Offsets |->
                          IF o \in escritos THEN valor ELSE marcos[i].base[o]]
               m == [Usado(marcos[i]) EXCEPT !.dirty = TRUE, !.M = 1, !.base = base]
    <3>1. valor \in Bytes
      BY <2>1 DEF Tipos, Curso
    <3>2. marcos[i].base \in [Offsets -> Bytes]
      BY DEF Tipos, TypeOK, Marco, Bloques
    <3>3. base \in Bloques
      BY <3>1, <3>2 DEF Bloques
    <3>4. m \in Marco
      <4> HIDE DEF base
      <4> QED BY <1>3, <3>3 DEF Marco
    <3>6. /\ marcos' = [marcos EXCEPT ![i] = m]
          /\ pendiente' = [c \in Celdas |->
               IF c[1] = PaginaDe(i) /\ c[2] \in escritos THEN valor
                                                         ELSE pendiente[c]]
          /\ salida' = salida
      BY <2>1 DEF AccederTramo
    <3>8. marcos' \in [Marcos -> Marco]
      <4> HIDE DEF m
      <4> QED BY <3>4, <3>6, Actualizar DEF Tipos, TypeOK
    <3>9. pendiente' \in [Celdas -> Bytes \cup {Nada}]
      <4> HIDE DEF escritos
      <4> QED BY <3>1, <3>6 DEF Tipos, TypeOK
    <3> QED BY <3>6, <3>8, <3>9 DEF Tipos, TypeOK
  <2>2. CASE op = "READ"
    <3>1. marcos' = [marcos EXCEPT ![i] = Usado(@)] /\ pendiente' = pendiente
      BY <2>2 DEF AccederTramo
    <3>2. marcos' \in [Marcos -> Marco]
      BY <1>3, <3>1, Actualizar DEF Tipos, TypeOK
    <3>3. salida' \in [Direcciones -> Bytes \cup {Nada}]
      <4>1. \A d \in Tramo : Off(d) \in Offsets
        <5>1. Tramo \subseteq Nat
          <6>1. dir \in Nat
            BY <1>1, DirEnRango DEF Tipos
          <6> QED BY <6>1 DEF Tramo
        <5> QED BY <5>1, Tamanos DEF Off
      <4>2. \A d \in Tramo : marcos[i].base[Off(d)] \in Bytes
        BY <4>1 DEF Tipos, TypeOK, Marco, Bloques
      <4>3. salida' = [d \in Direcciones |->
               IF d \in Tramo THEN marcos[i].base[Off(d)] ELSE salida[d]]
        BY <2>2 DEF AccederTramo
      <4> QED BY <4>2, <4>3 DEF Tipos, TypeOK
    <3> QED BY <3>1, <3>2, <3>3 DEF Tipos, TypeOK
  <2> QED BY <1>1, <2>1, <2>2 DEF Accesos
<1>6. antes' \subseteq Marcos \X Marcos
  BY DEF AccederTramo, Despues, Tipos, TypeOK
<1>7. /\ op' = op /\ fileTag' = fileTag /\ fin' = fin /\ valor' = valor
      /\ marco' = Nada /\ rc' = rc /\ almacen' = almacen
      /\ PUNTERO_RELOJ' = PUNTERO_RELOJ
  BY <1>1 DEF AccederTramo
<1>8. TiposMemoria'
  BY <1>2, <1>5, <1>7 DEF TiposMemoria, Tipos, TypeOK
<1>9. TiposInstr'
  BY <1>4, <1>5, <1>7 DEF TiposInstr, Tipos, TypeOK
<1>10. TiposStorage'
  BY <1>5, <1>6, <1>7 DEF TiposStorage, Tipos, TypeOK
<1>11. Curso'
  BY <1>7 DEF Curso, Tipos
<1> QED BY <1>8, <1>9, <1>10, <1>11, PartesDeTipos DEF Tipos

\* A miss: a free frame, or a victim whose page goes back to Storage.
LEMMA FaltaTipo ==
  ASSUME Tipos, TomarMarcoLibre \/ ReemplazarVictima \/ VictimaRechazada
  PROVE  Tipos'
<1>1. TiposMemoria /\ TiposInstr /\ TiposStorage /\ TypeOK
  BY PartesDeTipos DEF Tipos
<1>2. CASE TomarMarcoLibre
  <2>1. Libres \in SUBSET Nat /\ Libres # {} /\ Libres \subseteq Marcos
    BY <1>2, Tamanos DEF TomarMarcoLibre, Libres
  <2>2. Min(Libres) \in Marcos
    BY <2>1, MinimoNat
  <2>3. TiposMemoria' /\ TiposStorage'
    BY <1>1, <1>2 DEF TomarMarcoLibre, varsMemoria, TiposMemoria, TiposStorage
  <2>4. TiposInstr'
    BY <1>1, <1>2, <2>2 DEF TomarMarcoLibre, TiposInstr
  <2>5. Curso'
    BY <1>2 DEF TomarMarcoLibre, Falta, Tipos, Curso
  <2> QED BY <2>3, <2>4, <2>5, PartesDeTipos DEF Tipos
<1>3. CASE ReemplazarVictima
  <2>1. Victima \in Marcos /\ PunteroTrasElegir \in Marcos
        /\ TrasElegir \in [Marcos -> Marco]
    BY <1>1, <1>3, VictimaEsMarco DEF ReemplazarVictima
  <2>2. SinPagina(TrasElegir[Victima]) \in Marco
    BY <2>1, MarcoTipo
  <2>3. marcos' = [TrasElegir EXCEPT ![Victima] = SinPagina(TrasElegir[Victima])]
    BY <1>3 DEF ReemplazarVictima
  <2>4. marcos' \in [Marcos -> Marco]
    BY <2>1, <2>2, <2>3, Actualizar
  <2>5. TiposMemoria'
    BY <1>1, <1>3, <2>1, <2>4 DEF ReemplazarVictima, TiposMemoria
  <2>6. TiposInstr'
    BY <1>1, <1>3, <2>1 DEF ReemplazarVictima, TiposInstr
  <2>7. TiposStorage'
    <3>1. CASE marcos[Victima].dirty
      <4>1. StorageEscribe(Victima) /\ antes' = antes
        BY <1>3, <3>1 DEF ReemplazarVictima, FlushFrame
      <4> QED BY <1>1, <2>1, <4>1, StorageTipo
    <3>2. CASE ~marcos[Victima].dirty
      BY <1>1, <1>3, <3>2 DEF ReemplazarVictima, FlushFrame, TiposStorage
    <3> QED BY <3>1, <3>2
  <2>8. Curso'
    BY <1>3 DEF ReemplazarVictima, Falta, Tipos, Curso
  <2> QED BY <2>5, <2>6, <2>7, <2>8, PartesDeTipos DEF Tipos
<1>4. CASE VictimaRechazada
  <2>1. PunteroTrasElegir \in Marcos /\ TrasElegir \in [Marcos -> Marco]
    BY <1>1, <1>4, VictimaEsMarco DEF VictimaRechazada
  <2>2. TiposMemoria'
    BY <1>1, <1>4, <2>1 DEF VictimaRechazada, TiposMemoria
  <2>3. TiposStorage'
    BY <1>1, <1>4 DEF VictimaRechazada, StorageRechaza, TiposStorage
  <2>4. TiposInstr' /\ Curso'
    BY <1>4, TerminarTipo DEF VictimaRechazada
  <2> QED BY <2>2, <2>3, <2>4, PartesDeTipos DEF Tipos
<1> QED BY <1>2, <1>3, <1>4

LEMMA LlegadaTipo ==
  ASSUME Tipos, LlegaPagina
  PROVE  Tipos'
<1> DEFINE p == <<fileTag, Pag(dir)>>
           m == [libre |-> FALSE, file |-> p[1], pagina |-> p[2],
                 base |-> almacen[p], dirty |-> FALSE, U |-> 1, M |-> 0,
                 last_used |-> reloj']
<1>1. TiposMemoria /\ TiposInstr /\ TiposStorage /\ TypeOK
  BY PartesDeTipos DEF Tipos
<1>2. marco \in Marcos /\ dir < fin /\ fileTag \in FileTags
  BY <1>1 DEF LlegaPagina, Tipos, Curso, TiposInstr
<1>3. Pag(dir) \in 0..(NPAG - 1)
  BY <1>1, <1>2, DirEnRango
<1>4. p \in Paginas
  BY <1>2, <1>3 DEF Paginas
<1>5. almacen[p] \in Bloques
  BY <1>1, <1>4 DEF LlegaPagina, TiposStorage
<1>6. reloj' \in Nat
  BY <1>1, SupuestosMemoria DEF LlegaPagina, PasaTiempo, TiposMemoria
<1>7. m \in Marco
  BY <1>2, <1>3, <1>5, <1>6 DEF Marco
<1>8. marcos' = [marcos EXCEPT ![marco] = m]
  BY DEF LlegaPagina
<1>9. marcos' \in [Marcos -> Marco]
  <2> HIDE DEF m
  <2> QED BY <1>1, <1>7, <1>8, Actualizar DEF TiposMemoria
<1>10. TiposMemoria'
  BY <1>1, <1>6, <1>9 DEF LlegaPagina, TiposMemoria
<1>11. TiposInstr'
  BY <1>1 DEF LlegaPagina, TiposInstr
<1>12. TiposStorage'
  BY <1>1, <1>2 DEF LlegaPagina, TiposStorage, Despues
<1>13. Curso'
  BY DEF LlegaPagina, Tipos, Curso
<1> QED BY <1>10, <1>11, <1>12, <1>13, PartesDeTipos DEF Tipos

LEMMA FlushTipo ==
  ASSUME Tipos, FlushPagina
  PROVE  Tipos'
<1>1. TiposMemoria /\ TiposInstr /\ TiposStorage /\ TypeOK
  BY PartesDeTipos DEF Tipos
<1>2. Siguiente \in Marcos /\ marcos[Siguiente].file \in FileTags
  BY <1>1, SiguienteEsSucio DEF FlushPagina
<1>3. Limpio(marcos[Siguiente]) \in Marco
  BY <1>1, <1>2, MarcoTipo DEF TiposMemoria
<1>4. marcos' = [marcos EXCEPT ![Siguiente] = Limpio(marcos[Siguiente])]
  BY DEF FlushPagina
<1>5. marcos' \in [Marcos -> Marco]
  BY <1>1, <1>3, <1>4, Actualizar DEF TiposMemoria
<1>6. TiposMemoria'
  BY <1>1, <1>5 DEF FlushPagina, TiposMemoria
<1>7. TiposInstr'
  BY <1>1, <1>2 DEF FlushPagina, TiposInstr
<1>8. TiposStorage'
  BY <1>1, <1>2, StorageTipo DEF FlushPagina
<1>9. Curso'
  BY <1>2 DEF FlushPagina, Tipos, Curso
<1> QED BY <1>6, <1>7, <1>8, <1>9, PartesDeTipos DEF Tipos

\* The steps that leave the memory as it is.
LEMMA RestoTipo ==
  ASSUME Tipos,
         \/ \E f \in FileTags, base \in Direcciones, tam \in 0..(NPAG * PAGE_SIZE) :
              /\ base + tam =< NPAG * PAGE_SIZE
              /\ Read(f, base, tam) \/ \E v \in Bytes : Write(f, base, tam, v)
         \/ \E o \in Volcados, f \in FileTags \cup {Nada} : Volcar(o, f)
         \/ AccesoCompleto \/ LecturaRechazada \/ FlushRechazado
         \/ \E r \in {0, -1} : AvisarFlush(r) \/ AvisarDelete(r)
         \/ \E f \in FileTags, n \in 0..NPAG : Truncate(f, n)
         \/ \E p \in Paginas, b \in Bloques \cup {Nada} : CambioAjeno(p, b)
         \/ UNCHANGED vars
  PROVE  Tipos'
<1>1. TiposMemoria /\ TiposInstr /\ TiposStorage /\ TypeOK
  BY PartesDeTipos DEF Tipos
<1>2. ASSUME NEW f \in FileTags, NEW base \in Direcciones,
             NEW tam \in 0..(NPAG * PAGE_SIZE), base + tam =< NPAG * PAGE_SIZE
      PROVE  base \in 0..(NPAG * PAGE_SIZE) /\ base + tam \in 0..(NPAG * PAGE_SIZE)
  BY <1>2, Tamanos DEF Direcciones
<1>3. ASSUME NEW f \in FileTags, NEW base \in Direcciones,
             NEW tam \in 0..(NPAG * PAGE_SIZE), base + tam =< NPAG * PAGE_SIZE,
             Read(f, base, tam)
      PROVE  Tipos'
  <2>1. Empezar("READ", f) /\ dir' = base /\ fin' = base + tam /\ valor' = valor
    BY <1>3 DEF Read
  <2> QED BY <1>1, <1>2, <1>3, <2>1, EmpezarTipo DEF Accesos, TiposInstr
<1>4. ASSUME NEW f \in FileTags, NEW base \in Direcciones,
             NEW tam \in 0..(NPAG * PAGE_SIZE), base + tam =< NPAG * PAGE_SIZE,
             NEW v \in Bytes, Write(f, base, tam, v)
      PROVE  Tipos'
  <2>1. Empezar("WRITE", f) /\ dir' = base /\ fin' = base + tam /\ valor' = v
    BY <1>4 DEF Write
  <2> QED BY <1>2, <1>4, <2>1, EmpezarTipo DEF Accesos
<1>5. ASSUME NEW o \in Volcados, NEW f \in FileTags \cup {Nada}, Volcar(o, f)
      PROVE  Tipos'
  <2>1. Empezar(o, f) /\ dir' = dir /\ fin' = fin /\ valor' = valor
    BY <1>5 DEF Volcar
  <2>2. o \notin Accesos
    BY DEF Volcados, Accesos
  <2> QED BY <1>1, <2>1, <2>2, EmpezarTipo DEF TiposInstr, Accesos
<1>6. CASE AccesoCompleto \/ LecturaRechazada \/ FlushRechazado
  <2>1. \E r \in {0, -1} : Terminar(r)
    BY <1>6 DEF AccesoCompleto, LecturaRechazada, FlushRechazado
  <2>2. TiposMemoria' /\ TiposStorage'
    BY <1>1, <1>6 DEF AccesoCompleto, LecturaRechazada, FlushRechazado,
         StorageRechaza, varsMemoria, TiposMemoria, TiposStorage
  <2> QED BY <2>1, <2>2, TerminarTipo, PartesDeTipos DEF Tipos
<1>7. ASSUME NEW r \in {0, -1}, AvisarFlush(r) PROVE Tipos'
  <2>1. TiposMemoria' /\ TiposStorage'
    BY <1>1, <1>7 DEF AvisarFlush, varsMemoria, TiposMemoria, TiposStorage
  <2>2. Terminar(r)
    BY <1>7 DEF AvisarFlush
  <2> QED BY <2>1, <2>2, TerminarTipo, PartesDeTipos DEF Tipos
<1>8. ASSUME NEW r \in {0, -1}, AvisarDelete(r) PROVE Tipos'
  <2>1. TiposMemoria' /\ TiposStorage'
    BY <1>1, <1>8 DEF AvisarDelete, varsMemoria, TiposMemoria, TiposStorage
  <2>2. Terminar(r)
    BY <1>8 DEF AvisarDelete
  <2> QED BY <2>1, <2>2, TerminarTipo, PartesDeTipos DEF Tipos
<1>9. ASSUME NEW f \in FileTags, NEW n \in 0..NPAG, Truncate(f, n) PROVE Tipos'
  <2>1. almacen' \in [Paginas -> Bloques \cup {Nada}]
    BY <1>1, <1>9 DEF Truncate, TiposStorage
  <2>2. TiposMemoria' /\ TiposStorage'
    BY <1>1, <1>9, <2>1 DEF Truncate, varsMemoria, TiposMemoria, TiposStorage
  <2>3. TiposInstr'
    BY <1>1, <1>9 DEF Truncate, TiposInstr
  <2>4. Curso'
    BY <1>9 DEF Truncate, Tipos, Curso
  <2> QED BY <2>2, <2>3, <2>4, PartesDeTipos DEF Tipos
<1>10. ASSUME NEW p \in Paginas, NEW b \in Bloques \cup {Nada}, CambioAjeno(p, b)
       PROVE  Tipos'
  <2>1. almacen' \in [Paginas -> Bloques \cup {Nada}]
    BY <1>1, <1>10, Actualizar DEF CambioAjeno, TiposStorage
  <2>2. TiposMemoria' /\ TiposStorage'
    BY <1>1, <1>10, <2>1 DEF CambioAjeno, varsMemoria, TiposMemoria, TiposStorage
  <2>3. TiposInstr' /\ Curso'
    BY <1>1, <1>10 DEF CambioAjeno, varsInstr, TiposInstr, Tipos, Curso
  <2> QED BY <2>2, <2>3, PartesDeTipos DEF Tipos
<1>11. CASE UNCHANGED vars
  BY <1>1, <1>11, PartesDeTipos DEF vars, varsMemoria, varsInstr, TiposMemoria,
       TiposInstr, TiposStorage, Tipos, Curso
<1> QED BY <1>3, <1>4, <1>5, <1>6, <1>7, <1>8, <1>9, <1>10, <1>11

LEMMA PasoTipos == Tipos /\ [Next]_vars => Tipos'
BY AccesoTipo, FaltaTipo, LlegadaTipo, FlushTipo, RestoTipo DEF Next

\* Every reachable state of a Worker's memory is well typed: in particular both
\* replacement algorithms always find a victim, the hand stays in the table and
\* no page outside a file is loaded (memoria_Interna.c).
THEOREM MemoriaTipada == Spec => []TypeOK
<1>1. Spec => []Tipos
  BY InitTipos, PasoTipos, PTL DEF Spec
<1>2. Tipos => TypeOK
  BY DEF Tipos
<1> QED BY <1>1, <1>2, PTL

-----------------------------------------------------------------------------
(* The frame table. *)

\* The frame that waits for its page holds nothing, and the page is in no frame.
Espera == marco # Nada =>
  /\ ~marcos[marco].dirty
  /\ marcos[marco].libre \/ marcos[marco].file = Nada
  /\ \A i \in Marcos : ~FrameMatchea(i, fileTag, Pag(dir))

Tabla == TablaCoherente /\ Espera

Marcas(m) == /\ m.dirty <=> m.M = 1
             /\ m.dirty => ~m.libre /\ m.file # Nada

\* A step that brings no page keeps pages in one frame at most.
LEMMA SinPaginasNuevas ==
  ASSUME TablaCoherente,
         \A j \in Marcos :
           /\ ~marcos'[j].libre /\ marcos'[j].file # Nada =>
                /\ ~marcos[j].libre /\ marcos'[j].file = marcos[j].file
                /\ marcos'[j].pagina = marcos[j].pagina
           /\ Marcas(marcos'[j])
  PROVE  TablaCoherente'
BY DEF TablaCoherente, Ocupados, Libres, PaginaDe, Marcas

LEMMA TablaQuieta ==
  ASSUME Tabla, marcos' = marcos,
         marco' = Nada \/ UNCHANGED <<marco, fileTag, dir>>
  PROVE  Tabla'
<1>1. TablaCoherente'
  BY DEF Tabla, TablaCoherente, Ocupados, Libres, PaginaDe
<1>2. Espera'
  BY DEF Tabla, Espera, FrameMatchea, Pag
<1> QED BY <1>1, <1>2 DEF Tabla

LEMMA InitTabla == Init => Tabla
BY DEF Init, Tabla, TablaCoherente, Espera, Ocupados, Libres

LEMMA AccesoTabla ==
  ASSUME Tipos, Tabla, NEW i \in Marcos, AccederTramo(i)
  PROVE  Tabla'
<1>1. /\ marco' = Nada /\ fileTag \in FileTags /\ fileTag # Nada
      /\ FrameMatchea(i, fileTag, Pag(dir))
  BY SupuestosMemoria DEF AccederTramo, Tipos, Curso
<1>2. \A j \in Marcos : /\ marcos'[j].libre = marcos[j].libre
                        /\ marcos'[j].file = marcos[j].file
                        /\ marcos'[j].pagina = marcos[j].pagina
                        /\ Marcas(marcos'[j])
  <2>1. \A j \in Marcos : marcos[j] \in Marco /\ Marcas(marcos[j])
    BY DEF Tipos, TypeOK, Tabla, TablaCoherente, Marcas
  <2>2. marcos \in [Marcos -> Marco]
    BY DEF Tipos, TypeOK
  <2>3. CASE op = "WRITE"
    <3>1. PICK b : marcos' = [marcos EXCEPT ![i] =
              [Usado(marcos[i]) EXCEPT !.dirty = TRUE, !.M = 1, !.base = b]]
      BY <2>3 DEF AccederTramo
    <3>2. \A j \in Marcos \ {i} : marcos'[j] = marcos[j]
      BY <2>2, <3>1
    <3>3. marcos'[i] = [Usado(marcos[i]) EXCEPT !.dirty = TRUE, !.M = 1, !.base = b]
      BY <2>2, <3>1
    <3>4. /\ marcos'[i].libre = marcos[i].libre
          /\ marcos'[i].file = marcos[i].file
          /\ marcos'[i].pagina = marcos[i].pagina
          /\ marcos'[i].dirty = TRUE /\ marcos'[i].M = 1
      BY <2>1, <3>3 DEF Usado, Marco
    <3>5. Marcas(marcos'[i])
      BY <1>1, <3>4 DEF FrameMatchea, Marcas
    <3> QED BY <2>1, <3>2, <3>4, <3>5
  <2>4. CASE op = "READ"
    <3>1. marcos' = [marcos EXCEPT ![i] = Usado(marcos[i])]
      BY <2>4 DEF AccederTramo
    <3>2. \A j \in Marcos \ {i} : marcos'[j] = marcos[j]
      BY <2>2, <3>1
    <3>3. marcos'[i] = Usado(marcos[i])
      BY <2>2, <3>1
    <3>4. /\ marcos'[i].libre = marcos[i].libre
          /\ marcos'[i].file = marcos[i].file
          /\ marcos'[i].pagina = marcos[i].pagina
          /\ marcos'[i].dirty = marcos[i].dirty /\ marcos'[i].M = marcos[i].M
      BY <2>1, <3>3 DEF Usado, Marco
    <3>5. Marcas(marcos'[i])
      BY <2>1, <3>4 DEF Marcas
    <3> QED BY <2>1, <3>2, <3>4, <3>5
  <2> QED BY <2>3, <2>4 DEF AccederTramo, Accesos
<1>3. TablaCoherente'
  BY <1>2, SinPaginasNuevas DEF Tabla
<1> QED BY <1>1, <1>3 DEF Tabla, Espera

\* Choosing a victim changes use bits only.
LEMMA ElegirMarcas ==
  ASSUME TypeOK, NEW j \in Marcos
  PROVE  /\ TrasElegir[j].libre = marcos[j].libre
         /\ TrasElegir[j].file = marcos[j].file
         /\ TrasElegir[j].pagina = marcos[j].pagina
         /\ TrasElegir[j].base = marcos[j].base
         /\ TrasElegir[j].dirty = marcos[j].dirty /\ TrasElegir[j].M = marcos[j].M
<1>1. marcos[j] \in Marco
  BY DEF TypeOK
<1>2. TrasElegir[j] = marcos[j]
      \/ TrasElegir[j] = [marcos[j] EXCEPT !.U = IF j \in Recorridos THEN 0 ELSE @]
  BY DEF TrasElegir
<1> QED BY <1>1, <1>2 DEF Marco

LEMMA FaltaTabla ==
  ASSUME Tipos, Tabla, ReemplazarVictima \/ VictimaRechazada
  PROVE  Tabla'
<1>1. /\ Victima \in Marcos /\ TrasElegir \in [Marcos -> Marco] /\ TypeOK
      /\ \A j \in Marcos : Marcas(marcos[j])
  BY VictimaEsMarco DEF Tipos, ReemplazarVictima, VictimaRechazada, Tabla,
     TablaCoherente, Marcas
<1>2. \A j \in Marcos : Marcas(TrasElegir[j])
  BY <1>1, ElegirMarcas DEF Marcas
<1>3. CASE ReemplazarVictima
  <2> DEFINE v == Victima
             m == SinPagina(TrasElegir[v])
  <2>1. marcos' = [TrasElegir EXCEPT ![v] = m]
    BY <1>3 DEF ReemplazarVictima
  <2>2. marcos'[v] = m /\ \A j \in Marcos \ {v} : marcos'[j] = TrasElegir[j]
    BY <1>1, <2>1
  <2>3. /\ m.file = Nada /\ ~m.dirty /\ m.M = 0
    <3>1. TrasElegir[v] \in Marco /\ Marcas(TrasElegir[v])
      BY <1>1, <1>2
    <3>2. TrasElegir[v].M \in {0, 1} /\ TrasElegir[v].dirty \in BOOLEAN
      BY <3>1 DEF Marco
    <3> QED BY <3>1, <3>2 DEF SinPagina, Limpio, Marcas, Marco
  <2>4. Marcas(marcos'[v])
    BY <2>2, <2>3 DEF Marcas
  <2>5. TablaCoherente'
    <3>1. ASSUME NEW j \in Marcos
          PROVE  /\ ~marcos'[j].libre /\ marcos'[j].file # Nada =>
                      /\ ~marcos[j].libre /\ marcos'[j].file = marcos[j].file
                      /\ marcos'[j].pagina = marcos[j].pagina
                 /\ Marcas(marcos'[j])
      <4>1. CASE j = v
        BY <2>2, <2>3, <2>4, <4>1
      <4>2. CASE j # v
        <5> HIDE DEF v, m
        <5> QED BY <1>1, <1>2, <2>2, <4>2, ElegirMarcas
      <4> QED BY <4>1, <4>2
    <3> QED BY <3>1, SinPaginasNuevas DEF Tabla
  <2>6. Espera'
    <3>1. marco' = v /\ fileTag' = fileTag /\ dir' = dir
          /\ \A j \in Marcos : ~FrameMatchea(j, fileTag, Pag(dir))
      BY <1>3 DEF ReemplazarVictima, Falta
    <3>2. fileTag # Nada
      BY <1>3, SupuestosMemoria DEF ReemplazarVictima, Falta, Tipos, Curso
    <3>3. ASSUME NEW j \in Marcos PROVE ~FrameMatchea(j, fileTag, Pag(dir))'
      <4>1. CASE j = v
        <5>1. marcos'[j].file # fileTag'
          BY <2>2, <2>3, <3>1, <3>2, <4>1
        <5> QED BY <5>1 DEF FrameMatchea
      <4>2. CASE j # v
        <5> HIDE DEF v, m
        <5> QED BY <1>1, <2>2, <3>1, <4>2, ElegirMarcas DEF FrameMatchea, Pag
      <4> QED BY <4>1, <4>2
    <3>4. ~marcos'[marco'].dirty /\ marcos'[marco'].file = Nada
      BY <2>2, <2>3, <3>1
    <3> QED BY <3>3, <3>4 DEF Espera
  <2> QED BY <2>5, <2>6 DEF Tabla
<1>4. CASE VictimaRechazada
  <2>1. marcos' = TrasElegir /\ marco' = Nada
    BY <1>4 DEF VictimaRechazada, Terminar
  <2>2. TablaCoherente'
    BY <1>1, <1>2, <2>1, ElegirMarcas, SinPaginasNuevas DEF Tabla
  <2> QED BY <2>1, <2>2 DEF Tabla, Espera
<1> QED BY <1>3, <1>4

LEMMA LlegadaTabla ==
  ASSUME Tipos, Tabla, LlegaPagina
  PROVE  Tabla'
<1> DEFINE n == Pag(dir)
           m == [libre |-> FALSE, file |-> fileTag, pagina |-> n,
                 base |-> almacen[<<fileTag, n>>], dirty |-> FALSE, U |-> 1,
                 M |-> 0, last_used |-> reloj']
<1>1. /\ marco \in Marcos /\ marco' = Nada
      /\ \A i \in Marcos : ~FrameMatchea(i, fileTag, n)
      /\ marcos \in [Marcos -> Marco]
  BY DEF LlegaPagina, Tipos, TypeOK, Tabla, Espera
<1>2. /\ marcos' = [marcos EXCEPT ![marco] = m]
      /\ m.libre = FALSE /\ m.file = fileTag /\ m.pagina = n
      /\ m.dirty = FALSE /\ m.M = 0
  BY DEF LlegaPagina
<1> HIDE DEF m
<1>3. marcos'[marco] = m /\ \A j \in Marcos \ {marco} : marcos'[j] = marcos[j]
  BY <1>1, <1>2
<1>4. \A j \in Marcos : Marcas(marcos'[j])
  BY <1>1, <1>2, <1>3 DEF Tabla, TablaCoherente, Marcas
<1>5. ASSUME NEW i \in Marcos, NEW j \in Marcos, i # j,
             ~marcos'[i].libre, ~marcos'[j].libre, marcos'[i].file # Nada,
             marcos'[i].file = marcos'[j].file, marcos'[i].pagina = marcos'[j].pagina
      PROVE  FALSE
  <2>1. CASE i = marco
    BY <1>1, <1>2, <1>3, <1>5, <2>1 DEF FrameMatchea
  <2>2. CASE j = marco
    BY <1>1, <1>2, <1>3, <1>5, <2>2 DEF FrameMatchea
  <2>3. CASE i # marco /\ j # marco
    BY <1>3, <1>5, <2>3 DEF Tabla, TablaCoherente, Ocupados, Libres, PaginaDe
  <2> QED BY <2>1, <2>2, <2>3
<1>6. TablaCoherente'
  <2> HIDE DEF n
  <2> QED BY <1>4, <1>5 DEF TablaCoherente, Ocupados, Libres, PaginaDe, Marcas
<1> QED BY <1>1, <1>6 DEF Tabla, Espera

LEMMA FlushTabla ==
  ASSUME Tipos, Tabla, FlushPagina
  PROVE  Tabla'
<1> DEFINE s == Siguiente
           m == Limpio(marcos[s])
<1>1. s \in Marcos /\ marcos \in [Marcos -> Marco] /\ marcos[s] \in Marco
  BY SiguienteEsSucio DEF Tipos, TypeOK, FlushPagina
<1>2. marcos' = [marcos EXCEPT ![s] = m]
  BY DEF FlushPagina
<1>3. marcos'[s] = m /\ \A j \in Marcos \ {s} : marcos'[j] = marcos[j]
  BY <1>1, <1>2
<1>4. /\ m.libre = marcos[s].libre /\ m.file = marcos[s].file
      /\ m.pagina = marcos[s].pagina /\ m.dirty = FALSE /\ m.M = 0
  <2> HIDE DEF s
  <2> QED BY <1>1 DEF Limpio, Marco
<1>5. ASSUME NEW j \in Marcos
      PROVE  /\ marcos'[j].libre = marcos[j].libre
             /\ marcos'[j].file = marcos[j].file
             /\ marcos'[j].pagina = marcos[j].pagina
             /\ Marcas(marcos'[j])
  <2> HIDE DEF s, m
  <2> QED BY <1>3, <1>4 DEF Tabla, TablaCoherente, Marcas
<1>6. TablaCoherente'
  <2> HIDE DEF s, m
  <2> QED BY <1>5, SinPaginasNuevas DEF Tabla
<1>7. marco = Nada /\ marco' = marco
  BY DEF FlushPagina, Tipos, Curso, Accesos, Volcados
<1> QED BY <1>6, <1>7 DEF Tabla, Espera

LEMMA PasoTabla == Tipos /\ Tabla /\ [Next]_vars => Tabla'
<1> SUFFICES ASSUME Tipos, Tabla, [Next]_vars PROVE Tabla'
  OBVIOUS
<1>1. ASSUME NEW f \in FileTags, NEW base \in Direcciones,
             NEW tam \in 0..(NPAG * PAGE_SIZE),
             Read(f, base, tam) \/ \E v \in Bytes : Write(f, base, tam, v)
      PROVE  Tabla'
  <2>1. \E o : Empezar(o, f)
    BY <1>1 DEF Read, Write
  <2>2. marcos' = marcos /\ marco' = Nada
    BY <2>1 DEF Empezar, varsMemoria, Tipos, Curso, Accesos
  <2> QED BY <2>2, TablaQuieta
<1>2. ASSUME NEW o \in Volcados, NEW f \in FileTags \cup {Nada}, Volcar(o, f)
      PROVE  Tabla'
  <2>1. marcos' = marcos /\ marco' = Nada
    BY <1>2 DEF Volcar, Empezar, varsMemoria, Tipos, Curso, Accesos
  <2> QED BY <2>1, TablaQuieta
<1>3. CASE TomarMarcoLibre
  <2>1. marcos' = marcos /\ fileTag' = fileTag /\ dir' = dir
    BY <1>3 DEF TomarMarcoLibre, varsMemoria
  <2>2. TablaCoherente'
    BY <2>1 DEF Tabla, TablaCoherente, Ocupados, Libres, PaginaDe
  <2>3. Libres \in SUBSET Nat /\ Libres # {}
    BY <1>3, Tamanos DEF TomarMarcoLibre, Libres
  <2>4. marco' \in Libres
    BY <1>3, <2>3, MinimoNat DEF TomarMarcoLibre
  <2>5. marcos[marco'].libre /\ ~marcos[marco'].dirty
    BY <2>4 DEF Libres, Tabla, TablaCoherente
  <2>6. Espera'
    BY <1>3, <2>1, <2>5 DEF TomarMarcoLibre, Falta, Espera, FrameMatchea, Pag
  <2> QED BY <2>2, <2>6 DEF Tabla
<1>4. CASE AccesoCompleto \/ LecturaRechazada \/ FlushRechazado
           \/ \E r \in {0, -1} : AvisarFlush(r) \/ AvisarDelete(r)
  <2>1. marcos' = marcos /\ marco' = Nada
    BY <1>4 DEF AccesoCompleto, LecturaRechazada, FlushRechazado, AvisarFlush,
         AvisarDelete, Terminar, varsMemoria
  <2> QED BY <2>1, TablaQuieta
<1>5. CASE \/ \E f \in FileTags, n \in 0..NPAG : Truncate(f, n)
           \/ \E p \in Paginas, b \in Bloques \cup {Nada} : CambioAjeno(p, b)
           \/ UNCHANGED vars
  <2>1. marcos' = marcos /\ UNCHANGED <<marco, fileTag, dir>>
    BY <1>5 DEF Truncate, CambioAjeno, vars, varsMemoria, varsInstr
  <2> QED BY <2>1, TablaQuieta
<1> QED BY <1>1, <1>2, <1>3, <1>4, <1>5, AccesoTabla, FaltaTabla, LlegadaTabla,
        FlushTabla DEF Next

\* A page is in one frame at most and the marks of a frame agree, whatever calls
\* Storage refuses: traer_pagina and the flushes leave no frame half changed.
THEOREM TablaSiempreCoherente == Spec => []TablaCoherente
<1>1. Tipos /\ Tabla /\ [Next]_vars => Tipos' /\ Tabla'
  BY PasoTipos, PasoTabla
<1>2. Spec => [](Tipos /\ Tabla)
  BY InitTipos, InitTabla, <1>1, PTL DEF Spec
<1>3. Tabla => TablaCoherente
  BY DEF Tabla
<1> QED BY <1>2, <1>3, PTL
-----------------------------------------------------------------------------
(* Nothing written is lost. *)

\* Frame j holds the byte of cell c that Storage has not taken.
Guarda(j, c) == /\ j \in Ocupados /\ marcos[j].dirty /\ PaginaDe(j) = c[1]
                /\ marcos[j].base[c[2]] = pendiente[c]

MismaPagina(m, n) == /\ m.libre = n.libre /\ m.file = n.file
                     /\ m.pagina = n.pagina /\ m.base = n.base
                     /\ m.dirty = n.dirty

\* Nothing is lost by a step that writes no byte and leaves alone the frames
\* that hold a byte still to be written.
LEMMA NadaNuevo ==
  ASSUME NadaSePierde,
         \A c \in Celdas : pendiente'[c] \in {Nada, pendiente[c]},
         \A c \in Celdas, j \in Marcos :
           Guarda(j, c) /\ pendiente'[c] # Nada
             => MismaPagina(marcos'[j], marcos[j])
  PROVE  NadaSePierde'
<1> SUFFICES ASSUME NEW c \in Celdas, pendiente'[c] # Nada
             PROVE  \E i \in Marcos : Guarda(i, c)'
  BY DEF NadaSePierde, Guarda, Ocupados
<1>1. pendiente'[c] = pendiente[c]
  OBVIOUS
<1>2. PICK i \in Marcos : Guarda(i, c)
  BY <1>1 DEF NadaSePierde, Guarda, Ocupados
<1>3. MismaPagina(marcos'[i], marcos[i])
  BY <1>2
<1> QED
  BY <1>1, <1>2, <1>3 DEF Guarda, MismaPagina, Ocupados, Libres, PaginaDe

LEMMA NadaQuieto ==
  ASSUME NadaSePierde, marcos' = marcos, pendiente' = pendiente
  PROVE  NadaSePierde'
BY NadaNuevo DEF MismaPagina

\* The bytes Storage takes with a block are the ones the frame held.
LEMMA StorageToma ==
  ASSUME NEW i \in Marcos, StorageEscribe(i), NEW c \in Celdas
  PROVE  /\ pendiente'[c] \in {Nada, pendiente[c]}
         /\ Guarda(i, c) => pendiente'[c] = Nada
BY DEF StorageEscribe, Guarda

LEMMA InitNada == Init => NadaSePierde
BY DEF Init, NadaSePierde

LEMMA AccesoNada ==
  ASSUME Tipos, NadaSePierde, NEW i \in Marcos, AccederTramo(i)
  PROVE  NadaSePierde'
<1>1. marcos \in [Marcos -> Marco] /\ marcos[i] \in Marco
  BY DEF Tipos, TypeOK
<1>2. CASE op = "READ"
  <2>1. marcos' = [marcos EXCEPT ![i] = Usado(marcos[i])] /\ pendiente' = pendiente
    BY <1>2 DEF AccederTramo
  <2>2. MismaPagina(Usado(marcos[i]), marcos[i])
    BY <1>1 DEF Usado, Marco, MismaPagina
  <2>3. \A j \in Marcos : MismaPagina(marcos'[j], marcos[j])
    BY <1>1, <2>1, <2>2 DEF MismaPagina
  <2> QED BY <2>1, <2>3, NadaNuevo
<1>3. CASE op = "WRITE"
  <2> DEFINE E == {Off(d) : d \in Tramo}
             b == [o \in Offsets |-> IF o \in E THEN valor
                                     ELSE marcos[i].base[o]]
             m == [Usado(marcos[i]) EXCEPT !.dirty = TRUE, !.M = 1, !.base = b]
  <2>1. /\ marcos' = [marcos EXCEPT ![i] = m]
        /\ pendiente' = [c \in Celdas |->
             IF c[1] = PaginaDe(i) /\ c[2] \in E THEN valor ELSE pendiente[c]]
        /\ ~marcos[i].libre
    BY <1>3 DEF AccederTramo, FrameMatchea
  <2>2. marcos'[i] = m /\ \A j \in Marcos \ {i} : marcos'[j] = marcos[j]
    BY <1>1, <2>1
  <2>3. /\ m.libre = FALSE /\ m.file = marcos[i].file
        /\ m.pagina = marcos[i].pagina /\ m.dirty = TRUE /\ m.base = b
    <3> HIDE DEF b
    <3> QED BY <1>1, <2>1 DEF Usado, Marco
  <2>4. SUFFICES ASSUME NEW c \in Celdas, pendiente'[c] # Nada
                 PROVE  \E j \in Marcos : Guarda(j, c)'
    BY DEF NadaSePierde, Guarda, Ocupados
  <2>5. c[2] \in Offsets
    BY DEF Celdas
  <2> HIDE DEF m, E
  <2>6. CASE c[1] = PaginaDe(i) /\ c[2] \in E
    <3>1. pendiente'[c] = valor /\ marcos'[i].base[c[2]] = valor
      BY <2>1, <2>2, <2>3, <2>5, <2>6
    <3>2. Guarda(i, c)'
      BY <2>2, <2>3, <2>6, <3>1 DEF Guarda, Ocupados, Libres, PaginaDe
    <3> QED BY <3>2
  <2>7. CASE ~(c[1] = PaginaDe(i) /\ c[2] \in E)
    <3>1. pendiente'[c] = pendiente[c]
      BY <2>1, <2>7
    <3>2. PICK j \in Marcos : Guarda(j, c)
      BY <2>4, <3>1 DEF NadaSePierde, Guarda, Ocupados
    <3>3. CASE j # i
      BY <2>2, <3>1, <3>2, <3>3 DEF Guarda, Ocupados, Libres, PaginaDe
    <3>4. CASE j = i
      <4>1. marcos'[i].base[c[2]] = marcos[i].base[c[2]]
        BY <2>2, <2>3, <2>5, <2>7, <3>2, <3>4 DEF Guarda
      <4>2. Guarda(i, c)'
        BY <2>2, <2>3, <3>1, <3>2, <3>4, <4>1
        DEF Guarda, Ocupados, Libres, PaginaDe
      <4> QED BY <4>2
    <3> QED BY <3>3, <3>4
  <2> QED BY <2>6, <2>7
<1> QED BY <1>2, <1>3 DEF AccederTramo, Accesos

LEMMA FaltaNada ==
  ASSUME Tipos, NadaSePierde, ReemplazarVictima \/ VictimaRechazada
  PROVE  NadaSePierde'
<1>1. Victima \in Marcos /\ TrasElegir \in [Marcos -> Marco] /\ TypeOK
  BY VictimaEsMarco DEF Tipos, ReemplazarVictima, VictimaRechazada
<1>2. \A j \in Marcos : MismaPagina(TrasElegir[j], marcos[j])
  BY <1>1, ElegirMarcas DEF MismaPagina
<1>3. CASE ReemplazarVictima
  <2> DEFINE v == Victima
  <2>1. \A j \in Marcos \ {v} : marcos'[j] = TrasElegir[j]
    BY <1>1, <1>3 DEF ReemplazarVictima
  <2>2. FlushFrame(v)
    BY <1>3 DEF ReemplazarVictima
  <2> HIDE DEF v
  <2>3. ASSUME NEW c \in Celdas
        PROVE  /\ pendiente'[c] \in {Nada, pendiente[c]}
               /\ Guarda(v, c) => pendiente'[c] = Nada
    <3>1. v \in Marcos
      BY <1>1 DEF v
    <3> QED BY <2>2, <3>1, StorageToma DEF FlushFrame, Guarda
  <2>4. ASSUME NEW c \in Celdas, NEW j \in Marcos, Guarda(j, c),
               pendiente'[c] # Nada
        PROVE  MismaPagina(marcos'[j], marcos[j])
    BY <1>2, <2>1, <2>3, <2>4
  <2> QED BY <2>3, <2>4, NadaNuevo
<1>4. CASE VictimaRechazada
  <2>1. marcos' = TrasElegir /\ pendiente' = pendiente
    BY <1>4 DEF VictimaRechazada, StorageRechaza
  <2> QED BY <1>2, <2>1, NadaNuevo
<1> QED BY <1>3, <1>4

\* A page arrives in a frame that is not dirty.
LEMMA LlegadaNada ==
  ASSUME Tipos, Tabla, NadaSePierde, LlegaPagina
  PROVE  NadaSePierde'
<1>1. ~marcos[marco].dirty /\ pendiente' = pendiente
  BY DEF LlegaPagina, Tabla, Espera
<1>2. \A j \in Marcos \ {marco} : marcos'[j] = marcos[j]
  BY DEF LlegaPagina, Tipos, TypeOK
<1>3. \A c \in Celdas, j \in Marcos :
        Guarda(j, c) => MismaPagina(marcos'[j], marcos[j])
  BY <1>1, <1>2 DEF Guarda, MismaPagina
<1> QED BY <1>1, <1>3, NadaNuevo

LEMMA FlushNada ==
  ASSUME Tipos, NadaSePierde, FlushPagina
  PROVE  NadaSePierde'
<1> DEFINE s == Siguiente
<1>1. s \in Marcos /\ StorageEscribe(s)
  BY SiguienteEsSucio DEF Tipos, TypeOK, FlushPagina
<1>2. \A j \in Marcos \ {s} : marcos'[j] = marcos[j]
  BY <1>1 DEF FlushPagina, Tipos, TypeOK
<1> HIDE DEF s
<1>3. \A c \in Celdas : /\ pendiente'[c] \in {Nada, pendiente[c]}
                        /\ Guarda(s, c) => pendiente'[c] = Nada
  BY <1>1, StorageToma
<1>4. \A c \in Celdas, j \in Marcos : Guarda(j, c) /\ pendiente'[c] # Nada
        => MismaPagina(marcos'[j], marcos[j])
  BY <1>2, <1>3 DEF MismaPagina
<1> QED BY <1>3, <1>4, NadaNuevo

LEMMA PasoNada == Tipos /\ Tabla /\ NadaSePierde /\ [Next]_vars => NadaSePierde'
<1> SUFFICES ASSUME Tipos, Tabla, NadaSePierde, [Next]_vars PROVE NadaSePierde'
  OBVIOUS
<1>1. ASSUME NEW f \in FileTags, NEW base \in Direcciones,
             NEW tam \in 0..(NPAG * PAGE_SIZE),
             Read(f, base, tam) \/ \E v \in Bytes : Write(f, base, tam, v)
      PROVE  NadaSePierde'
  BY <1>1, NadaQuieto DEF Read, Write, Empezar, varsMemoria
<1>2. ASSUME NEW o \in Volcados, NEW f \in FileTags \cup {Nada}, Volcar(o, f)
      PROVE  NadaSePierde'
  BY <1>2, NadaQuieto DEF Volcar, Empezar, varsMemoria
<1>3. CASE TomarMarcoLibre \/ AccesoCompleto \/ LecturaRechazada \/ FlushRechazado
  BY <1>3, NadaQuieto DEF TomarMarcoLibre, AccesoCompleto, LecturaRechazada,
     FlushRechazado, StorageRechaza, varsMemoria
<1>4. CASE \E r \in {0, -1} : AvisarFlush(r) \/ AvisarDelete(r)
  BY <1>4, NadaQuieto DEF AvisarFlush, AvisarDelete, varsMemoria
<1>5. CASE \/ \E f \in FileTags, n \in 0..NPAG : Truncate(f, n)
           \/ \E p \in Paginas, b \in Bloques \cup {Nada} : CambioAjeno(p, b)
           \/ UNCHANGED vars
  BY <1>5, NadaQuieto DEF Truncate, CambioAjeno, vars, varsMemoria
<1> QED BY <1>1, <1>2, <1>3, <1>4, <1>5, AccesoNada, FaltaNada, LlegadaNada,
        FlushNada DEF Next

\* Every byte a WRITE stored is in a dirty frame until Storage has taken it:
\* replacing a frame (memoria_Interna.c:261), failing half way through a flush
\* (386) or a refused read (276) drops none.
THEOREM EscriturasConservadas == Spec => []NadaSePierde
<1>1. Tipos /\ Tabla /\ NadaSePierde /\ [Next]_vars
        => Tipos' /\ Tabla' /\ NadaSePierde'
  BY PasoTipos, PasoTabla, PasoNada
<1>2. Spec => [](Tipos /\ Tabla /\ NadaSePierde)
  BY InitTipos, InitTabla, InitNada, <1>1, PTL DEF Spec
<1> QED BY <1>2, PTL

\* A flush that succeeds has left nothing of its File:Tag behind.
LEMMA SinSuciosNadaPendiente ==
  ASSUME NadaSePierde, NEW f, Sucios(f) = {}, NEW c \in Celdas,
         f \in {Nada, c[1][1]}
  PROVE  pendiente[c] = Nada
<1> SUFFICES ASSUME pendiente[c] # Nada PROVE FALSE
  OBVIOUS
<1>1. PICK i \in Ocupados : marcos[i].dirty /\ PaginaDe(i) = c[1]
  BY DEF NadaSePierde
<1>2. c[1][1] \in FileTags /\ c[1][1] # Nada
  BY SupuestosMemoria DEF Celdas, Paginas
<1>3. marcos[i].file = c[1][1]
  BY <1>1 DEF PaginaDe
<1> QED BY <1>1, <1>2, <1>3 DEF Sucios, Ocupados, Libres

LEMMA PasoVolcado ==
  ASSUME Tipos, NadaSePierde, Next, op \in Volcados, op' = "listo", rc' = 0,
         NEW c \in Celdas, op = "DESALOJO" \/ c[1][1] = fileTag
  PROVE  pendiente[c] = Nada
<1>1. \/ FlushRechazado
      \/ \E r \in {0, -1} : AvisarFlush(r) \/ AvisarDelete(r)
  BY DEF Next, Read, Write, Volcar, Empezar, AccederTramo, AccesoCompleto,
     TomarMarcoLibre, ReemplazarVictima, VictimaRechazada, Falta, LlegaPagina,
     LecturaRechazada, FlushPagina, Truncate, CambioAjeno, Accesos, Volcados,
     varsInstr
<1>2. ~FlushRechazado
  BY DEF FlushRechazado, Terminar
<1>3. ~QuedanSucios
  BY <1>1, <1>2 DEF AvisarFlush, AvisarDelete
<1>4. CASE op = "DESALOJO"
  BY <1>3, <1>4, SinSuciosNadaPendiente DEF QuedanSucios
<1>5. CASE op # "DESALOJO"
  BY <1>3, <1>5, SinSuciosNadaPendiente DEF QuedanSucios
<1> QED BY <1>4, <1>5

\* FLUSH, COMMIT, DELETE and the flush before a preemption succeed only when
\* Storage has every byte this Worker wrote to the File:Tag (to any, for a
\* preemption): flush_filetag and flush_todos_filetags_modificados.
THEOREM VolcadosCompletos == Spec => VolcadoCompleto
<1>1. Tipos /\ NadaSePierde /\ [Next]_vars =>
        [op' = "listo" /\ rc' = 0 /\ op \in Volcados =>
           \A c \in Celdas : op = "DESALOJO" \/ c[1][1] = fileTag
                               => pendiente[c] = Nada]_vars
  <2> SUFFICES ASSUME Tipos, NadaSePierde, Next, op \in Volcados, op' = "listo",
                      rc' = 0, NEW c \in Celdas,
                      op = "DESALOJO" \/ c[1][1] = fileTag
               PROVE  pendiente[c] = Nada
    OBVIOUS
  <2> QED BY PasoVolcado
<1>2. Tipos /\ Tabla /\ NadaSePierde /\ [Next]_vars
        => Tipos' /\ Tabla' /\ NadaSePierde'
  BY PasoTipos, PasoTabla, PasoNada
<1> QED BY InitTipos, InitTabla, InitNada, <1>1, <1>2, PTL DEF Spec, VolcadoCompleto

-----------------------------------------------------------------------------
(* The victim. *)

\* The page of frame j was just brought, and the next access is to it.
Recien(j) == /\ op \in Accesos /\ marco = Nada /\ dir < fin
             /\ FrameMatchea(j, fileTag, Pag(dir))

\* Under LRU last_used tells which of two frames was accessed first; a page may
\* arrive in the millisecond of the access before it, which is no longer so
\* when the next victim is chosen.
Recencia ==
  /\ \A i \in Ocupados : marcos[i].last_used =< reloj
  /\ \A i, j \in Ocupados :
       i # j => <<i, j>> \in antes \/ <<j, i>> \in antes
  /\ \A i, j \in Ocupados : i # j /\ <<i, j>> \in antes =>
       \/ marcos[i].last_used < marcos[j].last_used
       \/ marcos[i].last_used = marcos[j].last_used /\ Recien(j)

LEMMA RecenciaQuieta ==
  ASSUME Recencia, \A j \in Marcos : ~Recien(j), UNCHANGED <<antes, reloj>>,
         \A j \in Marcos : /\ marcos'[j].libre = marcos[j].libre
                           /\ marcos'[j].last_used = marcos[j].last_used
  PROVE  Recencia'
BY DEF Recencia, Ocupados, Libres

LEMMA AccesoRecencia ==
  ASSUME Tipos, Tabla, Recencia, RETARDO = 1, NEW k \in Marcos, AccederTramo(k)
  PROVE  Recencia'
<1>1. /\ FrameMatchea(k, fileTag, Pag(dir)) /\ fileTag \in FileTags
      /\ reloj' = reloj + 1 /\ antes' = Despues(k)
  BY DEF AccederTramo, PasaTiempo, Tipos, Curso
<1>2. marcos \in [Marcos -> Marco] /\ marcos[k] \in Marco /\ reloj \in Nat
  BY DEF Tipos, TypeOK
<1>3. /\ \A j \in Marcos \ {k} : marcos'[j] = marcos[j]
      /\ marcos'[k].libre = marcos[k].libre /\ marcos'[k].last_used = reloj + 1
  <2>1. CASE op = "READ"
    <3>1. marcos' = [marcos EXCEPT ![k] = Usado(marcos[k])]
      BY <2>1 DEF AccederTramo
    <3> QED BY <1>1, <1>2, <3>1 DEF Usado, Marco
  <2>2. CASE op = "WRITE"
    <3>1. PICK b : marcos' = [marcos EXCEPT ![k] =
              [Usado(marcos[k]) EXCEPT !.dirty = TRUE, !.M = 1, !.base = b]]
      BY <2>2 DEF AccederTramo
    <3> QED BY <1>1, <1>2, <3>1 DEF Usado, Marco
  <2> QED BY <2>1, <2>2 DEF AccederTramo, Accesos
<1>4. Ocupados' = Ocupados /\ k \in Ocupados
  BY <1>1, <1>3 DEF Ocupados, Libres, FrameMatchea
<1>5. \A j \in Marcos : marcos[j].last_used \in Nat
  BY <1>2 DEF Marco
<1>6. \A j \in Ocupados : Recien(j) => j = k
  <2> SUFFICES ASSUME NEW j \in Ocupados, Recien(j) PROVE j = k
    OBVIOUS
  <2>1. fileTag # Nada
    BY <1>1, SupuestosMemoria
  <2>2. /\ marcos[j].file = fileTag /\ marcos[j].pagina = Pag(dir)
        /\ marcos[k].file = fileTag /\ marcos[k].pagina = Pag(dir)
    BY <1>1 DEF Recien, FrameMatchea
  <2>3. PaginaDe(j) = PaginaDe(k)
    BY <2>2 DEF PaginaDe
  <2> QED BY <1>4, <2>1, <2>2, <2>3 DEF Tabla, TablaCoherente
<1>7. \A i, j \in Ocupados :
        <<i, j>> \in antes' <=> (i # k /\ j = k) \/ (i # k /\ j # k /\ <<i, j>> \in antes)
  BY <1>1 DEF Despues, Ocupados
<1>8. \A i \in Ocupados : marcos'[i].last_used =< reloj'
  BY <1>1, <1>2, <1>3, <1>5 DEF Recencia, Ocupados
<1>9. \A i, j \in Ocupados : i # j => <<i, j>> \in antes' \/ <<j, i>> \in antes'
  BY <1>7 DEF Recencia
<1>10. ASSUME NEW i \in Ocupados, NEW j \in Ocupados, i # j, <<i, j>> \in antes'
       PROVE  marcos'[i].last_used < marcos'[j].last_used
  <2>1. CASE j = k
    BY <1>2, <1>3, <1>5, <1>10, <2>1 DEF Recencia, Ocupados
  <2>2. CASE j # k
    BY <1>3, <1>5, <1>6, <1>7, <1>10, <2>2 DEF Recencia, Ocupados
  <2> QED BY <2>1, <2>2
<1> QED BY <1>4, <1>8, <1>9, <1>10 DEF Recencia

LEMMA LlegadaRecencia ==
  ASSUME Tipos, Recencia, LlegaPagina
  PROVE  Recencia'
<1>0. PICK k \in Marcos : k = marco
  BY DEF LlegaPagina, Tipos, TypeOK
<1>1. /\ k = marco /\ k # Nada /\ marco' = Nada /\ antes' = Despues(k)
      /\ reloj' \in Nat /\ reloj \in Nat /\ reloj =< reloj'
      /\ marcos \in [Marcos -> Marco]
  BY <1>0 DEF LlegaPagina, PasaTiempo, Tipos, TypeOK
<1>2. /\ \A j \in Marcos \ {k} : marcos'[j] = marcos[j]
      /\ marcos'[k].libre = FALSE /\ marcos'[k].last_used = reloj'
      /\ marcos'[k].file = fileTag /\ marcos'[k].pagina = Pag(dir)
  BY <1>0, <1>1 DEF LlegaPagina
<1>3. Recien(k)'
  BY <1>1, <1>2 DEF LlegaPagina, Tipos, Curso, Recien, FrameMatchea, Pag
<1>4. \A j \in Marcos : ~Recien(j)
  BY <1>1 DEF Recien
<1>5. Ocupados' = Ocupados \cup {k}
  BY <1>1, <1>2 DEF Ocupados, Libres
<1>6. \A j \in Marcos : marcos[j].last_used \in Nat
  BY <1>1 DEF Marco
<1>7. \A i, j \in Marcos :
        <<i, j>> \in antes' <=> (i # k /\ j = k) \/ (i # k /\ j # k /\ <<i, j>> \in antes)
  BY <1>1 DEF Despues
<1>8. \A i \in Ocupados' : i \in Marcos
  BY <1>1, <1>5 DEF Ocupados
<1>9. \A i \in Ocupados' : marcos'[i].last_used =< reloj'
  BY <1>1, <1>2, <1>5, <1>6 DEF Recencia, Ocupados
<1>10. \A i, j \in Ocupados' : i # j => <<i, j>> \in antes' \/ <<j, i>> \in antes'
  BY <1>5, <1>7, <1>8 DEF Recencia
<1>11. ASSUME NEW i \in Ocupados', NEW j \in Ocupados', i # j, <<i, j>> \in antes'
       PROVE  \/ marcos'[i].last_used < marcos'[j].last_used
              \/ marcos'[i].last_used = marcos'[j].last_used /\ Recien(j)'
  <2>1. CASE j = k
    <3>1. i \in Ocupados /\ i # k /\ i \in Marcos
      BY <1>5, <1>8, <1>11, <2>1
    <3>2. marcos'[i].last_used \in Nat /\ marcos'[i].last_used =< reloj'
      BY <1>1, <1>2, <1>6, <1>9, <3>1
    <3>3. marcos'[j].last_used = reloj' /\ Recien(j)'
      BY <1>2, <1>3, <2>1
    <3> QED BY <1>1, <3>2, <3>3
  <2>2. CASE j # k
    <3>1. i # k /\ <<i, j>> \in antes /\ i \in Ocupados /\ j \in Ocupados
          /\ i \in Marcos /\ j \in Marcos
      BY <1>5, <1>7, <1>8, <1>11, <2>2
    <3>2. marcos[i].last_used < marcos[j].last_used
      BY <1>4, <1>11, <3>1 DEF Recencia
    <3>3. marcos'[i] = marcos[i] /\ marcos'[j] = marcos[j]
      BY <1>2, <2>2, <3>1
    <3> QED BY <3>2, <3>3
  <2> QED BY <2>1, <2>2
<1> QED BY <1>9, <1>10, <1>11 DEF Recencia

LEMMA FaltaRecencia ==
  ASSUME Tipos, Recencia, ReemplazarVictima \/ VictimaRechazada
  PROVE  Recencia'
<1>1. /\ Victima \in Marcos /\ TrasElegir \in [Marcos -> Marco]
      /\ marcos \in [Marcos -> Marco]
  BY VictimaEsMarco DEF Tipos, TypeOK, ReemplazarVictima, VictimaRechazada
<1>2. \A j \in Marcos : /\ TrasElegir[j].libre = marcos[j].libre
                        /\ TrasElegir[j].last_used = marcos[j].last_used
  <2> SUFFICES ASSUME NEW j \in Marcos
               PROVE  /\ TrasElegir[j].libre = marcos[j].libre
                      /\ TrasElegir[j].last_used = marcos[j].last_used
    OBVIOUS
  <2>1. \/ TrasElegir[j] = marcos[j]
        \/ TrasElegir[j] = [marcos[j] EXCEPT !.U = IF j \in Recorridos THEN 0 ELSE @]
    BY DEF TrasElegir
  <2> QED BY <1>1, <2>1 DEF Marco
<1>3. \A j \in Marcos : ~Recien(j)
  BY DEF ReemplazarVictima, VictimaRechazada, Falta, Recien
<1>4. UNCHANGED <<antes, reloj>>
  BY DEF ReemplazarVictima, VictimaRechazada
<1>5. \A j \in Marcos : /\ marcos'[j].libre = marcos[j].libre
                        /\ marcos'[j].last_used = marcos[j].last_used
  <2>1. CASE VictimaRechazada
    BY <1>2, <2>1 DEF VictimaRechazada
  <2>2. CASE ReemplazarVictima
    <3> DEFINE v == Victima
               m == SinPagina(TrasElegir[v])
    <3>1. marcos' = [TrasElegir EXCEPT ![v] = m]
      BY <2>2 DEF ReemplazarVictima
    <3>2. m.libre = TrasElegir[v].libre /\ m.last_used = TrasElegir[v].last_used
      <4>1. TrasElegir[v] \in Marco
        BY <1>1
      <4> QED BY <4>1 DEF SinPagina, Limpio, Marco
    <3>3. v \in Marcos
      BY <1>1
    <3> HIDE DEF v, m
    <3> QED BY <1>1, <1>2, <3>1, <3>2, <3>3
  <2> QED BY <2>1, <2>2
<1> QED BY <1>3, <1>4, <1>5, RecenciaQuieta

LEMMA FlushRecencia ==
  ASSUME Tipos, Recencia, FlushPagina
  PROVE  Recencia'
<1> DEFINE s == Siguiente
           m == Limpio(marcos[s])
<1>1. s \in Marcos /\ marcos \in [Marcos -> Marco] /\ marcos[s] \in Marco
  BY SiguienteEsSucio DEF Tipos, TypeOK, FlushPagina
<1>2. marcos' = [marcos EXCEPT ![s] = m] /\ UNCHANGED <<antes, reloj>>
  BY DEF FlushPagina
<1>3. \A j \in Marcos : ~Recien(j)
  BY DEF FlushPagina, Recien, Accesos, Volcados
<1> HIDE DEF s
<1>4. m.libre = marcos[s].libre /\ m.last_used = marcos[s].last_used
  BY <1>1 DEF Limpio, Marco
<1> HIDE DEF m
<1> QED BY <1>1, <1>2, <1>3, <1>4, RecenciaQuieta

LEMMA PasoRecencia ==
  ASSUME RETARDO = 1, Tipos, Tabla, Recencia, [Next]_vars
  PROVE  Recencia'
<1>1. ASSUME UNCHANGED varsMemoria, antes' = antes, \A j \in Marcos : ~Recien(j)
      PROVE  Recencia'
  BY <1>1, RecenciaQuieta DEF varsMemoria
<1>2. ASSUME NEW f \in FileTags, NEW base \in Direcciones,
             NEW tam \in 0..(NPAG * PAGE_SIZE),
             Read(f, base, tam) \/ \E v \in Bytes : Write(f, base, tam, v)
      PROVE  Recencia'
  <2>1. PICK o : Empezar(o, f)
    BY <1>2 DEF Read, Write
  <2> QED BY <1>1, <2>1 DEF Empezar, Recien, Accesos
<1>3. ASSUME NEW o \in Volcados, NEW f \in FileTags \cup {Nada}, Volcar(o, f)
      PROVE  Recencia'
  BY <1>1, <1>3 DEF Volcar, Empezar, Recien, Accesos
<1>4. CASE TomarMarcoLibre \/ AccesoCompleto \/ LecturaRechazada \/ FlushRechazado
           \/ \E r \in {0, -1} : AvisarFlush(r) \/ AvisarDelete(r)
  <2>1. \A j \in Marcos : ~Recien(j)
    BY <1>4 DEF TomarMarcoLibre, AccesoCompleto, LecturaRechazada, FlushRechazado,
       AvisarFlush, AvisarDelete, Falta, Recien, Accesos, Volcados, Tipos, TypeOK
  <2>2. UNCHANGED varsMemoria /\ antes' = antes
    BY <1>4 DEF TomarMarcoLibre, AccesoCompleto, LecturaRechazada, FlushRechazado,
       AvisarFlush, AvisarDelete
  <2> QED BY <1>1, <2>1, <2>2
<1>5. ASSUME NEW f \in FileTags, NEW n \in 0..NPAG, Truncate(f, n)
      PROVE  Recencia'
  BY <1>1, <1>5 DEF Truncate, Recien, Accesos
<1>6. CASE (\E p \in Paginas, b \in Bloques \cup {Nada} : CambioAjeno(p, b))
           \/ UNCHANGED vars
  <2>1. UNCHANGED <<marcos, reloj, antes, op, marco, dir, fin, fileTag>>
    BY <1>6 DEF CambioAjeno, vars, varsMemoria, varsInstr
  <2> QED BY <2>1 DEF Recencia, Ocupados, Libres, Recien, FrameMatchea, Pag
<1> QED BY <1>2, <1>3, <1>4, <1>5, <1>6, AccesoRecencia, FaltaRecencia,
        LlegadaRecencia, FlushRecencia DEF Next

LEMMA InitRecencia == Init => Recencia
BY DEF Init, Recencia, Ocupados, Libres

\* The victim of LRU is the first of those used longest ago.
LEMMA VictimaLRUMenor ==
  ASSUME TypeOK, Libres = {}
  PROVE  /\ VictimaLRU \in Ocupados
         /\ \A j \in Ocupados : marcos[VictimaLRU].last_used =< marcos[j].last_used
<1> DEFINE f == [i \in Marcos |-> marcos[i].last_used]
           E == {i \in Ocupados :
                   \A j \in Ocupados : marcos[i].last_used =< marcos[j].last_used}
<1>1. Ocupados = Marcos /\ Ocupados # {}
  BY Tamanos DEF Ocupados
<1>2. f \in [Marcos -> Nat]
  BY DEF TypeOK, Marco
<1>3. PICK i \in Ocupados : \A j \in Ocupados : f[i] =< f[j]
  BY <1>1, <1>2, MenorValor
<1>4. i \in E
  BY <1>1, <1>3
<1>5. E \in SUBSET Nat /\ E # {}
  BY <1>1, <1>4, Tamanos
<1>6. Min(E) \in E
  BY <1>5, MinimoNat
<1> QED BY <1>6 DEF VictimaLRU

\* From the hand to a frame and back.
LEMMA VueltaEntera ==
  ASSUME NEW F \in Nat \ {0}, NEW p \in 0..(F - 1), NEW i \in 0..(F - 1),
         NEW v \in Nat, v = (i + F - p) % F
  PROVE  (p + v) % F = i
<1>1. CASE i >= p
  <2>1. (i + F - p) % F = i - p
    BY <1>1, Z3
  <2>2. p + (i - p) = i /\ i % F = i
    BY Z3
  <2> QED BY <2>1, <2>2
<1>2. CASE i < p
  <2>1. (i + F - p) % F = i + F - p
    BY <1>2, Z3
  <2>2. p + (i + F - p) = i + F /\ (i + F) % F = i
    BY Z3
  <2> QED BY <2>1, <2>2
<1> QED BY <1>1, <1>2

LEMMA VueltaDelReloj ==
  ASSUME PUNTERO_RELOJ \in Marcos, NEW j \in Marcos
  PROVE  (PUNTERO_RELOJ + Vuelta(j)) % FRAMES = j
<1>1. FRAMES \in Nat \ {0} /\ PUNTERO_RELOJ \in 0..(FRAMES - 1) /\ j \in 0..(FRAMES - 1)
  BY Tamanos DEF Marcos
<1>2. PICK v : v = Vuelta(j)
  OBVIOUS
<1>3. v = (j + FRAMES - PUNTERO_RELOJ) % FRAMES
  BY <1>2 DEF Vuelta
<1>4. v \in Nat
  BY <1>1, <1>3
<1>5. (PUNTERO_RELOJ + v) % FRAMES = j
  BY <1>1, <1>3, <1>4, VueltaEntera
<1> QED BY <1>2, <1>5

\* The victim of CLOCK-M is in the least class there is.
LEMMA VictimaCLOCKMClase ==
  ASSUME TypeOK, Libres = {}
  PROVE  \/ VictimaCLOCKM \in Clase(0, 0)
         \/ Clase(0, 0) = {} /\ VictimaCLOCKM \in Clase(0, 1)
         \/ Clase(0, 0) = {} /\ Clase(0, 1) = {}
<1>1. Ocupados = Marcos
  BY DEF Ocupados
<1>2. ASSUME NEW S \in SUBSET Marcos, S # {} PROVE Primero(S) \in S
  <2> DEFINE V == {Vuelta(i) : i \in S}
  <2>1. PUNTERO_RELOJ \in Marcos /\ S \subseteq Nat
    BY Tamanos DEF TypeOK
  <2>2. \A i \in S : Vuelta(i) \in Marcos
    BY <2>1, Tamanos DEF Vuelta, Marcos
  <2>3. V \in SUBSET Nat /\ V # {}
    BY <1>2, <2>2, Tamanos
  <2>4. PICK i \in S : Min(V) = Vuelta(i)
    BY <2>3, MinimoNat
  <2>5. (PUNTERO_RELOJ + Vuelta(i)) % FRAMES = i
    BY <2>1, <1>2, VueltaDelReloj
  <2> QED BY <2>4, <2>5 DEF Primero, DesdePuntero
<1>3. Clase(0, 0) \in SUBSET Marcos /\ Clase(0, 1) \in SUBSET Marcos
  BY <1>1 DEF Clase
<1> QED BY <1>2, <1>3 DEF VictimaCLOCKM

LEMMA PasoVictima ==
  ASSUME ALGORITMO = "LRU" => RETARDO = 1 /\ Recencia,
         Tipos, Next, NEW i \in Ocupados, marco = Nada, marco' = i
  PROVE  IF ALGORITMO = "LRU" THEN \A j \in Ocupados \ {i} : <<i, j>> \in antes
         ELSE \A j \in Ocupados :
                marcos[i].U = 1 \/ (marcos[i].M = 1 /\ marcos[j].M = 0)
                  => marcos[j].U = 1
<1>1. i \in Marcos /\ i # Nada /\ i \notin Libres
  BY Tamanos, SupuestosMemoria DEF Ocupados
<1>2. ReemplazarVictima
  <2>1. ~TomarMarcoLibre
    <3>1. Libres \in SUBSET Nat
      BY Tamanos DEF Libres
    <3> QED BY <1>1, <3>1, MinimoNat DEF TomarMarcoLibre
  <2> QED BY <1>1, <2>1 DEF Next, Read, Write, Volcar, Empezar, AccederTramo,
        AccesoCompleto, VictimaRechazada, LlegaPagina, LecturaRechazada, FlushPagina,
        FlushRechazado, AvisarFlush, AvisarDelete, Truncate, CambioAjeno, Terminar,
        varsInstr
<1>3. Libres = {} /\ i = Victima /\ TypeOK /\ Falta
  BY <1>2 DEF ReemplazarVictima, Tipos
<1>4. \A j \in Marcos : marcos[j] \in Marco
  BY DEF Tipos, TypeOK
<1>5. CASE ALGORITMO = "LRU"
  <2>1. /\ i = VictimaLRU
        /\ \A j \in Ocupados : marcos[i].last_used =< marcos[j].last_used
    BY <1>3, <1>5, VictimaLRUMenor DEF Victima
  <2>2. \A j \in Ocupados : ~Recien(j)
    BY <1>3 DEF Falta, Recien, Ocupados
  <2>3. \A j \in Ocupados : marcos[j].last_used \in Nat
    BY <1>4 DEF Ocupados, Marco
  <2>4. ASSUME NEW j \in Ocupados, j # i, <<i, j>> \notin antes PROVE FALSE
    <3>1. marcos[j].last_used < marcos[i].last_used
      BY <1>5, <2>2, <2>4 DEF Recencia
    <3> QED BY <2>1, <2>3, <3>1
  <2> QED BY <1>5, <2>4
<1>6. CASE ALGORITMO # "LRU"
  <2>1. i = VictimaCLOCKM
    BY <1>3, <1>6 DEF Victima
  <2>2. \A j \in Ocupados : marcos[j].U \in {0, 1} /\ marcos[j].M \in {0, 1}
    BY <1>4 DEF Ocupados, Marco
  <2> QED BY <1>3, <1>6, <2>1, <2>2, VictimaCLOCKMClase DEF Clase
<1> QED BY <1>5, <1>6

\* algoritmo_LRU, algoritmo_CLOCKM (memoria_Interna.c:426, :440): the page
\* replaced is the one accessed longest ago, or of the least class there is.
\* Under LRU an access takes a tick of the clock: with RETARDO_MEMORIA = 0 two
\* may fall in the same millisecond.
THEOREM VictimaSiempreJusta ==
  ASSUME ALGORITMO = "LRU" => RETARDO = 1
  PROVE  Spec => VictimaJusta
<1> DEFINE Inv == Tipos /\ Tabla /\ (ALGORITMO = "LRU" => Recencia)
<1>1. Inv /\ [Next]_vars => Inv'
  BY PasoTipos, PasoTabla, PasoRecencia
<1>2. Inv /\ [Next]_vars =>
        [\A i \in Ocupados : marco = Nada /\ marco' = i =>
           IF ALGORITMO = "LRU" THEN \A j \in Ocupados \ {i} : <<i, j>> \in antes
           ELSE \A j \in Ocupados :
                  marcos[i].U = 1 \/ (marcos[i].M = 1 /\ marcos[j].M = 0)
                    => marcos[j].U = 1]_vars
  BY PasoVictima
<1>3. Init => Inv
  BY InitTipos, InitTabla, InitRecencia
<1> HIDE DEF Inv
<1> QED BY <1>1, <1>2, <1>3, PTL DEF Spec, VictimaJusta

-----------------------------------------------------------------------------
(***************************************************************************)
(* The memory is invisible.  A byte of a file is looked up with a frame    *)
(* table m and a Storage a, so that the same lemmas serve both ends of a   *)
(* step.                                                                   *)
(***************************************************************************)

Posiciones == FileTags \X Direcciones
PaginaEn(c) == <<c[1], Pag(c[2])>>
Coinciden(m, c) == {i \in Marcos : /\ ~m[i].libre /\ m[i].file = c[1]
                                   /\ m[i].pagina = Pag(c[2])}

ByteEn(m, a, c) ==
  IF Coinciden(m, c) # {} THEN m[Min(Coinciden(m, c))].base[Off(c[2])]
  ELSE IF a[PaginaEn(c)] = Nada THEN Nada ELSE a[PaginaEn(c)][Off(c[2])]

ViejoEn(m, a, c) ==
  \E i \in Coinciden(m, c) :
    /\ ~m[i].dirty
    /\ \/ a[PaginaEn(c)] = Nada
       \/ a[PaginaEn(c)][Off(c[2])] # m[i].base[Off(c[2])]

LEMMA VisibleEs ==
  ASSUME NEW c \in Posiciones
  PROVE  /\ Visible(c[1], c[2]) = ByteEn(marcos, almacen, c)
         /\ Visible(c[1], c[2])' = ByteEn(marcos', almacen', c)
         /\ Vencido(c[1], c[2]) <=> ViejoEn(marcos, almacen, c)
         /\ Vencido(c[1], c[2])' <=> ViejoEn(marcos', almacen', c)
<1>1. /\ Visible(c[1], c[2]) = ByteEn(marcos, almacen, c)
      /\ Visible(c[1], c[2])' = ByteEn(marcos', almacen', c)
  BY DEF Visible, ByteEn, Coinciden, FrameMatchea, PaginaEn
<1>2. /\ Vencido(c[1], c[2]) <=> ViejoEn(marcos, almacen, c)
      /\ Vencido(c[1], c[2])' <=> ViejoEn(marcos', almacen', c)
  BY DEF Vencido, ViejoEn, Coinciden, FrameMatchea, PaginaEn
<1> QED BY <1>1, <1>2

\* A byte is in one page of Storage and one place of it.
LEMMA PosicionTipo ==
  ASSUME NEW c \in Posiciones
  PROVE  /\ c[1] \in FileTags /\ c[1] # Nada /\ c[2] \in Direcciones
         /\ c[2] \in Nat /\ Off(c[2]) \in Offsets /\ PaginaEn(c) \in Paginas
<1>1. c[1] \in FileTags /\ c[1] # Nada /\ c[2] \in Direcciones
  BY SupuestosMemoria DEF Posiciones
<1>2. c[2] \in Nat /\ c[2] < NPAG * PAGE_SIZE
  BY <1>1, Tamanos DEF Direcciones
<1>3. Off(c[2]) \in Offsets
  BY <1>2, Tamanos DEF Off
<1>4. Pag(c[2]) \in 0..(NPAG - 1)
  BY <1>2, Tamanos, PagCota DEF Pag
<1> QED BY <1>1, <1>2, <1>3, <1>4 DEF PaginaEn, Paginas

\* With at most one frame for it, a byte is the one in that frame, ...
LEMMA EnUnMarco ==
  ASSUME NEW m, NEW c, NEW i \in Marcos, Coinciden(m, c) = {i}
  PROVE  \A a : /\ ByteEn(m, a, c) = m[i].base[Off(c[2])]
                /\ ViejoEn(m, a, c) <=>
                     /\ ~m[i].dirty
                     /\ \/ a[PaginaEn(c)] = Nada
                        \/ a[PaginaEn(c)][Off(c[2])] # m[i].base[Off(c[2])]
<1>1. {i} \in SUBSET Nat /\ {i} # {}
  BY Tamanos
<1>2. Min({i}) = i
  BY <1>1, MinimoNat
<1>3. \A a : ByteEn(m, a, c) = m[i].base[Off(c[2])]
  BY <1>2 DEF ByteEn
<1> QED BY <1>3 DEF ViejoEn

\* ... or the one in Storage.
LEMMA EnNinguno ==
  ASSUME NEW m, NEW a, NEW c, Coinciden(m, c) = {}
  PROVE  /\ ByteEn(m, a, c) = IF a[PaginaEn(c)] = Nada THEN Nada
                              ELSE a[PaginaEn(c)][Off(c[2])]
         /\ ~ViejoEn(m, a, c)
BY DEF ByteEn, ViejoEn

LEMMA UnMarco ==
  ASSUME TablaCoherente, NEW c \in Posiciones
  PROVE  \/ Coinciden(marcos, c) = {}
         \/ \E i \in Marcos : Coinciden(marcos, c) = {i}
<1>1. c[1] # Nada
  BY PosicionTipo
<1>2. ASSUME NEW i \in Coinciden(marcos, c), NEW j \in Coinciden(marcos, c)
      PROVE  i = j
  BY <1>1 DEF Coinciden, TablaCoherente, Ocupados, Libres, PaginaDe
<1> QED BY <1>2 DEF Coinciden

\* A byte whose frames and whose page in Storage stay as they are stays too.
LEMMA MismoByte ==
  ASSUME NEW m, NEW n, NEW a, NEW b, NEW c,
         Coinciden(n, c) = Coinciden(m, c),
         \A i \in Coinciden(m, c) : n[i].base = m[i].base /\ n[i].dirty = m[i].dirty,
         b[PaginaEn(c)] = a[PaginaEn(c)]
  PROVE  ByteEn(n, b, c) = ByteEn(m, a, c) /\ (ViejoEn(n, b, c) <=> ViejoEn(m, a, c))
<1>1. Coinciden(m, c) \in SUBSET Nat
  BY Tamanos DEF Coinciden
<1>2. ByteEn(n, b, c) = ByteEn(m, a, c)
  BY <1>1, MinimoNat DEF ByteEn
<1>3. ViejoEn(n, b, c) <=> ViejoEn(m, a, c)
  BY DEF ViejoEn
<1> QED BY <1>2, <1>3

\* What a step does to byte c: nothing, unless it was cut off.
Igual(c) == /\ ByteEn(marcos', almacen', c) = ByteEn(marcos, almacen, c)
            /\ ViejoEn(marcos', almacen', c) <=> ViejoEn(marcos, almacen, c)
Sigue(c) == /\ ViejoEn(marcos', almacen', c) => ViejoEn(marcos, almacen, c)
            /\ ~ViejoEn(marcos, almacen, c)
                 => ByteEn(marcos', almacen', c) = ByteEn(marcos, almacen, c)

LEMMA IgualSigue == ASSUME NEW c, Igual(c) PROVE Sigue(c)
BY DEF Igual, Sigue

\* A step that changes no page.
LEMMA PaginasIguales ==
  ASSUME \A i \in Marcos : MismaPagina(marcos'[i], marcos[i]),
         almacen' = almacen, NEW c
  PROVE  Igual(c)
<1>1. Coinciden(marcos', c) = Coinciden(marcos, c)
  BY DEF Coinciden, MismaPagina
<1>2. \A i \in Coinciden(marcos, c) : /\ marcos'[i].base = marcos[i].base
                                      /\ marcos'[i].dirty = marcos[i].dirty
  BY DEF Coinciden, MismaPagina
<1> QED BY <1>1, <1>2, MismoByte DEF Igual

LEMMA ElegirPaginas ==
  ASSUME Tipos, ReemplazarVictima \/ VictimaRechazada
  PROVE  /\ Victima \in Marcos /\ TrasElegir \in [Marcos -> Marco]
         /\ \A j \in Marcos : MismaPagina(TrasElegir[j], marcos[j])
<1>1. Victima \in Marcos /\ TrasElegir \in [Marcos -> Marco] /\ TypeOK
  BY VictimaEsMarco DEF Tipos, ReemplazarVictima, VictimaRechazada
<1> QED BY <1>1, ElegirMarcas DEF MismaPagina

\* One frame changes, and with it at most the page it has.
LEMMA OtrasPaginas ==
  ASSUME NEW v \in Marcos, NEW c,
         \A j \in Marcos \ {v} : MismaPagina(marcos'[j], marcos[j]),
         v \notin Coinciden(marcos, c), v \notin Coinciden(marcos', c),
         almacen'[PaginaEn(c)] = almacen[PaginaEn(c)]
  PROVE  Igual(c)
<1>1. Coinciden(marcos', c) = Coinciden(marcos, c)
  BY DEF Coinciden, MismaPagina
<1>2. \A i \in Coinciden(marcos, c) : /\ marcos'[i].base = marcos[i].base
                                      /\ marcos'[i].dirty = marcos[i].dirty
  BY DEF Coinciden, MismaPagina
<1> QED BY <1>1, <1>2, MismoByte DEF Igual

\* Storage takes the block of frame v: of its page, and of no other.
LEMMA BloqueTomado ==
  ASSUME TypeOK, NEW v \in Marcos, ~marcos[v].libre, StorageEscribe(v),
         NEW c \in Posiciones
  PROVE  IF v \in Coinciden(marcos, c)
         THEN almacen'[PaginaEn(c)] = marcos[v].base /\ marcos[v].base # Nada
         ELSE almacen'[PaginaEn(c)] = almacen[PaginaEn(c)]
<1>1. almacen' = [almacen EXCEPT ![PaginaDe(v)] = marcos[v].base]
  BY DEF StorageEscribe
<1>2. almacen \in [Paginas -> Bloques \cup {Nada}] /\ PaginaEn(c) \in Paginas
  BY PosicionTipo DEF TypeOK
<1>3. marcos[v].base # Nada
  BY SupuestosMemoria DEF TypeOK, Marco, Bloques, Offsets
<1>4. v \in Coinciden(marcos, c) <=> PaginaDe(v) = PaginaEn(c)
  BY DEF Coinciden, PaginaDe, PaginaEn
<1> QED BY <1>1, <1>2, <1>3, <1>4

\* The frame of a replaced victim keeps its page out of the memory.
LEMMA ReemplazoSigue ==
  ASSUME Tipos, Tabla, ReemplazarVictima, NEW c \in Posiciones
  PROVE  Sigue(c)
<1> DEFINE v == Victima
           m == SinPagina(TrasElegir[v])
<1>1. /\ v \in Marcos /\ TrasElegir \in [Marcos -> Marco]
      /\ \A j \in Marcos : MismaPagina(TrasElegir[j], marcos[j])
  BY ElegirPaginas
<1>2. marcos' = [TrasElegir EXCEPT ![v] = m] /\ FlushFrame(v) /\ Libres = {}
  BY DEF ReemplazarVictima
<1>3. m.file = Nada
  <2>1. TrasElegir[v] \in Marco
    BY <1>1
  <2> QED BY <2>1 DEF SinPagina, Limpio, Marco
<1> HIDE DEF v, m
<1>4. marcos'[v] = m /\ \A j \in Marcos \ {v} : marcos'[j] = TrasElegir[j]
  BY <1>1, <1>2
<1>5. \A j \in Marcos \ {v} : MismaPagina(marcos'[j], marcos[j])
  BY <1>1, <1>4
<1>6. v \notin Coinciden(marcos', c) /\ ~marcos[v].libre
  BY <1>1, <1>2, <1>3, <1>4, PosicionTipo DEF Coinciden, Libres
<1>7. CASE v \notin Coinciden(marcos, c)
  <2>1. almacen'[PaginaEn(c)] = almacen[PaginaEn(c)]
    BY <1>1, <1>2, <1>6, <1>7, BloqueTomado DEF FlushFrame, Tipos
  <2> QED BY <1>1, <1>5, <1>6, <1>7, <2>1, OtrasPaginas, IgualSigue
<1>8. CASE v \in Coinciden(marcos, c)
  <2>1. Coinciden(marcos, c) = {v}
    BY <1>8, UnMarco DEF Tabla
  <2>2. Coinciden(marcos', c) = {}
    BY <1>5, <1>6, <2>1 DEF Coinciden, MismaPagina
  <2>3. /\ ByteEn(marcos, almacen, c) = marcos[v].base[Off(c[2])]
        /\ ViejoEn(marcos, almacen, c) <=>
             /\ ~marcos[v].dirty
             /\ \/ almacen[PaginaEn(c)] = Nada
                \/ almacen[PaginaEn(c)][Off(c[2])] # marcos[v].base[Off(c[2])]
    BY <1>1, <2>1, EnUnMarco
  <2>4. /\ ByteEn(marcos', almacen', c) =
             IF almacen'[PaginaEn(c)] = Nada THEN Nada
             ELSE almacen'[PaginaEn(c)][Off(c[2])]
        /\ ~ViejoEn(marcos', almacen', c)
    BY <2>2, EnNinguno
  <2>5. CASE marcos[v].dirty
    <3>1. almacen'[PaginaEn(c)] = marcos[v].base /\ marcos[v].base # Nada
      BY <1>1, <1>2, <1>6, <1>8, <2>5, BloqueTomado DEF FlushFrame, Tipos
    <3> QED BY <2>3, <2>4, <3>1 DEF Sigue
  <2>6. CASE ~marcos[v].dirty
    <3>1. almacen' = almacen
      BY <1>2, <2>6 DEF FlushFrame
    <3> QED BY <2>3, <2>4, <2>6, <3>1 DEF Sigue
  <2> QED BY <2>5, <2>6
<1> QED BY <1>7, <1>8

\* The page that arrives is the one Storage answered.
LEMMA LlegadaSigue ==
  ASSUME Tipos, Tabla, Tabla', LlegaPagina, NEW c \in Posiciones
  PROVE  Sigue(c)
<1> DEFINE n == [libre |-> FALSE, file |-> fileTag, pagina |-> Pag(dir),
                 base |-> almacen[<<fileTag, Pag(dir)>>], dirty |-> FALSE,
                 U |-> 1, M |-> 0, last_used |-> reloj']
<1>1. /\ marco \in Marcos /\ marcos \in [Marcos -> Marco]
      /\ marcos' = [marcos EXCEPT ![marco] = n] /\ almacen' = almacen
      /\ almacen[<<fileTag, Pag(dir)>>] # Nada
  BY DEF LlegaPagina, Tipos, TypeOK
<1>2. marcos'[marco] = n /\ \A j \in Marcos \ {marco} : marcos'[j] = marcos[j]
  BY <1>1
<1>3. /\ n.libre = FALSE /\ n.file = fileTag /\ n.pagina = Pag(dir)
      /\ n.base = almacen[<<fileTag, Pag(dir)>>] /\ n.dirty = FALSE
  OBVIOUS
<1> HIDE DEF n
<1>4. marco \notin Coinciden(marcos, c)
  <2>1. marcos[marco].libre \/ marcos[marco].file = Nada
    BY DEF LlegaPagina, Tabla, Espera
  <2> QED BY <2>1, PosicionTipo DEF Coinciden
<1>5. \A j \in Marcos \ {marco} : MismaPagina(marcos'[j], marcos[j])
  BY <1>2 DEF MismaPagina
<1>6. CASE marco \notin Coinciden(marcos', c)
  BY <1>1, <1>4, <1>5, <1>6, OtrasPaginas, IgualSigue
<1>7. CASE marco \in Coinciden(marcos', c)
  <2>1. PaginaEn(c) = <<fileTag, Pag(dir)>> /\ c[1] = fileTag /\ Pag(c[2]) = Pag(dir)
    BY <1>2, <1>3, <1>7 DEF Coinciden, PaginaEn
  <2>2. \A i \in Marcos : ~FrameMatchea(i, fileTag, Pag(dir))
    BY DEF LlegaPagina, Tabla, Espera
  <2>3. Coinciden(marcos, c) = {}
    BY <2>1, <2>2 DEF Coinciden, FrameMatchea
  <2>4. Coinciden(marcos', c) = {marco}
    BY <1>1, <1>2, <1>7, <2>3 DEF Coinciden
  <2>5. /\ ByteEn(marcos, almacen, c) = almacen[PaginaEn(c)][Off(c[2])]
        /\ ~ViejoEn(marcos, almacen, c)
    BY <1>1, <2>1, <2>3, EnNinguno
  <2>6. /\ ByteEn(marcos', almacen', c) = marcos'[marco].base[Off(c[2])]
        /\ ViejoEn(marcos', almacen', c) <=>
             /\ ~marcos'[marco].dirty
             /\ \/ almacen'[PaginaEn(c)] = Nada
                \/ almacen'[PaginaEn(c)][Off(c[2])] # marcos'[marco].base[Off(c[2])]
    <3>1. PICK i \in Marcos : i = marco
      BY <1>1
    <3>2. Coinciden(marcos', c) = {i}
      BY <2>4, <3>1
    <3>3. /\ ByteEn(marcos', almacen', c) = marcos'[i].base[Off(c[2])]
          /\ ViejoEn(marcos', almacen', c) <=>
               /\ ~marcos'[i].dirty
               /\ \/ almacen'[PaginaEn(c)] = Nada
                  \/ almacen'[PaginaEn(c)][Off(c[2])] # marcos'[i].base[Off(c[2])]
      BY <3>2, EnUnMarco
    <3> QED BY <3>1, <3>3
  <2> QED BY <1>1, <1>2, <1>3, <2>1, <2>5, <2>6 DEF Sigue
<1> QED BY <1>6, <1>7

\* A flush makes Storage agree with the frame.
LEMMA FlushSigue ==
  ASSUME Tipos, Tabla, FlushPagina, NEW c \in Posiciones
  PROVE  Sigue(c)
<1> DEFINE s == Siguiente
           m == Limpio(marcos[s])
<1>1. /\ s \in Marcos /\ marcos[s].dirty /\ ~marcos[s].libre
      /\ marcos \in [Marcos -> Marco] /\ marcos[s] \in Marco
  BY SiguienteEsSucio DEF Tipos, TypeOK, FlushPagina
<1>2. marcos' = [marcos EXCEPT ![s] = m] /\ StorageEscribe(s)
  BY DEF FlushPagina
<1>3. /\ m.libre = marcos[s].libre /\ m.file = marcos[s].file
      /\ m.pagina = marcos[s].pagina /\ m.base = marcos[s].base
  <2> HIDE DEF s
  <2> QED BY <1>1 DEF Limpio, Marco
<1> HIDE DEF s, m
<1>4. marcos'[s] = m /\ \A j \in Marcos \ {s} : marcos'[j] = marcos[j]
  BY <1>1, <1>2
<1>5. Coinciden(marcos', c) = Coinciden(marcos, c)
  BY <1>3, <1>4 DEF Coinciden
<1>6. \A j \in Marcos \ {s} : MismaPagina(marcos'[j], marcos[j])
  BY <1>4 DEF MismaPagina
<1>7. CASE s \notin Coinciden(marcos, c)
  <2>1. almacen'[PaginaEn(c)] = almacen[PaginaEn(c)]
    BY <1>1, <1>2, <1>7, BloqueTomado DEF Tipos
  <2> QED BY <1>1, <1>5, <1>6, <1>7, <2>1, OtrasPaginas, IgualSigue
<1>8. CASE s \in Coinciden(marcos, c)
  <2>1. Coinciden(marcos, c) = {s} /\ Coinciden(marcos', c) = {s}
    BY <1>5, <1>8, UnMarco DEF Tabla
  <2>2. almacen'[PaginaEn(c)] = marcos[s].base /\ marcos[s].base # Nada
    BY <1>1, <1>2, <1>8, BloqueTomado DEF Tipos
  <2>3. PICK i \in Marcos : i = s
    BY <1>1
  <2>4. ByteEn(marcos, almacen, c) = marcos[i].base[Off(c[2])]
    BY <2>1, <2>3, EnUnMarco
  <2>5. /\ ByteEn(marcos', almacen', c) = marcos'[i].base[Off(c[2])]
        /\ ViejoEn(marcos', almacen', c) <=>
             /\ ~marcos'[i].dirty
             /\ \/ almacen'[PaginaEn(c)] = Nada
                \/ almacen'[PaginaEn(c)][Off(c[2])] # marcos'[i].base[Off(c[2])]
    BY <2>1, <2>3, EnUnMarco
  <2> QED BY <1>3, <1>4, <2>2, <2>3, <2>4, <2>5 DEF Sigue
<1> QED BY <1>7, <1>8

\* A step that leaves the frames alone: a byte that is in a frame stays, and may
\* become one that was cut off only if its page leaves Storage.
LEMMA MarcosIguales ==
  ASSUME TablaCoherente, marcos' = marcos, NEW c \in Posiciones
  PROVE  /\ almacen'[PaginaEn(c)] = almacen[PaginaEn(c)] => Igual(c)
         /\ almacen[PaginaEn(c)] = Nada =>
              /\ ViejoEn(marcos', almacen', c) => ViejoEn(marcos, almacen, c)
              /\ \/ ByteEn(marcos', almacen', c) = ByteEn(marcos, almacen, c)
                 \/ ByteEn(marcos, almacen, c) = Nada
         /\ almacen'[PaginaEn(c)] = Nada =>
              \/ ByteEn(marcos', almacen', c) = ByteEn(marcos, almacen, c)
              \/ ByteEn(marcos', almacen', c) = Nada
<1>1. Coinciden(marcos', c) = Coinciden(marcos, c)
  OBVIOUS
<1>2. almacen'[PaginaEn(c)] = almacen[PaginaEn(c)] => Igual(c)
  BY <1>1, MismoByte DEF Igual
<1>3. CASE Coinciden(marcos, c) = {}
  <2>1. /\ ByteEn(marcos, almacen, c) = IF almacen[PaginaEn(c)] = Nada THEN Nada
                                        ELSE almacen[PaginaEn(c)][Off(c[2])]
        /\ ByteEn(marcos', almacen', c) = IF almacen'[PaginaEn(c)] = Nada THEN Nada
                                          ELSE almacen'[PaginaEn(c)][Off(c[2])]
        /\ ~ViejoEn(marcos', almacen', c)
    BY <1>1, <1>3, EnNinguno
  <2> QED BY <1>2, <2>1
<1>4. ASSUME NEW i \in Marcos, Coinciden(marcos, c) = {i}
      PROVE  /\ ByteEn(marcos', almacen', c) = ByteEn(marcos, almacen, c)
             /\ almacen[PaginaEn(c)] = Nada =>
                 (ViejoEn(marcos', almacen', c) => ViejoEn(marcos, almacen, c))
  <2>1. \A a : /\ ByteEn(marcos, a, c) = marcos[i].base[Off(c[2])]
               /\ ViejoEn(marcos, a, c) <=>
                    /\ ~marcos[i].dirty
                    /\ \/ a[PaginaEn(c)] = Nada
                       \/ a[PaginaEn(c)][Off(c[2])] # marcos[i].base[Off(c[2])]
    BY <1>4, EnUnMarco
  <2> QED BY <2>1
<1> QED BY <1>2, <1>3, <1>4, UnMarco

\* The page of an address, and the first address of a page.
LEMMA PagLimites ==
  ASSUME NEW P \in Nat \ {0}, NEW d \in Nat
  PROVE  /\ d \div P \in Nat
         /\ P * (d \div P) =< d /\ d < P * (d \div P) + P
         /\ d % P = d - P * (d \div P)
<1>1. d \div P \in Nat
  BY Z3
<1>2. P * (d \div P) =< d
  BY Z3
<1>3. d < P * (d \div P) + P
  BY Z3
<1>4. d % P = d - P * (d \div P)
  BY SMT
<1> QED BY <1>1, <1>2, <1>3, <1>4

LEMMA PagUnica ==
  ASSUME NEW P \in Nat \ {0}, NEW q \in Nat, NEW d \in Nat,
         P * q =< d, d < P * q + P
  PROVE  d \div P = q
<1> DEFINE r == d \div P
<1>1. r \in Nat /\ P * r =< d /\ d < P * r + P
  BY PagLimites
<1>2. P * r \in Nat /\ P * q \in Nat
  BY <1>1
<1> HIDE DEF r
<1>3. ASSUME r >= q + 1 PROVE FALSE
  <2>1. P * r >= P * (q + 1) /\ P * (q + 1) = P * q + P
    BY <1>1, <1>3
  <2> QED BY <1>1, <1>2, <2>1
<1>4. ASSUME q >= r + 1 PROVE FALSE
  <2>1. P * q >= P * (r + 1) /\ P * (r + 1) = P * r + P
    BY <1>1, <1>4
  <2> QED BY <1>1, <1>2, <2>1
<1>5. r = q
  BY <1>1, <1>3, <1>4
<1> QED BY <1>5 DEF r

LEMMA PagDesde ==
  ASSUME NEW P \in Nat \ {0}, NEW n \in Nat, NEW d \in Nat
  PROVE  d \div P >= n <=> d >= n * P
<1> DEFINE r == d \div P
<1>1. r \in Nat /\ P * r =< d /\ d < P * r + P
  BY PagLimites
<1>2. P * r \in Nat /\ n * P \in Nat
  BY <1>1
<1> HIDE DEF r
<1>3. ASSUME r >= n PROVE d >= n * P
  <2>1. P * r >= n * P
    BY <1>1, <1>3
  <2> QED BY <1>1, <1>2, <2>1
<1>4. ASSUME r < n PROVE d < n * P
  <2>1. n * P >= P * (r + 1) /\ P * (r + 1) = P * r + P
    BY <1>1, <1>4
  <2> QED BY <1>1, <1>2, <2>1
<1>5. r >= n <=> d >= n * P
  BY <1>1, <1>2, <1>3, <1>4
<1> QED BY <1>5 DEF r

\* A chunk is not empty, and is in one page of the file.
LEMMA TramoDePagina ==
  ASSUME TypeOK, dir < fin
  PROVE  \E s \in Nat :
           /\ s = Min({fin, (Pag(dir) + 1) * PAGE_SIZE})
           /\ dir < s /\ s =< fin /\ s - 1 \in Direcciones
           /\ Tramo = dir..(s - 1)
           /\ \A e \in dir..(s - 1) : e \in Direcciones /\ Pag(e) = Pag(dir)
<1> DEFINE P == PAGE_SIZE
           q == Pag(dir)
           t == (q + 1) * P
           s == Min({fin, t})
<1>1. /\ P \in Nat \ {0} /\ dir \in Nat /\ fin \in Nat /\ q \in Nat
      /\ fin =< NPAG * P /\ NPAG * P \in Nat
  BY DirEnRango, Tamanos DEF TypeOK
<1>2. P * q =< dir /\ dir < P * q + P
  BY <1>1, PagLimites DEF Pag
<1>3. P * q \in Nat /\ t = P * q + P /\ t \in Nat
  BY <1>1
<1> HIDE DEF q, t
<1>4. {fin, t} \in SUBSET Nat /\ {fin, t} # {}
  BY <1>1, <1>3
<1>5. s \in {fin, t} /\ s =< fin /\ s =< t
  BY <1>4, MinimoNat
<1>6. Tramo = dir..(s - 1)
  BY DEF Tramo, t, q
<1> HIDE DEF s
<1>7. s \in Nat /\ dir < s /\ s - 1 \in Direcciones
  BY <1>1, <1>2, <1>3, <1>5 DEF Direcciones
<1>8. ASSUME NEW e \in dir..(s - 1)
      PROVE  e \in Direcciones /\ Pag(e) = q
  <2>1. e \in Nat /\ e < s /\ dir =< e
    BY <1>1, <1>7
  <2>2. P * q =< e /\ e < P * q + P
    BY <1>1, <1>2, <1>3, <1>5, <2>1
  <2>3. Pag(e) = q
    BY <1>1, <2>1, <2>2, PagUnica DEF Pag
  <2>4. e \in Direcciones
    BY <1>1, <1>5, <1>7, <2>1 DEF Direcciones
  <2> QED BY <2>3, <2>4
<1> QED BY <1>5, <1>6, <1>7, <1>8 DEF s, t, q

\* Two addresses of one page are at different places of it.
LEMMA OffDistintos ==
  ASSUME NEW d \in Nat, NEW e \in Nat, Pag(d) = Pag(e), Off(d) = Off(e)
  PROVE  d = e
<1>1. PAGE_SIZE \in Nat \ {0}
  BY SupuestosMemoria
<1>2. PICK x \in Int : x = PAGE_SIZE * (d \div PAGE_SIZE)
  <2>1. d \div PAGE_SIZE \in Nat
    BY <1>1, PagLimites
  <2> QED BY <1>1, <2>1
<1>3. Off(d) = d - x /\ Off(e) = e - x
  BY <1>1, <1>2, PagLimites DEF Pag, Off
<1>4. d - x = e - x
  BY <1>3
<1> QED BY <1>2, <1>4

\* The bytes of a chunk are the ones of the frame that holds their page.
LEMMA TramoEnMarco ==
  ASSUME TypeOK, TablaCoherente, dir < fin, NEW i \in Marcos, NEW c \in Posiciones,
         FrameMatchea(i, fileTag, Pag(dir))
  PROVE  /\ c[1] = fileTag /\ c[2] \in Tramo => i \in Coinciden(marcos, c)
         /\ i \in Coinciden(marcos, c) =>
              /\ Coinciden(marcos, c) = {i} /\ c[1] = fileTag
              /\ Off(c[2]) \in {Off(d) : d \in Tramo} <=> c[2] \in Tramo
<1>1. /\ \A d \in Tramo : d \in Nat /\ Pag(d) = Pag(dir)
      /\ c[2] \in Nat
  <2>1. PICK s \in Nat :
          /\ Tramo = dir..(s - 1)
          /\ \A e \in dir..(s - 1) : e \in Direcciones /\ Pag(e) = Pag(dir)
    BY TramoDePagina
  <2>2. \A e \in Direcciones : e \in Nat
    BY Tamanos DEF Direcciones
  <2> QED BY <2>1, <2>2, PosicionTipo
<1>2. c[1] = fileTag /\ c[2] \in Tramo => i \in Coinciden(marcos, c)
  BY <1>1 DEF Coinciden, FrameMatchea
<1>3. ASSUME i \in Coinciden(marcos, c)
      PROVE  /\ Coinciden(marcos, c) = {i} /\ c[1] = fileTag
             /\ Off(c[2]) \in {Off(d) : d \in Tramo} <=> c[2] \in Tramo
  <2>1. Coinciden(marcos, c) = {i}
    BY <1>3, UnMarco
  <2>2. c[1] = fileTag /\ Pag(c[2]) = Pag(dir)
    BY <1>3 DEF Coinciden, FrameMatchea
  <2>3. ASSUME NEW d \in Tramo, Off(c[2]) = Off(d) PROVE c[2] = d
    <3>1. d \in Nat /\ Pag(c[2]) = Pag(d)
      BY <1>1, <2>2
    <3> QED BY <1>1, <2>3, <3>1, OffDistintos
  <2> QED BY <2>1, <2>2, <2>3
<1> QED BY <1>2, <1>3

LEMMA EscrituraCelda ==
  ASSUME Tipos, Tabla, NEW i \in Marcos, AccederTramo(i), op = "WRITE",
         NEW c \in Posiciones
  PROVE  IF c[1] = fileTag /\ c[2] \in Tramo
         THEN /\ ByteEn(marcos, almacen, c) # Nada
              /\ ByteEn(marcos', almacen', c) = valor
              /\ ~ViejoEn(marcos', almacen', c)
         ELSE Sigue(c)
<1> DEFINE E == {Off(d) : d \in Tramo}
           b == [o \in Offsets |-> IF o \in E THEN valor ELSE marcos[i].base[o]]
           m == [Usado(marcos[i]) EXCEPT !.dirty = TRUE, !.M = 1, !.base = b]
<1>1. /\ marcos' = [marcos EXCEPT ![i] = m] /\ almacen' = almacen
      /\ FrameMatchea(i, fileTag, Pag(dir)) /\ dir < fin
      /\ marcos \in [Marcos -> Marco] /\ marcos[i] \in Marco
      /\ TypeOK /\ TablaCoherente
  BY DEF AccederTramo, Tipos, TypeOK, Tabla
<1>2. /\ m.libre = marcos[i].libre /\ m.file = marcos[i].file
      /\ m.pagina = marcos[i].pagina /\ m.dirty = TRUE /\ m.base = b
  <2> HIDE DEF b
  <2> QED BY <1>1 DEF Usado, Marco
<1> HIDE DEF m
<1>3. marcos'[i] = m /\ \A j \in Marcos \ {i} : marcos'[j] = marcos[j]
  BY <1>1
<1>4. Coinciden(marcos', c) = Coinciden(marcos, c)
  BY <1>2, <1>3 DEF Coinciden
<1>5. \A j \in Marcos \ {i} : MismaPagina(marcos'[j], marcos[j])
  BY <1>3 DEF MismaPagina
<1>6. CASE i \notin Coinciden(marcos, c)
  <2>1. Igual(c)
    BY <1>1, <1>4, <1>5, <1>6, OtrasPaginas
  <2>2. ~(c[1] = fileTag /\ c[2] \in Tramo)
    BY <1>1, <1>6, TramoEnMarco
  <2> QED BY <2>1, <2>2, IgualSigue
<1>7. CASE i \in Coinciden(marcos, c)
  <2>1. /\ Coinciden(marcos, c) = {i} /\ Coinciden(marcos', c) = {i}
        /\ c[1] = fileTag
        /\ Off(c[2]) \in E <=> c[2] \in Tramo
    BY <1>1, <1>4, <1>7, TramoEnMarco
  <2>2. ByteEn(marcos, almacen, c) = marcos[i].base[Off(c[2])]
    BY <2>1, EnUnMarco
  <2>3. /\ ByteEn(marcos', almacen', c) = marcos'[i].base[Off(c[2])]
        /\ ViejoEn(marcos', almacen', c) => ~marcos'[i].dirty
    BY <2>1, EnUnMarco
  <2>4. Off(c[2]) \in Offsets
    BY PosicionTipo
  <2>5. marcos[i].base[Off(c[2])] # Nada
    BY <1>1, <2>4, SupuestosMemoria DEF Marco, Bloques
  <2> HIDE DEF E
  <2>6. marcos'[i].base[Off(c[2])] = IF Off(c[2]) \in E THEN valor
                                     ELSE marcos[i].base[Off(c[2])]
    BY <1>2, <1>3, <2>4
  <2>7. marcos'[i].dirty
    BY <1>2, <1>3
  <2> QED BY <2>1, <2>2, <2>3, <2>5, <2>6, <2>7 DEF Sigue
<1> QED BY <1>6, <1>7

LEMMA LecturaCelda ==
  ASSUME Tipos, Tabla, NEW i \in Marcos, AccederTramo(i), op = "READ",
         NEW c \in Posiciones
  PROVE  /\ Sigue(c)
         /\ c[1] = fileTag =>
              salida'[c[2]] = IF c[2] \in Tramo THEN ByteEn(marcos, almacen, c)
                              ELSE salida[c[2]]
<1>1. /\ marcos' = [marcos EXCEPT ![i] = Usado(marcos[i])] /\ almacen' = almacen
      /\ salida' = [d \in Direcciones |->
           IF d \in Tramo THEN marcos[i].base[Off(d)] ELSE salida[d]]
      /\ FrameMatchea(i, fileTag, Pag(dir)) /\ dir < fin
      /\ marcos \in [Marcos -> Marco] /\ marcos[i] \in Marco
      /\ TypeOK /\ TablaCoherente
  BY DEF AccederTramo, Tipos, TypeOK, Tabla
<1>2. MismaPagina(Usado(marcos[i]), marcos[i])
  BY <1>1 DEF Usado, Marco, MismaPagina
<1>3. \A j \in Marcos : MismaPagina(marcos'[j], marcos[j])
  BY <1>1, <1>2 DEF MismaPagina
<1>4. Sigue(c)
  BY <1>1, <1>3, PaginasIguales, IgualSigue
<1>5. c[2] \in Direcciones
  BY PosicionTipo
<1>6. c[1] = fileTag /\ c[2] \in Tramo
        => ByteEn(marcos, almacen, c) = marcos[i].base[Off(c[2])]
  <2>1. c[1] = fileTag /\ c[2] \in Tramo => Coinciden(marcos, c) = {i}
    BY <1>1, TramoEnMarco
  <2> QED BY <2>1, EnUnMarco
<1> QED BY <1>1, <1>4, <1>5, <1>6

\* Between two accesses the buffer of a READ is empty.
SinResto == op \notin Accesos => salida = SinSalida

LEMMA InitResto == Init => SinResto
BY DEF Init, SinResto

LEMMA TerminarResto == ASSUME NEW r, Terminar(r) PROVE SinResto'
BY DEF Terminar, SinResto

LEMMA PasoResto == Tipos /\ SinResto /\ [Next]_vars => SinResto'
<1> SUFFICES ASSUME Tipos, SinResto, [Next]_vars PROVE SinResto'
  OBVIOUS
<1>1. ASSUME NEW f \in FileTags, NEW base \in Direcciones,
             NEW tam \in 0..(NPAG * PAGE_SIZE),
             Read(f, base, tam) \/ \E v \in Bytes : Write(f, base, tam, v)
      PROVE  SinResto'
  BY <1>1 DEF Read, Write, Empezar, SinResto, Accesos
<1>2. ASSUME NEW o \in Volcados, NEW f \in FileTags \cup {Nada}, Volcar(o, f)
      PROVE  SinResto'
  BY <1>2 DEF Volcar, Empezar, SinResto, Accesos
<1>3. CASE AccesoCompleto \/ VictimaRechazada \/ LecturaRechazada \/ FlushRechazado
           \/ \E r \in {0, -1} : AvisarFlush(r) \/ AvisarDelete(r)
  BY <1>3, TerminarResto DEF AccesoCompleto, VictimaRechazada, LecturaRechazada,
     FlushRechazado, AvisarFlush, AvisarDelete
<1>4. CASE \/ \E i \in Marcos : AccederTramo(i)
           \/ TomarMarcoLibre \/ ReemplazarVictima \/ LlegaPagina
  BY <1>4 DEF AccederTramo, TomarMarcoLibre, ReemplazarVictima, Falta,
     LlegaPagina, SinResto
<1>5. CASE FlushPagina
  BY <1>5 DEF FlushPagina, SinResto
<1>6. CASE \/ \E f \in FileTags, n \in 0..NPAG : Truncate(f, n)
           \/ \E p \in Paginas, b \in Bloques \cup {Nada} : CambioAjeno(p, b)
           \/ UNCHANGED vars
  BY <1>6 DEF Truncate, CambioAjeno, vars, varsInstr, SinResto
<1> QED BY <1>1, <1>2, <1>3, <1>4, <1>5, <1>6 DEF Next

-----------------------------------------------------------------------------
(* The steps of MemoriaPlana. *)

LEMMA PlanaSolo ==
  ASSUME NEW A,
         \A c \in Posiciones :
           /\ ViejoEn(marcos', almacen', c) => ViejoEn(marcos, almacen, c)
           /\ c \notin A /\ ~ViejoEn(marcos, almacen, c) =>
                ByteEn(marcos', almacen', c) = ByteEn(marcos, almacen, c)
  PROVE  Plana!SoloVencidosCambian(A)
<1>1. \A c \in FileTags \X Direcciones :
        /\ Vencido(c[1], c[2])' => Vencido(c[1], c[2])
        /\ c \notin A /\ ~Vencido(c[1], c[2]) =>
             Visible(c[1], c[2])' = Visible(c[1], c[2])
  BY VisibleEs DEF Posiciones
<1> QED BY <1>1 DEF Plana!SoloVencidosCambian, Plana!Celdas

LEMMA PlanaNada ==
  ASSUME \A c \in Posiciones : Sigue(c)
  PROVE  Plana!SoloVencidosCambian({})
BY PlanaSolo DEF Sigue

\* The order a WRITE or READ stands for.
Orden == IF op \in Accesos
         THEN [op |-> op, file |-> fileTag, dir |-> dir, fin |-> fin, valor |-> valor]
         ELSE Nada

LEMMA OrdenNada ==
  ASSUME Tipos, op \in Accesos
  PROVE  /\ [op |-> op, file |-> fileTag, dir |-> dir, fin |-> fin, valor |-> valor]
              # Nada
<1>1. dir \in Nat /\ fin \in Nat /\ fileTag \in FileTags /\ valor \in Bytes \cup {Nada}
  BY Tamanos DEF Tipos, TypeOK, Curso
<1> QED BY <1>1, NadaAparte

\* A step after which the memory and the instruction are the same.
LEMMA PlanaQuieta ==
  ASSUME \A c \in Posiciones : Igual(c), Orden' = Orden, UNCHANGED <<salida, rc>>
  PROVE  UNCHANGED Plana!varsPlana
<1>1. \A c \in FileTags \X Direcciones :
        /\ Vencido(c[1], c[2])' <=> Vencido(c[1], c[2])
        /\ Visible(c[1], c[2])' = Visible(c[1], c[2])
  BY VisibleEs DEF Posiciones, Igual
<1> QED BY <1>1 DEF Plana!varsPlana, Orden

LEMMA InitPlana == Init => Plana!Init
<1> SUFFICES ASSUME Init PROVE Plana!Init
  OBVIOUS
<1>1. \A c \in Posiciones : Coinciden(marcos, c) = {}
  BY DEF Init, Coinciden
<1>2. \A c \in Posiciones : almacen[PaginaEn(c)] = Nada
  BY PosicionTipo DEF Init
<1>3. \A c \in FileTags \X Direcciones :
        Visible(c[1], c[2]) = Nada /\ ~Vencido(c[1], c[2])
  BY <1>1, <1>2, EnNinguno, VisibleEs DEF Posiciones
<1>4. op \notin Accesos /\ salida = SinSalida /\ rc = 0
  BY DEF Init, Accesos
<1> QED BY <1>3, <1>4 DEF Plana!Init, Plana!Celdas, Plana!Vacio, SinSalida

LEMMA PlanaOrdenar ==
  ASSUME Tipos, SinResto, NEW f \in FileTags, NEW base \in Direcciones,
         NEW tam \in 0..(NPAG * PAGE_SIZE),
         Read(f, base, tam) \/ \E v \in Bytes : Write(f, base, tam, v)
  PROVE  Plana!Ordenar
<1>1. /\ op \notin Accesos /\ op' \in Accesos /\ fileTag' = f
      /\ UNCHANGED <<marcos, almacen, salida, rc>>
      /\ dir' = base /\ fin' = base + tam /\ valor' \in Bytes \cup {Nada}
  BY DEF Read, Write, Empezar, varsMemoria, Accesos, Tipos, TypeOK
<1>2. base \in Nat /\ base + tam \in Nat
  BY Tamanos DEF Direcciones
<1>3. [op |-> op', file |-> fileTag', dir |-> dir', fin |-> fin', valor |-> valor']
        # Nada
  BY <1>1, <1>2, NadaAparte
<1>4. \A c \in Posiciones : Igual(c)
  BY <1>1, PaginasIguales DEF MismaPagina
<1>5. \A c \in FileTags \X Direcciones :
        /\ Vencido(c[1], c[2])' <=> Vencido(c[1], c[2])
        /\ Visible(c[1], c[2])' = Visible(c[1], c[2])
  BY <1>4, VisibleEs DEF Posiciones, Igual
<1> QED BY <1>1, <1>3, <1>5 DEF Plana!Ordenar

LEMMA PlanaStutter ==
  ASSUME Tipos,
         TomarMarcoLibre \/ UNCHANGED vars
           \/ \E o \in Volcados, f \in FileTags \cup {Nada} : Volcar(o, f)
  PROVE  UNCHANGED Plana!varsPlana
<1>1. UNCHANGED <<marcos, almacen, salida, rc>> /\ Orden' = Orden
  BY DEF TomarMarcoLibre, Volcar, Empezar, vars, varsInstr, varsMemoria, Orden,
     Accesos, Volcados
<1>2. \A c \in Posiciones : Igual(c)
  BY <1>1, PaginasIguales DEF MismaPagina
<1> QED BY <1>1, <1>2, PlanaQuieta

LEMMA PlanaReacomodar ==
  ASSUME Tipos, Tabla, Tabla', ReemplazarVictima \/ LlegaPagina \/ FlushPagina
  PROVE  Plana!Reacomodar
<1>1. \A c \in Posiciones : Sigue(c)
  BY ReemplazoSigue, LlegadaSigue, FlushSigue
<1>2. UNCHANGED <<salida, rc>> /\ Orden' = Orden
  BY DEF ReemplazarVictima, Falta, LlegaPagina, FlushPagina, Orden, Accesos, Volcados
<1>3. Plana!SoloVencidosCambian({})
  BY <1>1, PlanaNada
<1> QED BY <1>2, <1>3 DEF Plana!Reacomodar, Orden

LEMMA PlanaFallar ==
  ASSUME Tipos, Tabla, VictimaRechazada \/ LecturaRechazada
  PROVE  Plana!Fallar
<1>1. op \in Accesos /\ Terminar(-1) /\ almacen' = almacen
  BY DEF VictimaRechazada, LecturaRechazada, StorageRechaza, Falta
<1>2. \A j \in Marcos : MismaPagina(marcos'[j], marcos[j])
  <2>1. CASE VictimaRechazada
    BY <2>1, ElegirPaginas DEF VictimaRechazada
  <2>2. CASE LecturaRechazada
    BY <2>2 DEF LecturaRechazada, varsMemoria, MismaPagina
  <2> QED BY <2>1, <2>2
<1>3. Plana!SoloVencidosCambian({})
  BY <1>1, <1>2, PaginasIguales, IgualSigue, PlanaNada
<1>4. op' \notin Accesos /\ salida' = SinSalida /\ rc' = -1
  BY <1>1 DEF Terminar, Accesos
<1> QED BY <1>1, <1>3, <1>4, OrdenNada DEF Plana!Fallar, Plana!Vacio, SinSalida

LEMMA PlanaCompletar ==
  ASSUME Tipos, AccesoCompleto
  PROVE  Plana!Completar
<1>1. /\ op \in Accesos /\ dir = fin /\ Terminar(0)
      /\ marcos' = marcos /\ almacen' = almacen
  BY DEF AccesoCompleto, varsMemoria
<1>2. \A c \in Posiciones : Igual(c)
  BY <1>1, PaginasIguales DEF MismaPagina
<1>3. \A c \in FileTags \X Direcciones :
        /\ Vencido(c[1], c[2])' <=> Vencido(c[1], c[2])
        /\ Visible(c[1], c[2])' = Visible(c[1], c[2])
  BY <1>2, VisibleEs DEF Posiciones, Igual
<1>4. op' \notin Accesos /\ salida' = SinSalida /\ rc' = 0
  BY <1>1 DEF Terminar, Accesos
<1> QED BY <1>1, <1>3, <1>4, OrdenNada DEF Plana!Completar, Plana!Vacio, SinSalida

LEMMA PlanaTramo ==
  ASSUME Tipos, Tabla, NEW i \in Marcos, AccederTramo(i)
  PROVE  \E d \in Direcciones : Plana!Escribir(d + 1) \/ Plana!Leer(d + 1)
<1>1. /\ op \in Accesos /\ dir < fin /\ dir' = Min({fin, (Pag(dir) + 1) * PAGE_SIZE})
      /\ UNCHANGED <<op, fileTag, fin, valor, rc>> /\ TypeOK
      /\ op = "WRITE" => UNCHANGED salida
      /\ op = "READ" => salida' = [d \in Direcciones |->
           IF d \in Tramo THEN marcos[i].base[Off(d)] ELSE salida[d]]
      /\ fileTag \in FileTags
  BY DEF AccederTramo, Tipos, Curso
<1>2. PICK s \in Nat : /\ s = dir' /\ dir < s /\ s =< fin /\ s - 1 \in Direcciones
                       /\ Tramo = dir..(s - 1)
                       /\ \A e \in dir..(s - 1) : e \in Direcciones
  BY <1>1, TramoDePagina
<1>3. PICK d \in Direcciones : d = s - 1 /\ d + 1 = s
  BY <1>2
<1>4. Plana!Avanzar(d + 1)
  <2>1. Orden # Nada /\ Orden.dir = dir /\ Orden.fin = fin
        /\ Orden' = [Orden EXCEPT !.dir = s]
    BY <1>1, <1>2, OrdenNada DEF Orden
  <2> QED BY <1>1, <1>2, <1>3, <2>1 DEF Plana!Avanzar, Orden
<1>5. Plana!Hasta(d + 1) = Tramo
  BY <1>1, <1>2, <1>3 DEF Plana!Hasta
<1>6. CASE op = "WRITE"
  <2>1. \A c \in Posiciones :
          IF c[1] = fileTag /\ c[2] \in Tramo
          THEN /\ ByteEn(marcos, almacen, c) # Nada
               /\ ByteEn(marcos', almacen', c) = valor
               /\ ~ViejoEn(marcos', almacen', c)
          ELSE Sigue(c)
    BY <1>6, EscrituraCelda
  <2>2. Plana!SoloVencidosCambian({fileTag} \X Tramo)
    <3>1. \A c \in Posiciones : c \in {fileTag} \X Tramo
                                  <=> c[1] = fileTag /\ c[2] \in Tramo
      BY DEF Posiciones
    <3> QED BY <2>1, <3>1, PlanaSolo DEF Sigue
  <2>3. \A c \in FileTags \X Direcciones : c[1] = fileTag /\ c[2] \in Tramo =>
          Visible(c[1], c[2]) # Nada /\ Visible(c[1], c[2])' = valor
    BY <2>1, VisibleEs DEF Posiciones
  <2>4. \A e \in Tramo :
          /\ [c \in FileTags \X Direcciones |-> Visible(c[1], c[2])][<<fileTag, e>>] # Nada
          /\ [c \in FileTags \X Direcciones |-> Visible(c[1], c[2])'][<<fileTag, e>>]
               = valor
    BY <1>1, <1>2, <2>3
  <2>5. Orden.op = "WRITE" /\ Orden.file = fileTag /\ Orden.valor = valor
    BY <1>6 DEF Orden, Accesos
  <2>6. Plana!SoloVencidosCambian({Orden.file} \X Plana!Hasta(d + 1))
    BY <1>5, <2>2, <2>5
  <2>7. \A e \in Plana!Hasta(d + 1) :
          /\ [c \in FileTags \X Direcciones |-> Visible(c[1], c[2])][<<Orden.file, e>>]
               # Nada
          /\ [c \in FileTags \X Direcciones |-> Visible(c[1], c[2])'][<<Orden.file, e>>]
               = Orden.valor
    BY <1>5, <2>4, <2>5
  <2>8. salida' = salida
    BY <1>1, <1>6
  <2> QED BY <1>3, <1>4, <2>5, <2>6, <2>7, <2>8 DEF Plana!Escribir, Orden
<1>7. CASE op = "READ"
  <2>1. \A c \in Posiciones :
          /\ Sigue(c)
          /\ c[1] = fileTag =>
               salida'[c[2]] = IF c[2] \in Tramo THEN ByteEn(marcos, almacen, c)
                               ELSE salida[c[2]]
    BY <1>7, LecturaCelda
  <2>2. Plana!SoloVencidosCambian({})
    BY <2>1, PlanaNada
  <2>3. ASSUME NEW e \in Direcciones
        PROVE  salida'[e] =
                 IF e \in Tramo
                 THEN [c \in FileTags \X Direcciones |-> Visible(c[1], c[2])][<<fileTag, e>>]
                 ELSE salida[e]
    <3>1. PICK c \in Posiciones : c = <<fileTag, e>> /\ c[1] = fileTag /\ c[2] = e
      <4>1. <<fileTag, e>> \in Posiciones
        BY <1>1 DEF Posiciones
      <4> QED BY <4>1
    <3>2. [k \in FileTags \X Direcciones |-> Visible(k[1], k[2])][c] = Visible(c[1], c[2])
      BY DEF Posiciones
    <3> QED BY <2>1, <3>1, <3>2, VisibleEs
  <2>4. Orden.op = "READ" /\ Orden.file = fileTag
    BY <1>7 DEF Orden, Accesos
  <2>5. salida' = [e \in Direcciones |->
          IF e \in Plana!Hasta(d + 1)
          THEN [c \in FileTags \X Direcciones |-> Visible(c[1], c[2])][<<Orden.file, e>>]
          ELSE salida[e]]
    BY <1>1, <1>5, <1>7, <2>3, <2>4
  <2> QED BY <1>3, <1>4, <2>2, <2>4, <2>5 DEF Plana!Leer, Orden
<1> QED BY <1>1, <1>6, <1>7 DEF Accesos

\* A step between two accesses that leaves the frames alone, and brings pages to
\* Storage without taking any from it.
LEMMA PlanaCrecer ==
  ASSUME Tipos, Tabla, SinResto, SinResto', op \notin Accesos, op' \notin Accesos,
         marcos' = marcos,
         \A p \in Paginas : almacen'[p] = almacen[p] \/ almacen[p] = Nada
  PROVE  Plana!Crecer
<1> DEFINE A == {c \in FileTags \X Direcciones :
                   [k \in FileTags \X Direcciones |-> Visible(k[1], k[2])][c] = Nada}
<1>1. ASSUME NEW c \in Posiciones
      PROVE  /\ ViejoEn(marcos', almacen', c) => ViejoEn(marcos, almacen, c)
             /\ c \notin A /\ ~ViejoEn(marcos, almacen, c) =>
                  ByteEn(marcos', almacen', c) = ByteEn(marcos, almacen, c)
  <2>1. almacen'[PaginaEn(c)] = almacen[PaginaEn(c)] \/ almacen[PaginaEn(c)] = Nada
    BY PosicionTipo
  <2>2. c \in A <=> ByteEn(marcos, almacen, c) = Nada
    BY VisibleEs DEF Posiciones
  <2>3. CASE almacen'[PaginaEn(c)] = almacen[PaginaEn(c)]
    BY <2>3, MarcosIguales DEF Tabla, Igual
  <2>4. CASE almacen[PaginaEn(c)] = Nada
    BY <2>2, <2>4, MarcosIguales DEF Tabla
  <2> QED BY <2>1, <2>3, <2>4
<1>2. Plana!SoloVencidosCambian(A)
  <2> HIDE DEF A
  <2> QED BY <1>1, PlanaSolo
<1>3. salida' = salida
  BY DEF SinResto
<1> QED BY <1>2, <1>3 DEF Plana!Crecer, Plana!Celdas

\* A step that leaves the frames alone and takes from Storage the pages of f from
\* the n-th on.
LEMMA PlanaRecortar ==
  ASSUME Tipos, Tabla, SinResto, SinResto', op \notin Accesos, op' \notin Accesos,
         marcos' = marcos, NEW f \in FileTags, NEW n \in 0..(NPAG - 1),
         \A p \in Paginas : IF p[1] = f /\ p[2] >= n THEN almacen'[p] = Nada
                            ELSE almacen'[p] = almacen[p] \/ almacen[p] = Nada
  PROVE  \E g \in FileTags, d \in Direcciones : Plana!Recortar(g, d)
<1> DEFINE d == n * PAGE_SIZE
           F == {f} \X {e \in Direcciones : e >= d}
<1>1. d \in Direcciones
  <2>1. n \in Nat /\ NPAG \in Nat /\ PAGE_SIZE \in Nat \ {0} /\ n =< NPAG - 1
    BY SupuestosMemoria
  <2>2. d \in Nat /\ d =< (NPAG - 1) * PAGE_SIZE
    BY <2>1, SMTT(30)
  <2>3. (NPAG - 1) * PAGE_SIZE = NPAG * PAGE_SIZE - PAGE_SIZE /\ NPAG * PAGE_SIZE \in Nat
    BY <2>1
  <2> HIDE DEF d
  <2> QED BY <2>1, <2>2, <2>3 DEF Direcciones
<1>2. ASSUME NEW c \in Posiciones
      PROVE  c \in F <=> PaginaEn(c)[1] = f /\ PaginaEn(c)[2] >= n
  <2>1. Pag(c[2]) >= n <=> c[2] >= d
    <3>1. c[2] \in Nat /\ PAGE_SIZE \in Nat \ {0} /\ n \in Nat
      BY PosicionTipo, SupuestosMemoria
    <3>2. c[2] \div PAGE_SIZE >= n <=> c[2] >= n * PAGE_SIZE
      BY <3>1, PagDesde
    <3> QED BY <3>2 DEF Pag
  <2> HIDE DEF d
  <2> QED BY <2>1 DEF Posiciones, PaginaEn
<1> HIDE DEF F
<1>3. ASSUME NEW c \in Posiciones
      PROVE  /\ ViejoEn(marcos', almacen', c) => ViejoEn(marcos, almacen, c) \/ c \in F
             /\ \/ ByteEn(marcos', almacen', c) = ByteEn(marcos, almacen, c)
                \/ ByteEn(marcos, almacen, c) = Nada
                \/ c \in F /\ ByteEn(marcos', almacen', c) = Nada
  <2>1. IF c \in F THEN almacen'[PaginaEn(c)] = Nada
        ELSE \/ almacen'[PaginaEn(c)] = almacen[PaginaEn(c)]
             \/ almacen[PaginaEn(c)] = Nada
    BY <1>2, PosicionTipo
  <2>2. CASE c \in F
    BY <2>1, <2>2, MarcosIguales DEF Tabla
  <2>3. CASE almacen'[PaginaEn(c)] = almacen[PaginaEn(c)]
    BY <2>3, MarcosIguales DEF Tabla, Igual
  <2>4. CASE almacen[PaginaEn(c)] = Nada
    BY <2>4, MarcosIguales DEF Tabla
  <2> QED BY <2>1, <2>2, <2>3, <2>4
<1>4. \A c \in FileTags \X Direcciones :
        /\ Vencido(c[1], c[2])' => Vencido(c[1], c[2]) \/ c \in F
        /\ \/ Visible(c[1], c[2])' = Visible(c[1], c[2])
           \/ Visible(c[1], c[2]) = Nada
           \/ c \in F /\ Visible(c[1], c[2])' = Nada
  BY <1>3, VisibleEs DEF Posiciones
<1>5. salida' = salida
  BY DEF SinResto
<1>6. Plana!Recortar(f, d)
  <2> HIDE DEF d
  <2> QED BY <1>4, <1>5 DEF F, Plana!Recortar, Plana!Celdas
<1> HIDE DEF d
<1> QED BY <1>1, <1>6

\* What the flushes and TRUNCATE do to Storage when they end.
LEMMA PlanaFin ==
  ASSUME Tipos, Tabla, SinResto, SinResto',
         \/ FlushRechazado \/ \E r \in {0, -1} : AvisarFlush(r) \/ AvisarDelete(r)
         \/ \E f \in FileTags, n \in 0..NPAG : Truncate(f, n)
  PROVE  \/ Plana!Crecer
         \/ \E g \in FileTags, d \in Direcciones : Plana!Recortar(g, d)
<1>1. op \notin Accesos /\ op' \notin Accesos /\ marcos' = marcos
  BY DEF FlushRechazado, AvisarFlush, AvisarDelete, Truncate, Terminar, varsMemoria,
     Accesos, Volcados
<1>2. CASE almacen' = almacen
  BY <1>1, <1>2, PlanaCrecer
<1>3. CASE FlushRechazado \/ \E r \in {0, -1} : AvisarFlush(r)
  BY <1>2, <1>3 DEF FlushRechazado, StorageRechaza, AvisarFlush
<1>4. ASSUME NEW r \in {0, -1}, AvisarDelete(r), almacen' # almacen
      PROVE  \E g \in FileTags, d \in Direcciones : Plana!Recortar(g, d)
  <2>1. almacen' = [p \in Paginas |-> IF r = 0 /\ p[1] = fileTag THEN Nada
                                                                ELSE almacen[p]]
    BY <1>4 DEF AvisarDelete
  <2>2. almacen \in [Paginas -> Bloques \cup {Nada}]
    BY DEF Tipos, TypeOK
  <2>3. PICK q \in Paginas : r = 0 /\ q[1] = fileTag
    <3>1. CASE \A q \in Paginas : ~(r = 0 /\ q[1] = fileTag)
      BY <1>4, <2>1, <2>2, <3>1
    <3> QED BY <3>1
  <2>4. fileTag \in FileTags
    BY <2>3 DEF Paginas
  <2>5. 0 \in 0..(NPAG - 1) /\ \A p \in Paginas : p[2] >= 0
    BY Tamanos DEF Paginas
  <2>6. PICK f \in FileTags : f = fileTag
    BY <2>4
  <2>7. \A p \in Paginas : IF p[1] = f /\ p[2] >= 0 THEN almacen'[p] = Nada
                           ELSE almacen'[p] = almacen[p] \/ almacen[p] = Nada
    BY <2>1, <2>3, <2>5, <2>6
  <2> QED BY <1>1, <2>5, <2>7, PlanaRecortar
<1>5. ASSUME NEW f \in FileTags, NEW n \in 0..NPAG, Truncate(f, n), almacen' # almacen
      PROVE  \/ Plana!Crecer
             \/ \E g \in FileTags, d \in Direcciones : Plana!Recortar(g, d)
  <2>1. PICK nuevo \in Bloques :
          almacen' = [p \in Paginas |->
            IF p[1] # f THEN almacen[p]
            ELSE IF p[2] >= n THEN Nada
            ELSE IF almacen[p] = Nada THEN nuevo ELSE almacen[p]]
    BY <1>5 DEF Truncate
  <2>2. \A p \in Paginas : IF p[1] = f /\ p[2] >= n THEN almacen'[p] = Nada
                           ELSE almacen'[p] = almacen[p] \/ almacen[p] = Nada
    BY <2>1
  <2>3. CASE n < NPAG
    <3>1. n \in 0..(NPAG - 1)
      BY <2>3, Tamanos
    <3> QED BY <1>1, <2>2, <3>1, PlanaRecortar
  <2>4. CASE ~(n < NPAG)
    <3>1. \A p \in Paginas : ~(p[2] >= n)
      BY <2>4, Tamanos DEF Paginas
    <3> QED BY <1>1, <2>2, <3>1, PlanaCrecer
  <2> QED BY <2>3, <2>4
<1> QED BY <1>2, <1>3, <1>4, <1>5

LEMMA PasoPlana ==
  ASSUME ~Ajenos, Tipos, Tabla, Tabla', SinResto, SinResto', [Next]_vars
  PROVE  [Plana!Next]_Plana!varsPlana
<1>1. CASE \E f \in FileTags, base \in Direcciones, tam \in 0..(NPAG * PAGE_SIZE) :
             /\ base + tam =< NPAG * PAGE_SIZE
             /\ Read(f, base, tam) \/ \E v \in Bytes : Write(f, base, tam, v)
  BY <1>1, PlanaOrdenar DEF Plana!Next
<1>2. CASE \E i \in Marcos : AccederTramo(i)
  BY <1>2, PlanaTramo DEF Plana!Next
<1>3. CASE AccesoCompleto
  BY <1>3, PlanaCompletar DEF Plana!Next
<1>4. CASE ReemplazarVictima \/ LlegaPagina \/ FlushPagina
  BY <1>4, PlanaReacomodar DEF Plana!Next
<1>5. CASE VictimaRechazada \/ LecturaRechazada
  BY <1>5, PlanaFallar DEF Plana!Next
<1>6. CASE \/ FlushRechazado \/ \E r \in {0, -1} : AvisarFlush(r) \/ AvisarDelete(r)
           \/ \E f \in FileTags, n \in 0..NPAG : Truncate(f, n)
  BY <1>6, PlanaFin DEF Plana!Next
<1>7. CASE \/ TomarMarcoLibre \/ UNCHANGED vars
           \/ \E o \in Volcados, f \in FileTags \cup {Nada} : Volcar(o, f)
  BY <1>7, PlanaStutter
<1> QED BY <1>1, <1>2, <1>3, <1>4, <1>5, <1>6, <1>7 DEF Next, CambioAjeno

\* Frames, replacement, write-back and failed calls are invisible: with nobody
\* else writing to Storage, the WRITEs and READs of a Worker (acceder_memoria and
\* all it calls) work on plain arrays of bytes.
THEOREM MemoriaEsPlana ==
  ASSUME ~Ajenos
  PROVE  Spec => ImplementaPlana
<1>1. Init => Tipos /\ Tabla /\ SinResto /\ Plana!Init
  BY InitTipos, InitTabla, InitResto, InitPlana
<1>2. Tipos /\ Tabla /\ SinResto /\ [Next]_vars => Tipos' /\ Tabla' /\ SinResto'
  BY PasoTipos, PasoTabla, PasoResto
<1>3. Tipos /\ Tabla /\ Tabla' /\ SinResto /\ SinResto' /\ [Next]_vars
        => [Plana!Next]_Plana!varsPlana
  BY PasoPlana
<1> QED BY <1>1, <1>2, <1>3, PTL DEF Spec, ImplementaPlana, Plana!Spec
=============================================================================
