------------------------------ MODULE Memoria ------------------------------
(***************************************************************************)
(* The internal memory of a Worker (worker/src/memoria_Interna.c) under    *)
(* the instructions that use it (worker/src/instrucciones.c).              *)
(*                                                                         *)
(* The Worker has one thread.  A step is one visit to a frame or one call  *)
(* to Storage, because other Workers talk to Storage between two calls.    *)
(* Storage is an environment: "almacen" is the block a read of each page   *)
(* would be answered with, a call may be refused for any reason and is     *)
(* refused when the page does not exist.  With Ajenos, other Workers, or   *)
(* Storage itself, change any block at any time.                           *)
(*                                                                         *)
(* CREATE, TAG and END do not touch the memory.                            *)
(***************************************************************************)
EXTENDS Integers, FiniteSets, FiniteSetsExt

CONSTANTS
  FileTags,   \* the File:Tag pairs the queries name
  Bytes,      \* the values of a byte
  Nada,       \* NULL; a page Storage does not have; no frame
  PAGE_SIZE,  \* bytes per page
  FRAMES,     \* tam_memoria / page_size
  ALGORITMO,  \* REEMPLAZO_LRU or REEMPLAZO_CLOCKM
  RETARDO,    \* RETARDO_MEMORIA in ms: 0, or at least one tick of the clock
  Ajenos,     \* somebody else writes to Storage
  NPAG,       \* bound on the pages of a file
  MaxReloj    \* bound on the clock

\* A memory smaller than one page has no frames: every access fails.
ASSUME SupuestosMemoria ==
  /\ PAGE_SIZE \in Nat \ {0} /\ FRAMES \in Nat \ {0} /\ NPAG \in Nat \ {0}
  /\ ALGORITMO \in {"LRU", "CLOCK-M"}
  /\ RETARDO \in {0, 1} /\ Ajenos \in BOOLEAN /\ MaxReloj \in Nat
  /\ Nada \notin Bytes /\ Nada \notin FileTags /\ Nada \notin Nat
  /\ Nada \notin [0..(PAGE_SIZE - 1) -> Bytes]

VARIABLES
  \* the frame table, the hand of CLOCK-M and RELOJ_LRU in ms
  marcos, PUNTERO_RELOJ, reloj,
  \* the instruction in course: its File:Tag, base + desplaz, base + size, the
  \* byte a WRITE repeats, the frame traer_pagina is about to fill, the buffer
  \* of a READ, what the last instruction returned
  op, fileTag, dir, fin, valor, marco, salida, rc,
  \* Storage
  almacen,
  \* history: the bytes written that Storage has not taken yet; the pairs
  \* of frames of which the first was last accessed before the second
  pendiente, antes

varsMemoria == <<marcos, PUNTERO_RELOJ, reloj>>
varsInstr   == <<op, fileTag, dir, fin, valor, marco, salida, rc>>
vars == <<varsMemoria, varsInstr, almacen, pendiente, antes>>

Marcos      == 0..(FRAMES - 1)
Paginas     == FileTags \X (0..(NPAG - 1))
Offsets     == 0..(PAGE_SIZE - 1)
Bloques     == [Offsets -> Bytes]
Direcciones == 0..(NPAG * PAGE_SIZE - 1)
Celdas      == Paginas \X Offsets
SinSalida   == [d \in Direcciones |-> Nada]
Accesos     == {"WRITE", "READ"}
Volcados    == {"FLUSH", "COMMIT", "DELETE", "DESALOJO"}

\* Nada is none of the WRITEs and READs.
ASSUME NadaAparte ==
  Nada \notin [op : Accesos, file : FileTags, dir : Nat, fin : Nat,
               valor : Bytes \cup {Nada}]

Pag(d) == d \div PAGE_SIZE
Off(d) == d % PAGE_SIZE

Init ==
  /\ \E cero \in Bytes :
       marcos = [i \in Marcos |->
                  [libre |-> TRUE, file |-> Nada, pagina |-> 0,
                   base |-> [o \in Offsets |-> cero], dirty |-> FALSE,
                   U |-> 0, M |-> 0, last_used |-> 0]]
  /\ PUNTERO_RELOJ = 0 /\ reloj = 0
  /\ op = "listo" /\ fileTag = Nada /\ dir = 0 /\ fin = 0 /\ valor = Nada
  /\ marco = Nada /\ salida = SinSalida /\ rc = 0
  /\ almacen = [p \in Paginas |-> Nada]
  /\ pendiente = [c \in Celdas |-> Nada]
  /\ antes = {}

-----------------------------------------------------------------------------
(* Frames. *)

Libres   == {i \in Marcos : marcos[i].libre}
Ocupados == Marcos \ Libres

PaginaDe(i) == <<marcos[i].file, marcos[i].pagina>>

FrameMatchea(i, f, n) ==
  ~marcos[i].libre /\ marcos[i].file = f /\ marcos[i].pagina = n

Sucios(f) == {i \in Marcos : ~marcos[i].libre /\ marcos[i].dirty
                             /\ marcos[i].file # Nada
                             /\ f \in {Nada, marcos[i].file}}

\* Frame i was accessed now.
Despues(i) == {ij \in antes : i \notin {ij[1], ij[2]}}
              \cup (Marcos \ {i}) \X {i}

\* algoritmo_LRU: of the frames with the least last_used, the first.
VictimaLRU ==
  Min({i \in Ocupados :
        \A j \in Ocupados : marcos[i].last_used =< marcos[j].last_used})

\* algoritmo_CLOCKM: the order of the frames from the hand on, and its passes.
DesdePuntero(k) == (PUNTERO_RELOJ + k) % FRAMES
Vuelta(i)   == (i + FRAMES - PUNTERO_RELOJ) % FRAMES
Primero(S)  == DesdePuntero(Min({Vuelta(i) : i \in S}))
Clase(u, m) == {i \in Ocupados : marcos[i].U = u /\ marcos[i].M = m}

\* (Fault: the pass for (0,0) left out.)
SinPrimeraPasada ==
  IF Clase(0, 1) # {} THEN Primero(Clase(0, 1)) ELSE Primero(Ocupados)
VictimaCLOCKM ==
  IF Clase(0, 0) # {} THEN Primero(Clase(0, 0))
  ELSE IF Clase(0, 1) # {} THEN Primero(Clase(0, 1))
  ELSE Primero(Ocupados)

\* The frames whose use bit the second pass clears on its way to the victim.
Recorridos ==
  IF Clase(0, 0) # {} THEN {}
  ELSE IF Clase(0, 1) # {}
       THEN {i \in Ocupados : Vuelta(i) < Vuelta(VictimaCLOCKM)}
  ELSE Ocupados

Victima == IF ALGORITMO = "LRU" THEN VictimaLRU ELSE VictimaCLOCKM

\* What choosing the victim leaves in the frame table and in the hand.
TrasElegir ==
  IF ALGORITMO = "LRU" THEN marcos
  ELSE [i \in Marcos |->
         [marcos[i] EXCEPT !.U = IF i \in Recorridos THEN 0 ELSE @]]
\* (Fault: the hand is not wrapped.)
PunteroSinVuelta ==
  IF ALGORITMO = "LRU" THEN PUNTERO_RELOJ ELSE VictimaCLOCKM + 1
PunteroTrasElegir ==
  IF ALGORITMO = "LRU" THEN PUNTERO_RELOJ ELSE (VictimaCLOCKM + 1) % FRAMES

\* The Worker reads its clock after d ms or a little later.
PasaTiempo(d) == reloj' \in {reloj + d, reloj + 1} /\ reloj' =< MaxReloj

\* A frame was used, or its block was taken by Storage.  (Faults: last_used or
\* M forgotten.)
UsadoSinReloj(m) == [m EXCEPT !.U = 1]
Usado(m)         == [m EXCEPT !.U = 1, !.last_used = reloj']
LimpioSinM(m)    == [m EXCEPT !.dirty = FALSE]
Limpio(m)        == [m EXCEPT !.dirty = FALSE, !.M = 0]

\* A victim gives its page up, flushed first if dirty.
SinPagina(m) == [IF m.dirty THEN Limpio(m) ELSE m EXCEPT !.file = Nada]

-----------------------------------------------------------------------------
(* Calls to Storage. *)

\* escribir_pagina_storage: Storage takes the block of frame i.
StorageEscribe(i) ==
  LET p == PaginaDe(i) IN
  /\ almacen[p] # Nada
  /\ almacen' = [almacen EXCEPT ![p] = marcos[i].base]
  /\ pendiente' = [c \in Celdas |->
       IF c[1] = p /\ pendiente[c] = marcos[i].base[c[2]] THEN Nada
                                                         ELSE pendiente[c]]

StorageRechaza == UNCHANGED <<almacen, pendiente>>

\* flush_frame, when Storage takes the block.  (Fault: a dirty frame not sent.)
NoVolcar(i) == UNCHANGED <<almacen, pendiente>>
FlushFrame(i) == IF marcos[i].dirty THEN StorageEscribe(i)
                                    ELSE UNCHANGED <<almacen, pendiente>>

-----------------------------------------------------------------------------
(* WRITE and READ: ejecutar_Write, ejecutar_Read, acceder_memoria. *)

Terminar(r) ==
  /\ op' = "listo" /\ fileTag' = Nada /\ dir' = 0 /\ fin' = 0
  /\ valor' = Nada /\ marco' = Nada /\ salida' = SinSalida /\ rc' = r

Empezar(o, f) ==
  /\ op = "listo"
  /\ op' = o /\ fileTag' = f
  /\ UNCHANGED <<marco, salida, rc, varsMemoria, almacen, pendiente, antes>>

Write(f, base, tam, v) ==
  /\ tam > 0
  /\ Empezar("WRITE", f)
  /\ dir' = base /\ fin' = base + tam /\ valor' = v

Read(f, base, tam) ==
  /\ Empezar("READ", f)
  /\ dir' = base /\ fin' = base + tam /\ UNCHANGED valor

\* The addresses of the chunk: to the end of the page or of the access.  (Fault:
\* the chunk not cut at the end of the page.)
TramoEntero == dir..(fin - 1)
Tramo == dir..(Min({fin, (Pag(dir) + 1) * PAGE_SIZE}) - 1)

\* The page is in frame i: copy the chunk to it or from it.
AccederTramo(i) ==
  /\ op \in Accesos /\ marco = Nada /\ dir < fin
  /\ FrameMatchea(i, fileTag, Pag(dir))
  /\ PasaTiempo(RETARDO)
  /\ \/ /\ op = "WRITE"
        /\ LET escritos == {Off(d) : d \in Tramo} IN
           /\ marcos' = [marcos EXCEPT ![i] =
                [Usado(marcos[i]) EXCEPT !.dirty = TRUE, !.M = 1,
                   !.base = [o \in Offsets |-> IF o \in escritos THEN valor
                                               ELSE marcos[i].base[o]]]]
           /\ pendiente' = [c \in Celdas |->
                IF c[1] = PaginaDe(i) /\ c[2] \in escritos THEN valor
                                                          ELSE pendiente[c]]
        /\ UNCHANGED salida
     \/ /\ op = "READ"
        /\ marcos' = [marcos EXCEPT ![i] = Usado(@)]
        /\ salida' = [d \in Direcciones |->
             IF d \in Tramo THEN marcos[i].base[Off(d)] ELSE salida[d]]
        /\ UNCHANGED pendiente
  /\ dir' = Min({fin, (Pag(dir) + 1) * PAGE_SIZE})
  /\ antes' = Despues(i)
  /\ UNCHANGED <<PUNTERO_RELOJ, op, fileTag, fin, valor, marco, rc, almacen>>

\* The whole range was accessed; a READ sends its buffer to the Master.
AccesoCompleto ==
  /\ op \in Accesos /\ marco = Nada /\ dir = fin
  /\ Terminar(0)
  /\ UNCHANGED <<varsMemoria, almacen, pendiente, antes>>

-----------------------------------------------------------------------------
(* traer_pagina on a miss. *)

Falta == /\ op \in Accesos /\ marco = Nada /\ dir < fin
         /\ ~\E i \in Marcos : FrameMatchea(i, fileTag, Pag(dir))

TomarMarcoLibre ==
  /\ Falta /\ Libres # {}
  /\ marco' = Min(Libres)
  /\ UNCHANGED <<varsMemoria, op, fileTag, dir, fin, valor, salida, rc, almacen,
                 pendiente, antes>>

\* The victim loses its page, which goes back to Storage first when dirty.
ReemplazarVictima ==
  /\ Falta /\ Libres = {}
  /\ PUNTERO_RELOJ' = PunteroTrasElegir
  /\ marcos' = [TrasElegir EXCEPT ![Victima] =
                  SinPagina(@)]
  /\ FlushFrame(Victima)
  /\ marco' = Victima
  /\ UNCHANGED <<reloj, op, fileTag, dir, fin, valor, salida, rc, antes>>

\* The write-back is refused: the instruction fails, the victim stays.
VictimaRechazada ==
  /\ Falta /\ Libres = {} /\ marcos[Victima].dirty
  /\ PUNTERO_RELOJ' = PunteroTrasElegir
  /\ marcos' = TrasElegir
  /\ StorageRechaza
  /\ Terminar(-1)
  /\ UNCHANGED <<reloj, antes>>

\* lectura_pagina_storage answers: the frame now holds the page.
LlegaPagina ==
  LET p == <<fileTag, Pag(dir)>> IN
  /\ op \in Accesos /\ marco # Nada
  /\ almacen[p] # Nada
  /\ PasaTiempo(0)
  /\ marcos' = [marcos EXCEPT ![marco] =
       [libre |-> FALSE, file |-> p[1], pagina |-> p[2], base |-> almacen[p],
        dirty |-> FALSE, U |-> 1, M |-> 0, last_used |-> reloj']]
  /\ antes' = Despues(marco)
  /\ marco' = Nada
  /\ UNCHANGED <<PUNTERO_RELOJ, op, fileTag, dir, fin, valor, salida, rc,
                 almacen, pendiente>>

\* The read is refused: a replaced frame stays occupied and without a page.
LecturaRechazada ==
  /\ op \in Accesos /\ marco # Nada
  /\ StorageRechaza
  /\ Terminar(-1)
  /\ UNCHANGED <<varsMemoria, antes>>

-----------------------------------------------------------------------------
(* FLUSH, COMMIT, DELETE and the flush before OP_QUERY_DESALOJADA. *)

\* The flush before a preemption goes through every File:Tag.
Volcar(o, f) ==
  /\ (o = "DESALOJO") = (f = Nada)
  /\ Empezar(o, f)
  /\ UNCHANGED <<dir, fin, valor>>

\* The frame flush_filetag writes next: the first dirty one of the File:Tag.
\* flush_todos_filetags_modificados takes the File:Tag of the first dirty frame
\* and flushes all of it before it looks for the next.
Siguiente ==
  IF op = "DESALOJO" /\ Sucios(fileTag) = {} THEN Min(Sucios(Nada))
                                            ELSE Min(Sucios(fileTag))
QuedanSucios == Sucios(IF op = "DESALOJO" THEN Nada ELSE fileTag) # {}

FlushPagina ==
  /\ op \in Volcados /\ QuedanSucios
  /\ StorageEscribe(Siguiente)
  /\ marcos' = [marcos EXCEPT ![Siguiente] = Limpio(@)]
  /\ fileTag' = marcos[Siguiente].file
  /\ UNCHANGED <<PUNTERO_RELOJ, reloj, op, dir, fin, valor, marco, salida, rc,
                 antes>>

\* (Fault: the error is not returned.)
RechazoCallado ==
  /\ op \in Volcados /\ QuedanSucios
  /\ StorageRechaza
  /\ Terminar(0)
  /\ UNCHANGED <<varsMemoria, antes>>
FlushRechazado ==
  /\ op \in Volcados /\ QuedanSucios
  /\ StorageRechaza
  /\ Terminar(-1)
  /\ UNCHANGED <<varsMemoria, antes>>

\* Everything is written: OP_FLUSH or OP_COMMIT, which Storage may refuse, or
\* OP_QUERY_DESALOJADA.
AvisarFlush(r) ==
  /\ op \in Volcados \ {"DELETE"} /\ ~QuedanSucios
  /\ op = "DESALOJO" => r = 0
  /\ Terminar(r)
  /\ UNCHANGED <<varsMemoria, almacen, pendiente, antes>>

\* OP_DELETE.  FRAME_COUNT is 0, so the loop that frees the frames of the
\* File:Tag visits none.
AvisarDelete(r) ==
  /\ op = "DELETE" /\ ~QuedanSucios
  /\ almacen' = [p \in Paginas |-> IF r = 0 /\ p[1] = fileTag THEN Nada
                                                             ELSE almacen[p]]
  /\ Terminar(r)
  /\ UNCHANGED <<varsMemoria, pendiente, antes>>

-----------------------------------------------------------------------------
(* TRUNCATE and the rest of the world. *)

\* OP_TRUNCATE to n pages; every new page holds the same block.  FRAME_COUNT is
\* 0 here too: the frames past the end of the file stay.
Truncate(f, n) ==
  /\ op = "listo"
  /\ \/ /\ rc' = 0
        /\ \E nuevo \in Bloques :
             almacen' = [p \in Paginas |->
               IF p[1] # f THEN almacen[p]
               ELSE IF p[2] >= n THEN Nada
               ELSE IF almacen[p] = Nada THEN nuevo ELSE almacen[p]]
     \/ rc' = -1 /\ UNCHANGED almacen
  /\ UNCHANGED <<varsMemoria, op, fileTag, dir, fin, valor, marco, salida,
                 pendiente, antes>>

CambioAjeno(p, b) ==
  /\ Ajenos
  /\ almacen' = [almacen EXCEPT ![p] = b]
  /\ UNCHANGED <<varsMemoria, varsInstr, pendiente, antes>>

Next ==
  \/ \E f \in FileTags, base \in Direcciones, tam \in 0..(NPAG * PAGE_SIZE) :
       /\ base + tam =< NPAG * PAGE_SIZE
       /\ Read(f, base, tam) \/ \E v \in Bytes : Write(f, base, tam, v)
  \/ \E i \in Marcos : AccederTramo(i)
  \/ AccesoCompleto \/ TomarMarcoLibre \/ ReemplazarVictima \/ VictimaRechazada
  \/ LlegaPagina \/ LecturaRechazada
  \/ \E o \in Volcados, f \in FileTags \cup {Nada} : Volcar(o, f)
  \/ FlushPagina \/ FlushRechazado
  \/ \E r \in {0, -1} : AvisarFlush(r) \/ AvisarDelete(r)
  \/ \E f \in FileTags, n \in 0..NPAG : Truncate(f, n)
  \/ \E p \in Paginas, b \in Bloques \cup {Nada} : CambioAjeno(p, b)

Spec == Init /\ [][Next]_vars

-----------------------------------------------------------------------------
(* Properties. *)

Marco == [libre : BOOLEAN, file : FileTags \cup {Nada}, pagina : 0..(NPAG - 1),
          base : Bloques, dirty : BOOLEAN, U : {0, 1}, M : {0, 1},
          last_used : Nat]

\* Every variable has its type (memoria_interna.h, struct Marco and globals).
TypeOK ==
  /\ marcos \in [Marcos -> Marco]
  /\ PUNTERO_RELOJ \in Marcos /\ reloj \in Nat
  /\ op \in {"listo"} \cup Accesos \cup Volcados
  /\ fileTag \in FileTags \cup {Nada}
  /\ dir \in 0..(NPAG * PAGE_SIZE) /\ fin \in 0..(NPAG * PAGE_SIZE)
  /\ valor \in Bytes \cup {Nada} /\ marco \in Marcos \cup {Nada}
  /\ salida \in [Direcciones -> Bytes \cup {Nada}] /\ rc \in {0, -1}
  /\ almacen \in [Paginas -> Bloques \cup {Nada}]
  /\ pendiente \in [Celdas -> Bytes \cup {Nada}]
  /\ antes \subseteq Marcos \X Marcos

\* A page is in one frame at most, and a frame is dirty exactly when its M bit
\* is set, and then it has a page: traer_pagina, flush_frame, flush_filetag and
\* acceder_memoria keep the two marks and the owner of the frame together, also
\* when Storage refuses a call half way.
TablaCoherente ==
  /\ \A i, j \in Ocupados :
       marcos[i].file # Nada /\ PaginaDe(i) = PaginaDe(j) => i = j
  /\ \A i \in Marcos :
       /\ marcos[i].dirty <=> marcos[i].M = 1
       /\ marcos[i].dirty => ~marcos[i].libre /\ marcos[i].file # Nada

\* A byte that a WRITE stored is in a dirty frame of its page until Storage has
\* taken it: no replacement, refused call or partial flush drops it.
NadaSePierde ==
  \A c \in Celdas : pendiente[c] # Nada =>
    \E i \in Ocupados : /\ marcos[i].dirty /\ PaginaDe(i) = c[1]
                        /\ marcos[i].base[c[2]] = pendiente[c]

\* When FLUSH, COMMIT, DELETE or the flush before a preemption succeed, Storage
\* has taken every byte this Worker wrote to the File:Tag (to any File:Tag, for
\* a preemption): "FLUSH OBLIGATORIO PREVIO", instrucciones.c:600.
VolcadoCompleto ==
  [][op' = "listo" /\ rc' = 0 /\ op \in Volcados =>
       \A c \in Celdas :
         op = "DESALOJO" \/ c[1][1] = fileTag => pendiente[c] = Nada]_vars

\* The frame chosen for replacement is, under LRU, the one accessed longest ago
\* (last_used is taken in ms, before and after the delay of each access), and
\* under CLOCK-M one of the best class there is: (0,0), else (0,1), else any.
VictimaJusta ==
  [][\A i \in Ocupados : marco = Nada /\ marco' = i =>
       IF ALGORITMO = "LRU" THEN \A j \in Ocupados \ {i} : <<i, j>> \in antes
       ELSE \A j \in Ocupados :
              marcos[i].U = 1 \/ (marcos[i].M = 1 /\ marcos[j].M = 0)
                => marcos[j].U = 1]_vars

\* The memory is invisible: seen through frames and Storage, each File:Tag is
\* the array of bytes of MemoriaPlana.
Visible(f, d) ==
  LET p == <<f, Pag(d)>>
      en == {i \in Marcos : FrameMatchea(i, f, Pag(d))} IN
  IF en # {} THEN marcos[Min(en)].base[Off(d)]
  ELSE IF almacen[p] = Nada THEN Nada ELSE almacen[p][Off(d)]

\* In a clean frame and no longer what Storage answers.
Vencido(f, d) ==
  LET p == <<f, Pag(d)>> IN
  \E i \in Marcos : /\ FrameMatchea(i, f, Pag(d)) /\ ~marcos[i].dirty
                    /\ \/ almacen[p] = Nada
                       \/ almacen[p][Off(d)] # marcos[i].base[Off(d)]

Plana == INSTANCE MemoriaPlana WITH
  contenido <- [c \in FileTags \X Direcciones |-> Visible(c[1], c[2])],
  vencidos  <- {c \in FileTags \X Direcciones : Vencido(c[1], c[2])},
  orden     <- IF op \in Accesos THEN [op |-> op, file |-> fileTag, dir |-> dir,
                                      fin |-> fin, valor |-> valor]
                                ELSE Nada,
  copiado   <- salida,
  resultado <- rc

ImplementaPlana == Plana!Spec

\* TRUNCATE, "validando RAM fuera de rango" (instrucciones.c:333): between two
\* instructions the memory holds no page past the end of its file.
SinPaginasFueraDeRango ==
  op = "listo" => \A i \in Ocupados :
                    marcos[i].file # Nada => almacen[PaginaDe(i)] # Nada
=============================================================================
