------------------------------ MODULE Almacen ------------------------------
(***************************************************************************)
(* Storage: the File:Tags, the bitmap of physical blocks and the index of  *)
(* hashes (storage/src/operaciones_storage.c, storage_archivos.c), under   *)
(* the requests of its Workers (atencion_worker.c), its start and restart  *)
(* (storage.c, f_fresh_stat.c).                                            *)
(*                                                                         *)
(* One thread per Worker.  TRUNCATE that grows and COMMIT are cut at every *)
(* block and at every critical section; the other requests are one step.   *)
(* The answer to any of them is a step of its own, after what it did to    *)
(* memory and disk.  The program may stop between any two steps; what it   *)
(* had on disk stays.                                                      *)
(*                                                                         *)
(* A physical block is its number; a content is what crypto_md5 is given:  *)
(* the bytes up to the first NUL.  Not kept: blogico_asociados, which only *)
(* decides about blocks other than 0 that a logical block is recorded to   *)
(* use (there are none: RegistranBloque0), and the list lista_files: the   *)
(* first t_file of a name is the one that is found, for good.              *)
(***************************************************************************)
EXTENDS Integers, Sequences, FiniteSets, FiniteSetsExt, SequencesExt

CONSTANTS
  Hilos,       \* the threads, one per Worker
  FileTags,    \* the File:Tag pairs the queries name
  BASE,        \* initial_file:BASE
  Escrituras,  \* what a WRITE may carry
  Inicial,     \* a block full of '0'
  Vacio,       \* a block full of NULs
  Nada,        \* no such thing
  Discos,      \* the numbers of blocks of a disk, FS_SIZE / BLOCK_SIZE
  BITS,        \* bits of a byte of the bitmap
  TagRepetido, \* TAG is also asked onto a File:Tag that exists
  Reinicios,   \* the program is stopped and started again
  MaxBloques,  \* bound on the blocks a TRUNCATE asks for
  MaxTags      \* bound on the t_tag in memory

ASSUME SupuestosAlmacen ==
  /\ BASE \in FileTags /\ Nada \notin FileTags
  /\ Discos \subseteq Nat \ {0} /\ BITS \in Nat \ {0}
  /\ TagRepetido \in BOOLEAN /\ Reinicios \in BOOLEAN /\ MaxBloques \in Nat
  /\ IsFiniteSet(FileTags) /\ IsFiniteSet(Hilos) /\ Hilos # {}
  /\ MaxTags \in Nat /\ MaxTags >= Cardinality(FileTags) + Cardinality(Hilos) - 1
  /\ Inicial # Vacio /\ Nada \notin Escrituras \cup {Inicial, Vacio}

VARIABLES
  cant_block,
  \* on disk: the bits that are set, the physical blocks, hash -> block, and
  \* per File:Tag its metadata.config and its logical_blocks
  bitmap, contenido, hash_index_config, carpeta,
  \* in memory: is Storage up; the t_tag objects; the tags of each name, as
  \* listed; what each thread is doing
  levantado, t_tag, lista, hilo,
  \* what each thread has still to answer; history: the last answer sent
  pendiente, resp

disco      == <<cant_block, bitmap, contenido, hash_index_config, carpeta>>
respuestas == <<pendiente, resp>>
vars       == <<disco, levantado, t_tag, lista, hilo, respuestas>>

Ids        == 1..MaxTags
Colgante   == 0
Bloques    == 0..(cant_block - 1)
Bits       == 0..(BITS * ((cant_block + BITS - 1) \div BITS) - 1)
Contenidos == Escrituras \cup {Inicial, Vacio}
Nombres    == 0..(IF MaxBloques = 0 THEN 0 ELSE MaxBloques - 1)
Tamanos    == 0..MaxBloques \cup {1}
Estados    == {"WORK_IN_PROGRESS", "COMMITED"}
Pasos      == {"buscar", "marcar", "enlazar", "devolver", "cerrar", "procesar"}
Ocioso     == [paso |-> "ocioso", id |-> Nada, file |-> Nada,
               nro |-> 0, hasta |-> 0, bf |-> Nada]
SinEnlaces == [n \in Nombres |-> Nada]

\* A t_tag, whose blocks_fisicos_usados are the strings of some t_tag; the
\* folder of a File:Tag; what a thread that is busy knows.
LOGICO  == [nombre_block : Nombres, bloque_fisico_asociado : Nat]
TAG     == [estado : Estados, tam : Tamanos, usado : Ids \cup {Nada, Colgante},
            lista_block_logicos : Seq(LOGICO)]
CARPETA == [estado : Estados, tam : Tamanos, usado : BOOLEAN,
            enlaces : [Nombres -> Nat \cup {Nada}]]
RESPUESTA == [op : {"CREATE", "TRUNCATE", "TAG", "COMMIT", "DELETE", "READ",
                    "WRITE", "FLUSH"},
              file : FileTags, rc : {"OK", "ERROR"}]
TRABAJO == [paso : Pasos, id : Ids, file : FileTags, nro : Nat, hasta : Nat,
            bf : Nat \cup {Nada}]

\* Nada is none of the values it stands beside.
ASSUME NadaAparte ==
  Nada \notin Int \cup TAG \cup CARPETA \cup RESPUESTA
              \cup [estado : Estados, tam : Tamanos]

-----------------------------------------------------------------------------
(* Tags, folders and answers. *)

\* buscar_tag: the first one listed.
Tag(f)    == IF lista[f] = <<>> THEN Nada ELSE Head(lista[f])
Largo(i)  == Len(t_tag[i].lista_block_logicos)
Enlaces(f) == IF carpeta[f] = Nada THEN SinEnlaces ELSE carpeta[f].enlaces
Leido(f, n) == IF Enlaces(f)[n] = Nada THEN Nada ELSE contenido[Enlaces(f)[n]]

\* The t_tag objects that are neither listed nor in use by a thread.
Nuevos ==
  Ids \ ({hilo[h].id : h \in Hilos}
         \cup UNION {ToSet(lista[f]) : f \in FileTags})

Logico(n, b) == [nombre_block |-> n, bloque_fisico_asociado |-> b]

\* A thread takes a request when it has answered the one before.
Pedido(h) == levantado /\ hilo[h] = Ocioso /\ pendiente[h] = Nada

\* The operation returns what is to be answered; then the answer is sent.
Responder(h, op, f, rc) ==
  /\ pendiente' = [pendiente EXCEPT ![h] = [op |-> op, file |-> f, rc |-> rc]]
  /\ UNCHANGED resp
Contestar(h) ==
  /\ levantado /\ pendiente[h] # Nada
  /\ resp' = pendiente[h]
  /\ pendiente' = [pendiente EXCEPT ![h] = Nada]
  /\ UNCHANGED <<disco, levantado, t_tag, lista, hilo>>

\* actualizar_metadata: nothing is written when the folder is gone.  (Fault:
\* the state is left out.)
MetadataSinEstado(f, tag) ==
  IF carpeta[f] = Nada THEN Nada
  ELSE [carpeta[f] EXCEPT !.tam = tag.tam, !.usado = tag.usado # Nada]
Metadata(f, tag) ==
  IF carpeta[f] = Nada THEN Nada
  ELSE [carpeta[f] EXCEPT !.estado = tag.estado, !.tam = tag.tam,
                          !.usado = tag.usado # Nada]

\* The process ends and loses its memory.
Caida ==
  /\ levantado' = FALSE
  /\ t_tag' = [i \in Ids |-> Nada]
  /\ lista' = [f \in FileTags |-> <<>>]
  /\ hilo' = [h \in Hilos |-> Ocioso]
  /\ pendiente' = [h \in Hilos |-> Nada]
  /\ UNCHANGED resp

\* The strings of blocks_fisicos_usados of tag i are freed: the tags that
\* share one are left with a pointer to freed memory.
Liberadas(i) ==
  [j \in Ids |->
    IF t_tag[j] = Nada \/ t_tag[i].usado \in {Nada, Colgante} THEN t_tag[j]
    ELSE IF t_tag[j].usado = t_tag[i].usado
         THEN [t_tag[j] EXCEPT !.usado = Colgante] ELSE t_tag[j]]

\* To free one twice may abort the program, or go unnoticed.
DobleFree(i) ==
  /\ t_tag[i].usado = Colgante
  /\ Caida /\ UNCHANGED disco

-----------------------------------------------------------------------------
(* Start and stop. *)

Base == [estado |-> "COMMITED", tam |-> 1, usado |-> 1,
         lista_block_logicos |-> <<Logico(0, 0)>>]

\* fresh_start: block 0 full of '0', all others of NULs, block 0 taken.
Init ==
  /\ cant_block \in Discos
  /\ bitmap = {0}
  /\ contenido = [b \in Bloques |-> IF b = 0 THEN Inicial ELSE Vacio]
  /\ hash_index_config = [c \in Contenidos |-> Nada]
  /\ carpeta = [f \in FileTags |->
       IF f # BASE THEN Nada
       ELSE [estado |-> "COMMITED", tam |-> 1, usado |-> TRUE,
             enlaces |-> [SinEnlaces EXCEPT ![0] = 0]]]
  /\ levantado = TRUE
  /\ t_tag = [i \in Ids |-> IF i = 1 THEN Base ELSE Nada]
  /\ lista = [f \in FileTags |-> IF f = BASE THEN <<1>> ELSE <<>>]
  /\ hilo = [h \in Hilos |-> Ocioso]
  /\ pendiente = [h \in Hilos |-> Nada]
  /\ resp = Nada

Caer == Reinicios /\ levantado /\ Caida /\ UNCHANGED disco

\* fresh_start_false finds the block of a logical block through the hash of
\* what it reads, in the order readdir gives.
EnDisco    == {f \in FileTags : carpeta[f] # Nada}
Enlazados(f) == {n \in Nombres : Enlaces(f)[n] # Nada}
Ordenes(S) == {o \in [1..Cardinality(S) -> S] : \A x \in S : \E k \in DOMAIN o : o[k] = x}
PorHash(f, n) == Logico(n, hash_index_config[Leido(f, n)])
HashesHallados ==
  \A f \in EnDisco : \A n \in Enlazados(f) : hash_index_config[Leido(f, n)] # Nada
Id == CHOOSE id \in [FileTags -> Ids] : \A f, g \in FileTags : id[f] = id[g] => f = g

Levantar ==
  /\ Reinicios /\ ~levantado /\ HashesHallados
  /\ \E orden \in [EnDisco -> UNION {Ordenes(Enlazados(f)) : f \in EnDisco}] :
       /\ \A f \in EnDisco : orden[f] \in Ordenes(Enlazados(f))
       /\ t_tag' = [i \in Ids |->
            IF \E f \in EnDisco : Id[f] = i
            THEN LET f == CHOOSE g \in EnDisco : Id[g] = i IN
                 [estado |-> carpeta[f].estado, tam |-> carpeta[f].tam,
                  usado |-> IF carpeta[f].usado THEN i ELSE Nada,
                  lista_block_logicos |->
                    [k \in DOMAIN orden[f] |-> PorHash(f, orden[f][k])]]
            ELSE Nada]
  /\ lista' = [f \in FileTags |-> IF f \in EnDisco THEN <<Id[f]>> ELSE <<>>]
  /\ levantado' = TRUE
  \* the bits of the disk are set for the blocks a logical block was found to
  \* use, and for no other
  /\ bitmap' = (bitmap \ Bloques)
               \cup UNION {{hash_index_config[Leido(f, n)] : n \in Enlazados(f)} :
                             f \in EnDisco}
  /\ UNCHANGED <<cant_block, contenido, hash_index_config, carpeta, hilo, respuestas>>

\* A hash that is not in the index: NULL is dereferenced.
LevantarFalla == Reinicios /\ ~levantado /\ ~HashesHallados /\ UNCHANGED vars

-----------------------------------------------------------------------------
(* CREATE, TAG, DELETE.                                                    *)

Crear(f, i, tag, enlaces) ==
  /\ t_tag' = [t_tag EXCEPT ![i] = tag]
  /\ lista' = [lista EXCEPT ![f] = Append(@, i)]
  /\ carpeta' = [carpeta EXCEPT ![f] =
       [estado |-> tag.estado, tam |-> tag.tam, usado |-> tag.usado # Nada,
        enlaces |-> enlaces]]
  /\ UNCHANGED <<cant_block, bitmap, contenido, hash_index_config, levantado,
                 hilo>>

Negar(h, op, f) ==
  /\ Responder(h, op, f, "ERROR")
  /\ UNCHANGED <<disco, levantado, t_tag, lista, hilo>>
Aceptar(h, op, f) ==
  /\ Responder(h, op, f, "OK")
  /\ UNCHANGED <<disco, levantado, t_tag, lista, hilo>>

Create(h, f) ==
  /\ Pedido(h)
  /\ \/ Tag(f) # Nada /\ Negar(h, "CREATE", f)
     \/ /\ Tag(f) = Nada /\ Nuevos # {}
        /\ Crear(f, Min(Nuevos),
                 [estado |-> "WORK_IN_PROGRESS", tam |-> 0, usado |-> Nada,
                  lista_block_logicos |-> <<>>], Enlaces(f))
        /\ Responder(h, "CREATE", f, "OK")

\* The destination is not looked up.  Its logical blocks are linked to the
\* blocks recorded in the origin; a link that is there is taken as it is.
EnlacesDeTag(o, d) ==
  [n \in Nombres |->
    IF Enlaces(d)[n] # Nada THEN Enlaces(d)[n]
    ELSE LET S == {k \in 1..Largo(Tag(o)) :
                     t_tag[Tag(o)].lista_block_logicos[k].nombre_block = n}
         IN IF S = {} THEN Nada
            ELSE t_tag[Tag(o)].lista_block_logicos[Min(S)].bloque_fisico_asociado]

TagFile(h, o, d) ==
  /\ Pedido(h)
  /\ \/ Tag(o) = Nada /\ Negar(h, "TAG", d)
     \/ /\ Tag(o) # Nada /\ Nuevos # {}
        /\ TagRepetido \/ Tag(d) = Nada
        /\ Crear(d, Min(Nuevos),
                 [t_tag[Tag(o)] EXCEPT !.estado = "WORK_IN_PROGRESS"],
                 EnlacesDeTag(o, d))
        /\ Responder(h, "TAG", d, "OK")

\* blocks_fisicos_usados holds the string "0" or nothing, and block 0 is never
\* freed: the bitmap stays.  An absent File:Tag is answered OK too.
Delete(h, f) ==
  /\ Pedido(h)
  /\ \/ Tag(f) = Nada /\ Aceptar(h, "DELETE", f)
     \/ Tag(f) # Nada /\ DobleFree(Tag(f))
     \/ /\ Tag(f) # Nada
        /\ t_tag' = [Liberadas(Tag(f)) EXCEPT ![Tag(f)] =
             IF \E g \in Hilos : hilo[g].id = Tag(f)
             THEN [@ EXCEPT !.usado = Nada] ELSE Nada]
        /\ lista' = [lista EXCEPT ![f] = Tail(@)]
        /\ carpeta' = [carpeta EXCEPT ![f] = Nada]
        /\ Responder(h, "DELETE", f, "OK")
        /\ UNCHANGED <<cant_block, bitmap, contenido, hash_index_config,
                       levantado, hilo>>

-----------------------------------------------------------------------------
(* TRUNCATE. *)

\* Refused: a length that is no multiple of BLOCK_SIZE, no such File:Tag, or a
\* committed one.
TruncateRechazado(h, f) == Pedido(h) /\ Negar(h, "TRUNCATE", f)

Truncable(f) == Tag(f) # Nada /\ t_tag[Tag(f)].estado # "COMMITED"

Achicado(tag, n) ==
  LET quedan == Max({0, Len(tag.lista_block_logicos) - (tag.tam - n)}) IN
  [tag EXCEPT !.tam = n, !.lista_block_logicos = SubSeq(@, 1, quedan)]

\* The last logical blocks of the list go, with their links.  A block other
\* than 0 would be freed with mutex_bitmap locked twice, and the thread would
\* stop there: RegistranBloque0.  A length below 0 that is a multiple of
\* BLOCK_SIZE is not refused either; it is not modelled.
TruncateAchica(h, f, n) ==
  /\ Pedido(h) /\ Truncable(f) /\ n =< t_tag[Tag(f)].tam
  /\ LET i    == Tag(f)
         tag  == Achicado(t_tag[i], n)
         fuera == {t_tag[i].lista_block_logicos[k] :
                     k \in (Len(tag.lista_block_logicos) + 1)..Largo(i)}
         nuevo == IF n = 0 THEN [tag EXCEPT !.usado = Nada] ELSE tag
     IN \/ n = 0 /\ DobleFree(i)
        \/ /\ t_tag' = [IF n = 0 THEN Liberadas(i) ELSE t_tag EXCEPT ![i] = nuevo]
           /\ carpeta' = [carpeta EXCEPT ![f] =
                IF @ = Nada THEN Nada
                ELSE [Metadata(f, nuevo) EXCEPT !.enlaces =
                       [m \in Nombres |->
                         IF \E l \in fuera : l.nombre_block = m THEN Nada ELSE @[m]]]]
           /\ Responder(h, "TRUNCATE", f, "OK")
           /\ UNCHANGED <<cant_block, bitmap, contenido, hash_index_config,
                          levantado, lista, hilo>>

TruncateAgranda(h, f, n) ==
  /\ Pedido(h) /\ Truncable(f) /\ n > t_tag[Tag(f)].tam
  /\ hilo' = [hilo EXCEPT ![h] =
       [paso |-> "buscar", id |-> Tag(f), file |-> f,
        nro |-> t_tag[Tag(f)].tam, hasta |-> n, bf |-> Nada]]
  /\ UNCHANGED <<disco, levantado, t_tag, lista, respuestas>>

En(h, p)   == levantado /\ hilo[h].paso = p
Sigue(h, p) == hilo' = [hilo EXCEPT ![h].paso = p]
Termina(h) == hilo' = [hilo EXCEPT ![h] = Ocioso]
ProximoBloque(h) ==
  hilo' = [hilo EXCEPT ![h].nro = @ + 1, ![h].bf = Nada,
             ![h].paso = IF hilo[h].nro + 1 = hilo[h].hasta THEN "cerrar" ELSE "buscar"]

\* bitmap_encontrar_bloque_libre looks at every bit of every byte.  (Fault: and
\* at the one past the end.)
LibresDeMas == (Bits \cup {Cardinality(Bits)}) \ bitmap
Libres == Bits \ bitmap

SinBloques(h) ==
  /\ En(h, "buscar") /\ Libres = {}
  /\ Termina(h) /\ Responder(h, "TRUNCATE", hilo[h].file, "ERROR")
  /\ UNCHANGED <<disco, levantado, t_tag, lista>>

Buscar(h) ==
  /\ En(h, "buscar") /\ Libres # {}
  /\ hilo' = [hilo EXCEPT ![h].paso = "marcar", ![h].bf = Min(Libres)]
  /\ UNCHANGED <<disco, levantado, t_tag, lista, respuestas>>

Marcar(h) ==
  /\ En(h, "marcar") /\ Sigue(h, "enlazar")
  /\ bitmap' = bitmap \cup {hilo[h].bf}
  /\ UNCHANGED <<cant_block, contenido, hash_index_config, carpeta, levantado,
                 t_tag, lista, respuestas>>

\* link() needs the physical block, the folder, and the name to be free.
\* (Fault: a name that is taken is no error.)
EnlazableEncima(h) == hilo[h].bf \in Bloques /\ carpeta[hilo[h].file] # Nada
Enlazable(h) ==
  LET f == hilo[h].file IN
  /\ hilo[h].bf \in Bloques /\ carpeta[f] # Nada
  /\ carpeta[f].enlaces[hilo[h].nro] = Nada

\* Whatever the block linked, block0000 is recorded.  (Fault: the one linked
\* is.)
RegistradoEnlazado(h) == Logico(hilo[h].nro, hilo[h].bf)
Registrado(h) == Logico(hilo[h].nro, 0)

Enlazar(h) ==
  LET i == hilo[h].id IN
  /\ En(h, "enlazar") /\ Enlazable(h) /\ ProximoBloque(h)
  /\ carpeta' = [carpeta EXCEPT ![hilo[h].file].enlaces[hilo[h].nro] = hilo[h].bf]
  /\ t_tag' = [t_tag EXCEPT
       ![i].lista_block_logicos = Append(@, Registrado(h)),
       ![i].usado = IF @ = Nada THEN i ELSE @]
  /\ UNCHANGED <<cant_block, bitmap, contenido, hash_index_config, levantado,
                 lista, respuestas>>

NoEnlaza(h) ==
  /\ En(h, "enlazar") /\ ~Enlazable(h) /\ Sigue(h, "devolver")
  /\ UNCHANGED <<disco, levantado, t_tag, lista, respuestas>>

Devolver(h) ==
  /\ En(h, "devolver") /\ ProximoBloque(h)
  /\ bitmap' = bitmap \ {hilo[h].bf}
  /\ UNCHANGED <<cant_block, contenido, hash_index_config, carpeta, levantado,
                 t_tag, lista, respuestas>>

\* The end of TRUNCATE and of COMMIT: metadata.config is saved.
Guardar(h, tag) ==
  /\ Termina(h)
  /\ t_tag' = [t_tag EXCEPT ![hilo[h].id] = tag]
  /\ carpeta' = [carpeta EXCEPT ![hilo[h].file] = Metadata(hilo[h].file, tag)]
  /\ UNCHANGED <<cant_block, bitmap, contenido, hash_index_config, levantado,
                 lista>>

CerrarTruncate(h) ==
  /\ En(h, "cerrar")
  /\ Guardar(h, [t_tag[hilo[h].id] EXCEPT !.tam = hilo[h].hasta])
  /\ Responder(h, "TRUNCATE", hilo[h].file, "OK")

-----------------------------------------------------------------------------
(* COMMIT. *)

Commit(h, f) ==
  /\ Pedido(h)
  /\ \/ Tag(f) = Nada /\ Negar(h, "COMMIT", f)
     \/ /\ Tag(f) # Nada /\ t_tag[Tag(f)].estado = "COMMITED"
        /\ Aceptar(h, "COMMIT", f)
     \/ /\ Tag(f) # Nada /\ t_tag[Tag(f)].estado # "COMMITED"
        /\ t_tag' = [t_tag EXCEPT ![Tag(f)].estado = "COMMITED"]
        /\ hilo' = [hilo EXCEPT ![h] =
             [Ocioso EXCEPT !.paso = "procesar", !.id = Tag(f), !.file = f, !.nro = 1]]
        /\ UNCHANGED <<disco, levantado, lista, respuestas>>

\* procesar_bloque_commit: a new hash goes to the index with the recorded
\* block; a known one moves the logical block to the block of the index.
Procesar(h) ==
  LET i == hilo[h].id
      f == hilo[h].file
      k == hilo[h].nro
      l == t_tag[i].lista_block_logicos[k]
      c == Leido(f, l.nombre_block)
      b == hash_index_config[c]
  IN /\ En(h, "procesar") /\ k =< Largo(i)
     /\ IF c = Nada THEN Caida /\ UNCHANGED disco
        ELSE
          /\ hash_index_config' = [hash_index_config EXCEPT ![c] =
               IF @ = Nada THEN l.bloque_fisico_asociado ELSE @]
          /\ IF b \in {Nada, l.bloque_fisico_asociado}
             THEN UNCHANGED <<t_tag, carpeta, bitmap>>
             ELSE /\ t_tag' = [t_tag EXCEPT ![i].lista_block_logicos[k] =
                                 Logico(l.nombre_block, b)]
                  /\ carpeta' = [carpeta EXCEPT ![f].enlaces[l.nombre_block] = b]
                  /\ \E S \in SUBSET ({l.bloque_fisico_asociado} \ {0}) :
                       bitmap' = bitmap \ S
          /\ hilo' = [hilo EXCEPT ![h].nro = k + 1]
          /\ UNCHANGED <<cant_block, contenido, levantado, lista, respuestas>>

CerrarCommit(h) ==
  /\ En(h, "procesar") /\ hilo[h].nro > Largo(hilo[h].id)
  /\ Guardar(h, t_tag[hilo[h].id])
  /\ Responder(h, "COMMIT", hilo[h].file, "OK")

-----------------------------------------------------------------------------
(* Blocks. *)

\* The page is a position in the list; the content is read through the link.
Pagina(f, n) ==
  IF Tag(f) = Nada \/ n >= Largo(Tag(f)) THEN Nada
  ELSE LET l == t_tag[Tag(f)].lista_block_logicos[n + 1]
       IN [leido |-> Leido(f, l.nombre_block), bloque |-> l.bloque_fisico_asociado]
Lee(f, n) == IF Pagina(f, n) = Nada THEN Nada ELSE Pagina(f, n).leido

ReadBlock(h, f, n) ==
  /\ Pedido(h)
  /\ \/ Lee(f, n) = Nada /\ Negar(h, "READ", f)
     \/ Lee(f, n) # Nada /\ Aceptar(h, "READ", f)

\* The recorded block is written, and the hash of what was read is forgotten.
\* A committed File:Tag is written like any other.
WriteBlock(h, f, n, c) ==
  /\ Pedido(h)
  /\ \/ Lee(f, n) = Nada /\ Negar(h, "WRITE", f)
     \/ /\ Lee(f, n) # Nada
        /\ contenido' = [contenido EXCEPT ![Pagina(f, n).bloque] = c]
        /\ hash_index_config' = [hash_index_config EXCEPT ![Lee(f, n)] = Nada]
        /\ Responder(h, "WRITE", f, "OK")
        /\ UNCHANGED <<cant_block, bitmap, carpeta, levantado, t_tag, lista,
                       hilo>>

Flush(h, f) ==
  /\ Pedido(h)
  /\ \/ Tag(f) = Nada /\ Negar(h, "FLUSH", f)
     \/ Tag(f) # Nada /\ Aceptar(h, "FLUSH", f)

-----------------------------------------------------------------------------

Next ==
  \/ Caer \/ Levantar \/ LevantarFalla
  \/ \E h \in Hilos :
       \/ \E f \in FileTags :
            \/ Create(h, f) \/ Delete(h, f) \/ Commit(h, f) \/ Flush(h, f)
            \/ TruncateRechazado(h, f)
            \/ \E n \in 0..MaxBloques : TruncateAchica(h, f, n) \/ TruncateAgranda(h, f, n)
            \/ \E o \in FileTags : TagFile(h, o, f)
            \/ \E n \in Nombres : ReadBlock(h, f, n)
            \/ \E n \in Nombres, c \in Escrituras : WriteBlock(h, f, n, c)
       \/ SinBloques(h) \/ Buscar(h) \/ Marcar(h) \/ Enlazar(h) \/ NoEnlaza(h)
       \/ Devolver(h) \/ CerrarTruncate(h) \/ Procesar(h) \/ CerrarCommit(h)
       \/ Contestar(h)

Spec == Init /\ [][Next]_vars

-----------------------------------------------------------------------------
(* What must hold. *)

\* Every variable holds a value the program can give it.
TypeOK ==
  /\ cant_block \in Discos
  /\ bitmap \subseteq Bits
  /\ contenido \in [Bloques -> Contenidos]
  /\ hash_index_config \in [Contenidos -> Bloques \cup {Nada}]
  /\ carpeta \in [FileTags -> CARPETA \cup {Nada}]
  /\ \A f \in FileTags, n \in Nombres : Enlaces(f)[n] \in Bloques \cup {Nada}
  /\ t_tag \in [Ids -> TAG \cup {Nada}]
  /\ \A i \in Ids : t_tag[i] # Nada => \A k \in 1..Largo(i) :
       t_tag[i].lista_block_logicos[k].bloque_fisico_asociado \in Bloques
  /\ lista \in [FileTags -> Seq(Ids)]
  /\ \A f \in FileTags : \A k \in DOMAIN lista[f] : t_tag[lista[f][k]] # Nada
  /\ levantado \in BOOLEAN
  /\ hilo \in [Hilos -> TRABAJO \cup {Ocioso}]
  /\ pendiente \in [Hilos -> RESPUESTA \cup {Nada}]

Listadas == {f \in FileTags : levantado /\ Tag(f) # Nada}

\* storage_archivos.c:66 and 82, storage.c:211: while Storage is up the bit of a
\* block is 1 when a logical block is linked to it, so that it is not taken for a
\* free one.  A restart breaks it, and so do two threads (README.md): no run
\* checks it.
EnlazadosOcupados ==
  levantado => \A f \in FileTags, n \in Nombres :
                 Enlaces(f)[n] # Nada => Enlaces(f)[n] \in bitmap

\* Every page of a File:Tag has its link: the names listed are those in the
\* folder, each once, after any failure and any restart.
ListaEsCarpeta ==
  \A f \in Listadas :
    LET bl == t_tag[Tag(f)].lista_block_logicos IN
    /\ {bl[k].nombre_block : k \in DOMAIN bl} = Enlazados(f)
    /\ Cardinality(Enlazados(f)) = Len(bl)

\* f_fresh_stat.c:881, operaciones_storage.c:144: page n is the logical block
\* numbered n, for every n below the length.  A restart breaks it, and so do bits
\* past the last block (README.md): no run checks it.
PaginaEsBloque ==
  \A f \in Listadas :
    LET tag == t_tag[Tag(f)] IN
    /\ Len(tag.lista_block_logicos) >= tag.tam
    /\ \A k \in 1..Len(tag.lista_block_logicos) :
         tag.lista_block_logicos[k].nombre_block = k - 1

\* Whatever is linked, tagged, committed or found at a restart, the block
\* recorded is block 0: a TRUNCATE never reaches the line that locks
\* mutex_bitmap twice, and no block is freed for being recorded nowhere.
RegistranBloque0 ==
  \A i \in Ids : t_tag[i] # Nada =>
    \A k \in 1..Largo(i) : t_tag[i].lista_block_logicos[k].bloque_fisico_asociado = 0

\* The File:Tags as Storage shows them: a COMMIT is not done until it is saved;
\* when Storage is down, what there is is what it has on disk.
EnCommit(f) == \E h \in Hilos : hilo[h].paso = "procesar" /\ hilo[h].id = Tag(f)
Visible(f) ==
  IF ~levantado
  THEN IF carpeta[f] = Nada THEN Nada
       ELSE [estado |-> carpeta[f].estado, tam |-> carpeta[f].tam]
  ELSE IF Tag(f) = Nada THEN Nada
  ELSE [estado |-> IF EnCommit(f) THEN "WORK_IN_PROGRESS" ELSE t_tag[Tag(f)].estado,
        tam |-> t_tag[Tag(f)].tam]

C == INSTANCE Catalogo WITH catalogo <- [f \in FileTags |-> Visible(f)]
ImplementaCatalogo == C!Spec

\* A WRITE that is answered OK is what a READ of that page answers next.
EscribeBloqueLogico ==
  [][\A h \in Hilos, f \in FileTags, n \in Nombres, c \in Escrituras :
       WriteBlock(h, f, n, c) /\ pendiente'[h].rc = "OK" => Lee(f, n)' = c]_vars
=============================================================================
