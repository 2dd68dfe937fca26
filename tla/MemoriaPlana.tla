---------------------------- MODULE MemoriaPlana ----------------------------
(***************************************************************************)
(* What a Worker promises to the query it runs: every File:Tag is an array *)
(* of bytes; a WRITE stores its byte over its range and nowhere else, a    *)
(* READ copies the bytes stored last, and each succeeds only when it has   *)
(* gone over its whole range.  No frames, no pages brought or replaced, no *)
(* write-back.                                                             *)
(*                                                                         *)
(* Only the bytes in "vencidos" are outside the promise: a TRUNCATE or a   *)
(* DELETE took them out of the file and they may still be answered, or     *)
(* change by themselves.                                                   *)
(***************************************************************************)
EXTENDS Integers

CONSTANTS FileTags, Direcciones, Bytes, Nada

VARIABLES
  contenido,  \* the byte at each address of each File:Tag; Nada: no such byte
  vencidos,   \* the bytes that were cut off
  orden,      \* the WRITE or READ in course and what is left of its range
  copiado,    \* the bytes the READ in course has copied
  resultado   \* what the last instruction returned

varsPlana == <<contenido, vencidos, orden, copiado, resultado>>

Celdas == FileTags \X Direcciones
Vacio  == [d \in Direcciones |-> Nada]

Init == /\ contenido = [c \in Celdas |-> Nada]
        /\ vencidos = {}
        /\ orden = Nada /\ copiado = Vacio /\ resultado = 0

\* Bytes that were cut off and only those may change unasked; being written,
\* or leaving the memory, brings them back under the promise.
SoloVencidosCambian(ajenas) ==
  /\ vencidos' \subseteq vencidos
  /\ \A c \in Celdas \ ajenas :
       c \notin vencidos => contenido'[c] = contenido[c]

Ordenar ==
  /\ orden = Nada /\ orden' # Nada
  /\ UNCHANGED <<contenido, vencidos, copiado, resultado>>

\* The addresses from the first one left up to d.
Hasta(d) == orden.dir..(d - 1)
Avanzar(d) == /\ orden # Nada /\ d > orden.dir /\ d =< orden.fin
              /\ orden' = [orden EXCEPT !.dir = d]
              /\ UNCHANGED resultado

Escribir(d) ==
  /\ Avanzar(d) /\ orden.op = "WRITE"
  /\ \A e \in Hasta(d) : /\ contenido[<<orden.file, e>>] # Nada
                         /\ contenido'[<<orden.file, e>>] = orden.valor
  /\ SoloVencidosCambian({orden.file} \X Hasta(d))
  /\ UNCHANGED copiado

Leer(d) ==
  /\ Avanzar(d) /\ orden.op = "READ"
  /\ copiado' = [e \in Direcciones |->
       IF e \in Hasta(d) THEN contenido[<<orden.file, e>>] ELSE copiado[e]]
  /\ SoloVencidosCambian({})

Completar == /\ orden # Nada /\ orden.dir = orden.fin
             /\ orden' = Nada /\ copiado' = Vacio /\ resultado' = 0
             /\ UNCHANGED <<contenido, vencidos>>

Fallar == /\ orden # Nada
          /\ orden' = Nada /\ copiado' = Vacio /\ resultado' = -1
          /\ SoloVencidosCambian({})

\* Pages come and go.
Reacomodar == SoloVencidosCambian({}) /\ UNCHANGED <<orden, copiado, resultado>>

\* Another instruction.  The file grows: bytes appear where there were none.
Crecer == /\ orden = Nada
          /\ SoloVencidosCambian({c \in Celdas : contenido[c] = Nada})
          /\ UNCHANGED <<orden, copiado>>

\* The file shrinks to n bytes, or to none when it is deleted: what lies past
\* the end disappears or is left outside the promise.
Recortar(f, n) ==
  LET fuera == {f} \X {d \in Direcciones : d >= n} IN
  /\ orden = Nada
  /\ vencidos' \subseteq vencidos \cup fuera
  /\ \A c \in Celdas : c \notin vencidos =>
       \/ contenido'[c] = contenido[c]
       \/ contenido[c] = Nada
       \/ c \in fuera /\ contenido'[c] = Nada
  /\ UNCHANGED <<orden, copiado>>

Next ==
  \/ Ordenar \/ Completar \/ Fallar \/ Reacomodar \/ Crecer
  \/ \E d \in Direcciones : Escribir(d + 1) \/ Leer(d + 1)
  \/ \E f \in FileTags, n \in Direcciones : Recortar(f, n)

Spec == Init /\ [][Next]_varsPlana
=============================================================================
