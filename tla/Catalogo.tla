------------------------------ MODULE Catalogo ------------------------------
(***************************************************************************)
(* What Storage promises about the File:Tags it keeps: which exist, whether *)
(* each is committed, how many blocks long it is, and how every request is  *)
(* answered.  A request happens at once, before it is answered, and its     *)
(* answer says whether it did.  A request that is answered has happened for *)
(* good.  When Storage stops, the answers it owes are lost and what had     *)
(* happened stays: a request without an answer may have happened or not.    *)
(*                                                                         *)
(* What the blocks hold and where they are is no part of the promise.      *)
(***************************************************************************)
EXTENDS Naturals

CONSTANTS Hilos, FileTags, BASE, Nada, MaxBloques

VARIABLES
  catalogo,  \* the state and the length of each File:Tag; Nada: none
  pendiente, \* what each thread has still to answer; Nada: nothing
  resp       \* the last answer sent

Existe(f)    == catalogo[f] # Nada
Escribible(f) == Existe(f) /\ catalogo[f].estado = "WORK_IN_PROGRESS"
Nuevo(n)     == [estado |-> "WORK_IN_PROGRESS", tam |-> n]

Poner(f, entrada) == catalogo' = [catalogo EXCEPT ![f] = entrada]

Init ==
  /\ catalogo = [f \in FileTags |->
       IF f = BASE THEN [estado |-> "COMMITED", tam |-> 1] ELSE Nada]
  /\ pendiente = [h \in Hilos |-> Nada]
  /\ resp = Nada

-----------------------------------------------------------------------------
(* What a request does, for each answer it may have. *)

Create(f, rc) ==
  \/ rc = "OK" /\ ~Existe(f) /\ Poner(f, Nuevo(0))
  \/ rc = "ERROR" /\ Existe(f) /\ UNCHANGED catalogo

\* The length asked for may be no multiple of the block, and the disk may have
\* no room for a longer file: the length does not change then.
Truncate(f, rc) ==
  \/ /\ rc = "OK" /\ Escribible(f)
     /\ \E n \in 0..MaxBloques : Poner(f, [catalogo[f] EXCEPT !.tam = n])
  \/ rc = "ERROR" /\ UNCHANGED catalogo

Tag(d, rc) ==
  \/ /\ rc = "OK" /\ ~Existe(d)
     /\ \E o \in FileTags : Existe(o) /\ Poner(d, Nuevo(catalogo[o].tam))
  \/ /\ rc = "ERROR"
     /\ (\E o \in FileTags : ~Existe(o)) /\ UNCHANGED catalogo

Commit(f, rc) ==
  \/ rc = "OK" /\ Existe(f) /\ Poner(f, [catalogo[f] EXCEPT !.estado = "COMMITED"])
  \/ rc = "ERROR" /\ ~Existe(f) /\ UNCHANGED catalogo

\* To delete what does not exist is no error.
Delete(f, rc) == rc = "OK" /\ Poner(f, Nada)

\* A page is read or written only in a File:Tag that exists.
Consultar(f, rc) == (rc = "OK" => Existe(f)) /\ UNCHANGED catalogo

Flush(f, rc) == (rc = "OK" <=> Existe(f)) /\ UNCHANGED catalogo

Efecto(op, f, rc) ==
  \/ op = "CREATE" /\ Create(f, rc)
  \/ op = "TRUNCATE" /\ Truncate(f, rc)
  \/ op = "TAG" /\ Tag(f, rc)
  \/ op = "COMMIT" /\ Commit(f, rc)
  \/ op = "DELETE" /\ Delete(f, rc)
  \/ op \in {"READ", "WRITE"} /\ Consultar(f, rc)
  \/ op = "FLUSH" /\ Flush(f, rc)

-----------------------------------------------------------------------------

Operaciones ==
  {"CREATE", "TRUNCATE", "TAG", "COMMIT", "DELETE", "READ", "WRITE", "FLUSH"}

Respuestas == [op : Operaciones, file : FileTags, rc : {"OK", "ERROR"}]

\* The answer the thread comes to owe says which request has happened.
Hacer(h) ==
  LET r == pendiente'[h] IN
  /\ pendiente[h] = Nada /\ r \in Respuestas
  /\ pendiente' = [pendiente EXCEPT ![h] = r]
  /\ Efecto(r.op, r.file, r.rc)
  /\ UNCHANGED resp

Contestar(h) ==
  /\ pendiente[h] # Nada
  /\ resp' = pendiente[h]
  /\ pendiente' = [pendiente EXCEPT ![h] = Nada]
  /\ UNCHANGED catalogo

Caer ==
  /\ pendiente' = [h \in Hilos |-> Nada]
  /\ UNCHANGED <<catalogo, resp>>

Next ==
  \/ \E h \in Hilos :
       \/ Hacer(h)
       \/ Contestar(h)
  \/ Caer

Spec == Init /\ [][Next]_<<catalogo, pendiente, resp>>
=============================================================================
