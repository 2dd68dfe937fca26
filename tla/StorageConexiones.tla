------------------------- MODULE StorageConexiones -------------------------
(***************************************************************************)
(* The connections of Storage: storage_conexiones.c, and the end of them   *)
(* the Worker process holds while it starts (worker.c,                     *)
(* solicitud_block_size).  One thread per Worker runs atender_worker; the  *)
(* threads share the list workers under mutex_workers.                     *)
(*                                                                         *)
(* A section of a thread from one pthread_mutex_lock to the next is one    *)
(* step, enabled while the mutex is free: what precedes it (accept, recv)  *)
(* and what follows it (the answer) touches only the connection.  A        *)
(* connection closed before it asked for anything leaves no trace and is   *)
(* left out.                                                               *)
(***************************************************************************)
EXTENDS Naturals, FiniteSets

CONSTANTS
  Workers,  \* Worker processes; each connects at most once
  Nadie     \* NULL

ASSUME SupuestosStorage == Nadie \notin Workers

VARIABLES
  mutex_workers,  \* the thread that holds it, or Nadie
  workers,        \* the list: the threads whose t_hilo_worker it names
  hilo,           \* hilo[w]: where the thread of w is in atender_worker
  enlace          \* enlace[w]: what w has done with its connection to Storage

varsStorage == <<mutex_workers, workers, hilo, enlace>>

PasosHilo   == {"pedido", "atiende", "baja", "terminado"}
PasosEnlace == {"sin_conectar", "pidio", "conectado", "cerrado"}

InitStorage ==
  /\ mutex_workers = Nadie /\ workers = {}
  /\ hilo = [w \in Workers |-> "pedido"]
  /\ enlace = [w \in Workers |-> "sin_conectar"]

Hilo(w, de, a)   == hilo[w] = de /\ hilo' = [hilo EXCEPT ![w] = a]
Enlace(w, de, a) == enlace[w] = de /\ enlace' = [enlace EXCEPT ![w] = a]

-----------------------------------------------------------------------------
(* The Worker process. *)

\* It connects, sends OP_PEDIR_TAM_BLOQUE and its id, and waits.
PedirTamBloque(w) ==
  Enlace(w, "sin_conectar", "pidio") /\ UNCHANGED <<mutex_workers, workers, hilo>>

\* It leaves or dies, answered or not: its socket is closed.
CerrarEnlace(w) ==
  /\ Enlace(w, "pidio", "cerrado") \/ Enlace(w, "conectado", "cerrado")
  /\ UNCHANGED <<mutex_workers, workers, hilo>>

-----------------------------------------------------------------------------
(* Storage. *)

\* OP_PEDIR_TAM_BLOQUE, which is read even if the Worker left since: lock,
\* list_add, list_size, unlock, and the answer.  (Fault: no unlock.)
AltaSinSoltar(w) ==
  /\ enlace[w] # "sin_conectar" /\ Hilo(w, "pedido", "atiende")
  /\ mutex_workers = Nadie /\ mutex_workers' = w
  /\ workers' = workers \cup {w}
  /\ enlace' = [enlace EXCEPT ![w] = IF @ = "pidio" THEN "conectado" ELSE @]
AltaWorker(w) ==
  /\ enlace[w] # "sin_conectar" /\ Hilo(w, "pedido", "atiende")
  /\ mutex_workers = Nadie /\ UNCHANGED mutex_workers
  /\ workers' = workers \cup {w}
  /\ enlace' = [enlace EXCEPT ![w] = IF @ = "pidio" THEN "conectado" ELSE @]

\* recibir_operacion fails: pthread_mutex_lock, the count for the log, and
\* pthread_mutex_lock again, which waits for the thread itself; after that
\* the thread would remove its Worker, unlock and close.
BajaWorker(w) ==
  /\ enlace[w] = "cerrado" /\ mutex_workers = Nadie
  /\ IF hilo[w] = "atiende"
     THEN mutex_workers' = w /\ Hilo(w, "atiende", "baja") /\ UNCHANGED workers
     ELSE /\ mutex_workers' = Nadie /\ Hilo(w, "baja", "terminado")
          /\ workers' = workers \ {w}
  /\ UNCHANGED enlace

PasoHilo(w) == AltaWorker(w) \/ BajaWorker(w)

NextStorage == \E w \in Workers : PedirTamBloque(w) \/ CerrarEnlace(w) \/ PasoHilo(w)

\* Each thread is a pthread that keeps being scheduled.  Weak fairness is
\* enough for the mutex: each thread asks for it a bounded number of times.
JusticiaStorage == \A w \in Workers : WF_varsStorage(PasoHilo(w))

SpecStorage == InitStorage /\ [][NextStorage]_varsStorage /\ JusticiaStorage

-----------------------------------------------------------------------------
(* Properties. *)

TypeOKStorage ==
  /\ mutex_workers \in Workers \cup {Nadie} /\ workers \in SUBSET Workers
  /\ hilo \in [Workers -> PasosHilo] /\ enlace \in [Workers -> PasosEnlace]

\* While no Worker has left after its handshake, every Worker that asks for
\* the block size is answered, whatever the other threads do with the list.
HandshakeContestado ==
  \A w \in Workers :
    enlace[w] = "pidio" ~> (enlace[w] \in {"conectado", "cerrado"}
                            \/ \E v \in Workers : hilo[v] = "baja")

\* storage_conexiones.c:110, "Remover de la lista de workers": a Worker that
\* closed its connection after its handshake is removed from the list.
SeRemueveDeLaLista ==
  \A w \in Workers : w \in workers /\ enlace[w] = "cerrado" ~> w \notin workers
=============================================================================
