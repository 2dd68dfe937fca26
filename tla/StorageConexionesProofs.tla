---------------------- MODULE StorageConexionesProofs ----------------------
(***************************************************************************)
(* The connections of Storage, for any set of Workers.                     *)
(***************************************************************************)
EXTENDS StorageConexiones, TLAPS

\* mutex_workers is held exactly by the thread between its two locks, whose
\* Worker has closed its connection; and one thread at most gets there.
TenedorEspera ==
  \A w \in Workers : hilo[w] = "baja" <=> mutex_workers = w

\* No thread gets past the second lock.
NadieTermina == \A w \in Workers : hilo[w] # "terminado"

\* The list names the Workers whose handshake was done, gone or not.
ListaDeAtendidos ==
  workers = {w \in Workers : hilo[w] \in {"atiende", "baja", "terminado"}}

Inv == TypeOKStorage /\ TenedorEspera /\ NadieTermina /\ ListaDeAtendidos

\* InitStorage and the four actions keep the invariant: AltaWorker leaves the
\* mutex free, BajaWorker takes it only while it is free.
LEMMA InvInit == InitStorage => Inv
  BY SupuestosStorage
  DEF InitStorage, Inv, TypeOKStorage, TenedorEspera, NadieTermina,
      ListaDeAtendidos, PasosHilo, PasosEnlace

LEMMA InvProcesos ==
  ASSUME Inv, NEW w \in Workers, PedirTamBloque(w) \/ CerrarEnlace(w)
  PROVE  Inv'
  BY DEF Inv, TypeOKStorage, TenedorEspera, NadieTermina, ListaDeAtendidos,
         PasosHilo, PasosEnlace, PedirTamBloque, CerrarEnlace, Enlace

LEMMA InvAlta ==
  ASSUME Inv, NEW w \in Workers, AltaWorker(w)
  PROVE  Inv'
<1> USE DEF Inv, AltaWorker, Hilo
<1>1. TypeOKStorage'
  BY DEF TypeOKStorage, PasosHilo, PasosEnlace
<1>2. TenedorEspera'
  BY SupuestosStorage DEF TypeOKStorage, TenedorEspera
<1>3. NadieTermina'
  BY DEF TypeOKStorage, NadieTermina
<1>4. ListaDeAtendidos'
  BY DEF TypeOKStorage, ListaDeAtendidos
<1> QED BY <1>1, <1>2, <1>3, <1>4

\* BajaWorker is only ever its first branch.
LEMMA SoloElPrimerLock ==
  ASSUME Inv, NEW w \in Workers, BajaWorker(w)
  PROVE  /\ hilo[w] = "atiende" /\ mutex_workers = Nadie /\ mutex_workers' = w
         /\ hilo' = [hilo EXCEPT ![w] = "baja"]
         /\ UNCHANGED <<workers, enlace>>
<1>1. mutex_workers = Nadie /\ hilo[w] # "baja"
  BY SupuestosStorage DEF Inv, TenedorEspera, BajaWorker
<1> QED BY <1>1 DEF BajaWorker, Hilo

LEMMA InvBaja ==
  ASSUME Inv, NEW w \in Workers, BajaWorker(w)
  PROVE  Inv'
<1> USE SoloElPrimerLock DEF Inv
<1>1. TypeOKStorage'
  BY DEF TypeOKStorage, PasosHilo, PasosEnlace
<1>2. TenedorEspera'
  BY SupuestosStorage DEF TypeOKStorage, TenedorEspera
<1>3. NadieTermina'
  BY DEF TypeOKStorage, NadieTermina
<1>4. ListaDeAtendidos'
  BY DEF TypeOKStorage, ListaDeAtendidos
<1> QED BY <1>1, <1>2, <1>3, <1>4

LEMMA InvPaso == Inv /\ [NextStorage]_varsStorage => Inv'
<1> SUFFICES ASSUME Inv, [NextStorage]_varsStorage PROVE Inv'
  OBVIOUS
<1>1. CASE UNCHANGED varsStorage
  BY <1>1 DEF Inv, TypeOKStorage, TenedorEspera, NadieTermina,
              ListaDeAtendidos, varsStorage
<1>2. CASE NextStorage
  <2>1. PICK w \in Workers : PedirTamBloque(w) \/ CerrarEnlace(w) \/ PasoHilo(w)
    BY <1>2 DEF NextStorage
  <2> QED BY <2>1, InvProcesos, InvAlta, InvBaja DEF PasoHilo
<1> QED BY <1>1, <1>2

\* Every reachable state is well typed.
THEOREM TiposStorage == SpecStorage => []TypeOKStorage
<1>1. Inv => TypeOKStorage
  BY DEF Inv
<1> QED BY InvInit, InvPaso, <1>1, PTL DEF SpecStorage

\* The thread of a Worker that left holds mutex_workers between its two locks
\* and no thread ever gets past the second (storage_conexiones.c:111), so the
\* list keeps every Worker that was ever attended.
THEOREM NadieSaleDeLaLista ==
  SpecStorage => [](TenedorEspera /\ NadieTermina /\ ListaDeAtendidos)
<1>1. Inv => TenedorEspera /\ NadieTermina /\ ListaDeAtendidos
  BY DEF Inv
<1> QED BY InvInit, InvPaso, <1>1, PTL DEF SpecStorage
=============================================================================
