----------------------------- MODULE MCAlmacen -----------------------------
(***************************************************************************)
(* Small instances of Almacen for TLC.                                     *)
(***************************************************************************)
EXTENDS Almacen

CONSTANTS h1, h2, alfa, beta, x, ceros, nulos

\* initial_file:BASE is apart; the other File:Tags and the threads are
\* interchangeable.
Simetria == Permutations(FileTags \ {BASE}) \cup Permutations(Hilos)

\* No action reads an answer, sent or owed, but Contestar, which sends it
\* whatever it is.
Vista == <<disco, levantado, t_tag, lista, hilo, {h \in Hilos : pendiente[h] # Nada}>>
=============================================================================
