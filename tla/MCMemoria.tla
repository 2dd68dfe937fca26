----------------------------- MODULE MCMemoria -----------------------------
(***************************************************************************)
(* Small instances of Memoria for TLC.                                     *)
(***************************************************************************)
EXTENDS Memoria, TLC

CONSTANTS f1, f2, f3, x, y

\* File:Tags and bytes are interchangeable.
Simetria == Permutations(FileTags) \cup Permutations(Bytes)
=============================================================================
