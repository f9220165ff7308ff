---------------------------- MODULE MCProjectDoc -----------------------------
(***************************************************************************)
(* Passes are requests of a browser and differ in nothing.                  *)
(***************************************************************************)
EXTENDS ProjectDoc, TLC

Requests == Permutations(Passes)
=============================================================================
