----------------------------- MODULE MCWorkspace -----------------------------
(***************************************************************************)
(* Requests and command-line processes materialize in the same way.         *)
(***************************************************************************)
EXTENDS Workspace, TLC

Anyone == Permutations(Makers)
=============================================================================
