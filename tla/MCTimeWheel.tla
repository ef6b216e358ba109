----------------------------- MODULE MCTimeWheel -----------------------------
(***************************************************************************)
(* Two handlers on a ring of three containers: six cells, few enough for   *)
(* every one to be lost to a timeout within a behaviour.                   *)
(***************************************************************************)
EXTENDS TimeWheel, TLC

Symmetry == Permutations(Handlers)
=============================================================================
