-------------------------- MODULE MCConnectHandler --------------------------
(***************************************************************************)
(* A pool small enough that a closed handler soon carries the next         *)
(* connection.                                                             *)
(***************************************************************************)
EXTENDS ConnectHandler, TLC

Symmetry == Permutations(Handlers)
=============================================================================
