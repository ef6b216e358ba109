-------------------------- MODULE MCClientReConnect --------------------------
(***************************************************************************)
(* One server, a module's thread, the reactor and the timer.               *)
(***************************************************************************)
EXTENDS ClientReConnect, TLC
=============================================================================
