-------------------------- MODULE MCMessageService --------------------------
(***************************************************************************)
(* Two workers.  A reactor thread reads the packets of connection 1 and a  *)
(* sender raises link events for it.                                       *)
(***************************************************************************)
EXTENDS MessageService, TLC

CONSTANTS reactor, other

WithSender == reactor :> {<<1, "packet", 1>>, <<1, "packet", 2>>} @@
              other :> {<<1, "link", 1>>}
=============================================================================
