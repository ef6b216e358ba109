--------------------------- MODULE MCCommandLists ---------------------------
(***************************************************************************)
(* Two modules that handle a command each: a link event and a packet.      *)
(***************************************************************************)
EXTENDS CommandLists, TLC

CONSTANTS chat, login, link, enter

One == chat :> {link} @@ login :> {enter}
=============================================================================
