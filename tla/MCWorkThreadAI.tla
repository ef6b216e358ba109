--------------------------- MODULE MCWorkThreadAI ---------------------------
(***************************************************************************)
(* Two charges make a prohibition; the clock and the rules are small.      *)
(***************************************************************************)
EXTENDS WorkThreadAI, TLC

On == [ai |-> TRUE, check |-> 1, stop |-> 1]
Shorter == [ai |-> TRUE, check |-> 0, stop |-> 0]
Off == [ai |-> FALSE, check |-> 1, stop |-> 1]

AllRules == {On, Shorter, Off}
OneRule == {On}
=============================================================================
