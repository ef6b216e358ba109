------------------------------ MODULE SlowWindow ------------------------------
(***************************************************************************)
(* What CWorkThreadAI (Message/WorkThreadAI.h) is to its worker: every     *)
(* command has a window of its own.  A charge for slowness that is the     *)
(* Count-th within the check time earns the command a prohibition.  A      *)
(* question about a command is answered by its oldest prohibition, which   *)
(* is dropped when the question finds it over.                             *)
(*                                                                         *)
(* There is no ring here and no common list: WorkThreadAI implements this. *)
(***************************************************************************)
EXTENDS Naturals, Sequences

CONSTANTS Chargeable,   \* the commands that can be charged
          Count,        \* how many charges earn a prohibition
          Rules,        \* settings: [ai, check, stop]
          Start         \* the time at the beginning

VARIABLES
    now,
    rule,      \* the settings in force
    charges,   \* per command, every charge with the settings it met
    ends,      \* per command, when its prohibitions end, oldest first
    answer     \* the last question and whether the command was refused

avars == <<now, rule, charges, ends, answer>>

\* The charge at position j is the last of Count within the check time.
FullAt(s, j) ==
    /\ j >= Count
    /\ s[j].time - s[j - Count + 1].time <= s[j].check

AInit ==
    /\ now = Start
    /\ rule \in Rules
    /\ charges = [c \in Chargeable |-> << >>]
    /\ ends = [c \in Chargeable |-> << >>]
    /\ answer = [time |-> Start, refused |-> FALSE]

Pass ==
    /\ now' = now + 1
    /\ UNCHANGED <<rule, charges, ends, answer>>

SetRule ==
    /\ rule' \in Rules
    /\ UNCHANGED <<now, charges, ends, answer>>

Charge(c) ==
    /\ rule.ai
    /\ charges' = [charges EXCEPT ![c] =
           Append(@, [time |-> now, check |-> rule.check, stop |-> rule.stop])]
    /\ ends' = [ends EXCEPT ![c] =
           IF FullAt(charges'[c], Len(charges'[c])) THEN Append(@, now + rule.stop)
           ELSE @]
    /\ UNCHANGED <<now, rule, answer>>

\* Without the guard every command is admitted and no prohibition is dropped.
Refuse(c) ==
    /\ rule.ai /\ ends[c] # << >> /\ Head(ends[c]) >= now
    /\ answer' = [command |-> c, time |-> now, refused |-> TRUE]
    /\ UNCHANGED <<now, rule, charges, ends>>

Admit(c) ==
    /\ \/ ~rule.ai /\ UNCHANGED ends
       \/ rule.ai /\ ends[c] = << >> /\ UNCHANGED ends
       \/ /\ rule.ai /\ ends[c] # << >> /\ Head(ends[c]) < now
          /\ ends' = [ends EXCEPT ![c] = Tail(@)]
    /\ answer' = [command |-> c, time |-> now, refused |-> FALSE]
    /\ UNCHANGED <<now, rule, charges>>

ANext ==
    \/ Pass \/ SetRule
    \/ \E c \in Chargeable : Charge(c) \/ Refuse(c) \/ Admit(c)

ASpec == AInit /\ [][ANext]_avars
=============================================================================
