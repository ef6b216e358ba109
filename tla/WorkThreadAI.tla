---------------------------- MODULE WorkThreadAI ----------------------------
(***************************************************************************)
(* CWorkThreadAI of Message/WorkThreadAI.cpp, the guard with which a       *)
(* worker refuses commands that have been slow, and the part of            *)
(* CMessageService::ProcessMessage that asks and feeds it.  Each command   *)
(* that has been charged owns a ring (CRingLink, Common/Ring.h) of the     *)
(* times of its last charges; a ring whose oldest charge is recent enough  *)
(* puts the command on the list of forbidden ones.                         *)
(*                                                                         *)
(* ProcessMessage asks about the command it has read from the message, but *)
(* charges the command that stands in the message after DeleteMessage.  By *)
(* then CMessagePool::Delete has cleared the message, and another thread   *)
(* may have filled it again.                                               *)
(***************************************************************************)
EXTENDS Integers, Sequences, Selection

CONSTANTS Commands,        \* the commands of packets
          Link,            \* stands for the kinds of link events
          Cleared,         \* m_u2Cmd = 0, of a cleared message
          WTTimeoutCount,  \* m_u4WTTimeoutCount
          Rules,           \* settings [ai, check, stop] of Init and ReSet
          Start,           \* the time at the beginning, in seconds since 1970
          MaxTime,         \* bound on the clock
          MaxMessages,     \* bound on the messages admitted
          Nil              \* NULL

\* CRingLink::Init allocates WTTimeoutCount entries, and the first is written
\* without a test.
ASSUME CountAssumption == WTTimeoutCount \in Nat \ {0}
\* A ring starts with zero times, which no check time reaches back to.
ASSUME RuleAssumption ==
    /\ Start \in Nat
    /\ \A r \in Rules : /\ r \in [ai : BOOLEAN, check : Nat, stop : Nat]
                        /\ r.check < Start
ASSUME NameAssumption ==
    /\ Link \notin Commands /\ Cleared \notin Commands /\ Link # Cleared
    /\ Nil \notin [time : [0 .. WTTimeoutCount - 1 -> Nat],
                   next : 0 .. WTTimeoutCount - 1]

Chargeable == Commands \cup {Cleared}
Slots == 0 .. WTTimeoutCount - 1
Ring == [time : [Slots -> Nat], next : Slots]

VARIABLES
    now,        \* gettimeofday().sec()
    rule,       \* m_u1WTAI, m_u4WTCheckTime, m_u4WTStopTime
    ring,       \* m_vecCommandTime: the ring of a command, Nil before its first
    forbidden,  \* m_vecCommandTimeout
    step,       \* where the worker is in ProcessMessage
    command,    \* u2CommandID, read when the message is taken
    content,    \* m_u2Cmd of the message the worker holds a pointer to
    slow,       \* u4TimeCost has reached m_u4DisposeTime
    taken,      \* messages admitted
    answer,     \* the last answer of CheckCurrTimeout
    charges,    \* history: the charges of each command
    slowRuns    \* history: when each command has run slowly

guard == <<now, rule, ring, forbidden>>
worker == <<step, command, content, slow, taken>>
vars == <<guard, worker, answer, charges, slowRuns>>

TypeOK ==
    /\ now \in Nat
    /\ rule \in Rules
    /\ ring \in [Chargeable -> Ring \cup {Nil}]
    /\ forbidden \in Seq([command : Chargeable, second : Nat])
    /\ step \in {"getq", "run", "save"}
    /\ command \in Chargeable \cup {Link}
    /\ content \in Chargeable \cup {Link}
    /\ slow \in BOOLEAN
    /\ taken \in Nat
    /\ answer \in [time : Nat, refused : {FALSE}]
                  \cup [command : Chargeable, time : Nat, refused : BOOLEAN]
    /\ charges \in [Chargeable -> Seq([time : Nat, check : Nat, stop : Nat])]
    /\ slowRuns \in [Commands -> Seq(Nat)]

Init ==
    /\ now = Start
    /\ rule \in Rules
    /\ ring = [c \in Chargeable |-> Nil]
    /\ forbidden = << >>
    /\ step = "getq"
    /\ command = Cleared
    /\ content = Cleared
    /\ slow = FALSE
    /\ taken = 0
    /\ answer = [time |-> Start, refused |-> FALSE]
    /\ charges = [c \in Chargeable |-> << >>]
    /\ slowRuns = [c \in Commands |-> << >>]

-----------------------------------------------------------------------------
(* The ring of one command. *)

\* CRingLink::Init and the default constructor of _CommandTimeout.
NewRing == [time |-> [k \in Slots |-> 0], next |-> 0]

\* The position never goes back to the start.
AdvancePast(k) == k + 1

\* CRingLink::Add.
Advance(k) == IF k = WTTimeoutCount - 1 THEN 0 ELSE k + 1

\* GetFreeData, the write through it, and Add.
Stamp(r) ==
    [time |-> [r.time EXCEPT ![r.next] = now], next |-> Advance(r.next)]

\* The entry before the newest one.
LinkDataNewest(r, n) == r.time[IF r.next = 0 THEN WTTimeoutCount - 1 ELSE r.next - 1]

\* CRingLink::GetLinkData: n entries before the newest.
LinkData(r, n) ==
    LET k == r.next - 1 - n
    IN  r.time[IF k < 0 THEN k + WTTimeoutCount ELSE k]

-----------------------------------------------------------------------------
(* CWorkThreadAI. *)

Forbid(c) == forbidden' = Append(forbidden, [command |-> c, second |-> now + rule.stop])

\* SaveTimeout for a command that has no ring yet.
Watch(c) ==
    /\ ring[c] = Nil
    /\ ring' = [ring EXCEPT ![c] = Stamp(NewRing)]
    /\ \/ WTTimeoutCount <= 1 /\ Forbid(c)
       \/ WTTimeoutCount > 1 /\ UNCHANGED forbidden

\* SaveTimeout for a command that has one.
Charge(c) ==
    LET r == Stamp(ring[c])
        recent == now - LinkData(r, WTTimeoutCount - 1) <= rule.check
    IN  /\ ring[c] # Nil
        /\ ring' = [ring EXCEPT ![c] = r]
        /\ \/ recent /\ Forbid(c)
           \/ ~recent /\ UNCHANGED forbidden

SaveTimeout(c) ==
    /\ rule.ai /\ slow
    /\ Watch(c) \/ Charge(c)
    /\ charges' = [charges EXCEPT ![c] =
           Append(@, [time |-> now, check |-> rule.check, stop |-> rule.stop])]

Ignored ==
    /\ ~(rule.ai /\ slow)
    /\ UNCHANGED <<ring, forbidden, charges>>

\* The whole list counts, whatever the command.
EntriesOfAny(c) == DOMAIN forbidden

\* The entries of the list the search of CheckCurrTimeout stops at.
Entries(c) == {i \in DOMAIN forbidden : forbidden[i].command = c}

IsFirst(i, c) == i \in Entries(c) /\ \A j \in Entries(c) : i <= j

\* m_vecCommandTimeout.erase(b).
Erase(i) == Erased(forbidden, i)

\* CheckCurrTimeout answers true: the first entry of the command has not
\* ended.
IsForbidden(c) ==
    rule.ai /\ \E i \in DOMAIN forbidden : IsFirst(i, c) /\ forbidden[i].second >= now

\* CheckCurrTimeout answers false; an entry that has ended is erased, the
\* first one only.
Release(c) ==
    \/ ~rule.ai /\ UNCHANGED forbidden
    \/ rule.ai /\ Entries(c) = {} /\ UNCHANGED forbidden
    \/ /\ rule.ai
       /\ \E i \in DOMAIN forbidden :
              /\ IsFirst(i, c) /\ forbidden[i].second < now
              /\ forbidden' = Erase(i)

-----------------------------------------------------------------------------
(* CMessageService::ProcessMessage. *)

\* The busy answer is sent, the message deleted.
Refuse(c) ==
    /\ step = "getq"
    /\ IsForbidden(c)
    /\ answer' = [command |-> c, time |-> now, refused |-> TRUE]
    /\ UNCHANGED <<guard, worker, charges, slowRuns>>

Admit(c) ==
    /\ step = "getq" /\ taken < MaxMessages
    /\ ~IsForbidden(c)
    /\ Release(c)
    /\ taken' = taken + 1
    /\ answer' = [command |-> c, time |-> now, refused |-> FALSE]
    /\ command' = c /\ content' = c
    /\ step' = "run"
    /\ UNCHANGED <<now, rule, ring, slow, charges, slowRuns>>

\* Link events are not checked.
AdmitLink ==
    /\ step = "getq" /\ taken < MaxMessages
    /\ taken' = taken + 1
    /\ command' = Link /\ content' = Link
    /\ step' = "run"
    /\ UNCHANGED <<guard, slow, answer, charges, slowRuns>>

\* DoMessage measures the cost; then the message is deleted, unless a module
\* keeps it by clearing blDeleteFlag.
DoMessage ==
    /\ step = "run"
    /\ slow' \in BOOLEAN
    /\ content' \in {content, Cleared}
    /\ step' = "save"
    /\ UNCHANGED <<guard, command, taken, answer, charges, slowRuns>>

\* Another thread takes the deleted message from the pool and fills it.
CreateMessage(c) ==
    /\ step = "save" /\ content = Cleared
    /\ content' = c
    /\ UNCHANGED <<guard, step, command, slow, taken, answer, charges, slowRuns>>

\* The end of ProcessMessage, with the kind of the message as it is now.
Save ==
    /\ step = "save"
    /\ \/ content = Link /\ UNCHANGED <<ring, forbidden, charges>>
       \/ content # Link /\ (SaveTimeout(content) \/ Ignored)
    /\ slowRuns' = [c \in Commands |->
           IF c = command /\ slow THEN Append(slowRuns[c], now) ELSE slowRuns[c]]
    /\ command' = Cleared /\ content' = Cleared /\ slow' = FALSE
    /\ step' = "getq"
    /\ UNCHANGED <<now, rule, taken, answer>>

\* CMessageService::SetAI, from the console's thread.
ReSet(r) ==
    /\ rule' = r
    /\ UNCHANGED <<now, ring, forbidden, worker, answer, charges, slowRuns>>

Second ==
    /\ now < MaxTime
    /\ now' = now + 1
    /\ UNCHANGED <<rule, ring, forbidden, worker, answer, charges, slowRuns>>

Next ==
    \/ \E c \in Commands : Refuse(c) \/ Admit(c)
    \/ AdmitLink \/ DoMessage
    \/ \E c \in Commands \cup {Link} : CreateMessage(c)
    \/ Save
    \/ \E r \in Rules : ReSet(r)
    \/ Second

Spec == Init /\ [][Next]_vars

-----------------------------------------------------------------------------
(* Properties. *)

SecondsOf(c) ==
    LET own == Picked(forbidden, [command : {c}, second : Nat])
    IN  [i \in 1 .. Len(own) |-> own[i].second]

Window == INSTANCE SlowWindow WITH
    Count <- WTTimeoutCount,
    ends <- [c \in Chargeable |-> SecondsOf(c)]

\* The rings and the common list are a window per command: the last
\* WTTimeoutCount charges and nothing else decide, and what happens to one
\* command does not touch another's prohibitions.
ImplementsSlowWindow == Window!ASpec

\* A command is only refused when it has been charged WTTimeoutCount times
\* within the check time, and no longer than the stop time after the last of
\* these charges, whatever was reset from the console in between.
RefusedForCharges ==
    answer.refused =>
        \E j \in DOMAIN charges[answer.command] :
            /\ Window!FullAt(charges[answer.command], j)
            /\ answer.time <= charges[answer.command][j].time
                              + charges[answer.command][j].stop

\* WorkThreadAI.h:276 and 277: a limit on the slow packets of a command per
\* check time, and the time for which the command is then stopped.  While
\* the settings stay, a command whose last WTTimeoutCount slow runs lie
\* within the check time does not run within the stop time after them.
SlowRefused ==
    \A c \in Commands :
        LET s == slowRuns[c]
        IN  ~ /\ step = "run" /\ command = c
              /\ Len(s) >= WTTimeoutCount
              /\ s[Len(s)] - s[Len(s) - WTTimeoutCount + 1] <= rule.check
              /\ answer.time <= s[Len(s)] + rule.stop
=============================================================================
