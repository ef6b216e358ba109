-------------------------- MODULE WorkThreadAI_proofs --------------------------
(***************************************************************************)
(* Proofs about WorkThreadAI, for any commands, settings, ring size and    *)
(* clock.  RefusedForCharges looks back at one answer; the invariant says  *)
(* the same of every entry of the list of forbidden commands (Justified),  *)
(* and that a ring holds the last charges of its command (Remembers).      *)
(* From these the guard is shown to be a window per command (SlowWindow):  *)
(* the entries of a command, picked from the common list, are its window.  *)
(***************************************************************************)
EXTENDS WorkThreadAI, Selection_proofs

\* n charges back in a history, or the zero a new ring is filled with.
Back(s, n) == IF n < Len(s) THEN s[Len(s) - n].time ELSE 0

\* A ring holds the times of the last charges of its command, and a command
\* has a ring once it has been charged.
Remembers ==
    \A c \in Chargeable :
        /\ ring[c] = Nil => charges[c] = << >>
        /\ ring[c] # Nil => \A n \in Slots : LinkData(ring[c], n) = Back(charges[c], n)

\* A charge that earns a prohibition which ends at second t.
Earns(s, t) ==
    \E j \in DOMAIN s : Window!FullAt(s, j) /\ t = s[j].time + s[j].stop

\* Every entry of the list was earned by charges of its own command.
Justified ==
    \A i \in DOMAIN forbidden :
        Earns(charges[forbidden[i].command], forbidden[i].second)

IInv ==
    /\ TypeOK
    /\ Start <= now
    /\ Remembers
    /\ Justified
    /\ RefusedForCharges

Charged == [time : Nat, check : Nat, stop : Nat]

USE DEF Slots

\* A ring entry is reached from every distance.
LEMMA LinkSlot ==
    ASSUME NEW r \in Ring, NEW n \in Slots
    PROVE  /\ (IF r.next - 1 - n < 0 THEN r.next - 1 - n + WTTimeoutCount
               ELSE r.next - 1 - n) \in Slots
           /\ LinkData(r, n) \in Nat
<1>1. WTTimeoutCount \in Nat \ {0} /\ r.next \in Slots /\ r.time \in [Slots -> Nat]
    BY CountAssumption DEF Ring
<1>2. (IF r.next - 1 - n < 0 THEN r.next - 1 - n + WTTimeoutCount
       ELSE r.next - 1 - n) \in Slots
    BY <1>1
<1> QED BY <1>1, <1>2 DEF LinkData

\* The arithmetic of a step of the ring: k is the position that is written,
\* a the one after it.
LEMMA Shift ==
    ASSUME NEW N \in Nat \ {0}, NEW k \in 0 .. N - 1, NEW n \in 1 .. N - 1,
           NEW a \in 0 .. N - 1, a = IF k = N - 1 THEN 0 ELSE k + 1
    PROVE  /\ (IF a - 1 - n < 0 THEN a - 1 - n + N ELSE a - 1 - n) =
              (IF k - 1 - (n - 1) < 0 THEN k - 1 - (n - 1) + N ELSE k - 1 - (n - 1))
           /\ (IF a - 1 - n < 0 THEN a - 1 - n + N ELSE a - 1 - n) \in (0 .. N - 1) \ {k}
<1>1. CASE k = N - 1
    BY <1>1
<1>2. CASE k # N - 1
    BY <1>2
<1> QED BY <1>1, <1>2

\* A stamp becomes the newest entry, and every other moves one back.
LEMMA StampShifts ==
    ASSUME NEW r \in Ring, now \in Nat
    PROVE  /\ Stamp(r) \in Ring
           /\ LinkData(Stamp(r), 0) = now
           /\ \A n \in Slots : n > 0 => LinkData(Stamp(r), n) = LinkData(r, n - 1)
<1>1. WTTimeoutCount \in Nat \ {0} /\ r.next \in Slots /\ r.time \in [Slots -> Nat]
    BY CountAssumption DEF Ring
<1>2. Advance(r.next) \in Slots
    BY <1>1 DEF Advance
<1> DEFINE s == Stamp(r)
           slot(q, n) == IF q - 1 - n < 0 THEN q - 1 - n + WTTimeoutCount
                         ELSE q - 1 - n
<1>3. s.time = [r.time EXCEPT ![r.next] = now] /\ s.next = Advance(r.next)
    BY DEF Stamp
<1>4. s.time \in [Slots -> Nat]
    BY <1>1, <1>3
<1>5. s \in Ring
    BY <1>2, <1>3, <1>4 DEF Ring, Stamp
<1>6. slot(s.next, 0) = r.next
    BY <1>1, <1>3 DEF Advance
<1>7. ASSUME NEW n \in Slots, n > 0
      PROVE  /\ slot(s.next, n) = slot(r.next, n - 1)
             /\ slot(s.next, n) \in Slots
             /\ slot(s.next, n) # r.next
    <2>1. PICK k \in 0 .. WTTimeoutCount - 1 : k = r.next
        BY <1>1
    <2>2. PICK a \in 0 .. WTTimeoutCount - 1 : a = s.next
        BY <1>2, <1>3
    <2>3. a = IF k = WTTimeoutCount - 1 THEN 0 ELSE k + 1
        BY <1>3, <2>1, <2>2 DEF Advance
    <2>4. n \in 1 .. WTTimeoutCount - 1 /\ WTTimeoutCount \in Nat \ {0}
        BY <1>1, <1>7
    <2>5. slot(a, n) = slot(k, n - 1) /\ slot(a, n) \in (0 .. WTTimeoutCount - 1) \ {k}
        BY <2>3, <2>4, Shift
    <2> QED BY <2>1, <2>2, <2>5
<1>8. s.time[r.next] = now
    BY <1>1, <1>3
<1>9. LinkData(s, 0) = now
    BY <1>6, <1>8 DEF LinkData
<1>10. ASSUME NEW n \in Slots, n > 0
       PROVE  LinkData(s, n) = LinkData(r, n - 1)
    <2>1. s.time[slot(s.next, n)] = r.time[slot(s.next, n)]
        BY <1>1, <1>3, <1>7, <1>10
    <2>2. LinkData(s, n) = s.time[slot(s.next, n)]
          /\ LinkData(r, n - 1) = r.time[slot(r.next, n - 1)]
        BY DEF LinkData
    <2> QED BY <1>7, <1>10, <2>1, <2>2
<1> QED BY <1>5, <1>9, <1>10

\* A sequence holds elements of its set.
LEMMA ElementType ==
    ASSUME NEW E, NEW s \in Seq(E)
    PROVE  \A i \in DOMAIN s : s[i] \in E
OBVIOUS

\* What an earlier charge has earned stays earned.
LEMMA EarnsStays ==
    ASSUME NEW s \in Seq(Charged), NEW e \in Charged, NEW t, Earns(s, t)
    PROVE  Earns(Append(s, e), t)
<1>1. PICK j \in DOMAIN s : Window!FullAt(s, j) /\ t = s[j].time + s[j].stop
    BY DEF Earns
<1>2. Len(s) \in Nat /\ DOMAIN s = 1 .. Len(s) /\ WTTimeoutCount \in Nat \ {0}
    BY CountAssumption
<1>3. \A i \in 1 .. Len(s) : Append(s, e)[i] = s[i]
    OBVIOUS
<1>4. j - WTTimeoutCount + 1 \in 1 .. Len(s)
    BY <1>1, <1>2 DEF Window!FullAt
<1>5. Window!FullAt(Append(s, e), j)
    BY <1>1, <1>2, <1>3, <1>4 DEF Window!FullAt
<1>6. j \in DOMAIN Append(s, e)
    BY <1>2
<1> QED BY <1>1, <1>2, <1>3, <1>5, <1>6 DEF Earns

-----------------------------------------------------------------------------
LEMMA InitIInv == Init => IInv
<1> SUFFICES ASSUME Init PROVE IInv
    OBVIOUS
<1>1. Start \in Nat /\ now = Start /\ Cleared \in Chargeable
    BY RuleAssumption DEF Init, Chargeable
<1>2. /\ forbidden \in Seq([command : Chargeable, second : Nat])
      /\ ring \in [Chargeable -> Ring \cup {Nil}]
      /\ charges \in [Chargeable -> Seq([time : Nat, check : Nat, stop : Nat])]
      /\ slowRuns \in [Commands -> Seq(Nat)]
    BY DEF Init
<1>3. answer \in [time : Nat, refused : {FALSE}]
    BY <1>1 DEF Init
<1>4. TypeOK
    BY <1>1, <1>2, <1>3 DEF Init, TypeOK
<1>5. Remembers /\ Justified /\ RefusedForCharges
    BY DEF Init, Remembers, Justified, RefusedForCharges
<1> QED BY <1>1, <1>4, <1>5 DEF IInv

-----------------------------------------------------------------------------
(* A charge. *)

\* The record SaveTimeout leaves in the history.
ChargeNow == [time |-> now, check |-> rule.check, stop |-> rule.stop]

\* A stamped ring remembers the lengthened history.
LEMMA StampRemembers ==
    ASSUME NEW r \in Ring, NEW s \in Seq(Charged), now \in Nat, ChargeNow \in Charged,
           \A n \in Slots : LinkData(r, n) = Back(s, n)
    PROVE  \A n \in Slots : LinkData(Stamp(r), n) = Back(Append(s, ChargeNow), n)
<1> DEFINE t == Append(s, ChargeNow)
<1>1. Len(s) \in Nat /\ Len(t) = Len(s) + 1 /\ WTTimeoutCount \in Nat \ {0}
    BY CountAssumption
<1>2. t[Len(s) + 1].time = now /\ \A i \in 1 .. Len(s) : t[i] = s[i]
    BY DEF ChargeNow
<1>3. LinkData(Stamp(r), 0) = Back(t, 0)
    BY <1>1, <1>2, StampShifts DEF Back
<1>4. ASSUME NEW n \in Slots, n > 0
      PROVE  LinkData(Stamp(r), n) = Back(t, n)
    <2>1. n - 1 \in Slots
        BY <1>1, <1>4
    <2>2. LinkData(Stamp(r), n) = Back(s, n - 1)
        BY <1>4, <2>1, StampShifts
    <2>3. Back(s, n - 1) = Back(t, n)
        BY <1>1, <1>2, <1>4 DEF Back
    <2> QED BY <2>2, <2>3
<1>5. \A n \in Slots : n = 0 \/ n > 0
    BY <1>1
<1> QED BY <1>3, <1>4, <1>5

\* A ring whose oldest entry is recent is full, and the other way round: its
\* zero entries are too far back for any check time.
LEMMA RecentIsFull ==
    ASSUME TypeOK, Start <= now, NEW r \in Ring, NEW s \in Seq(Charged),
           \A n \in Slots : LinkData(r, n) = Back(s, n)
    PROVE  now - LinkData(Stamp(r), WTTimeoutCount - 1) <= rule.check
               <=> Window!FullAt(Append(s, ChargeNow), Len(Append(s, ChargeNow)))
<1> DEFINE t == Append(s, ChargeNow)
           N == WTTimeoutCount
<1>1. /\ now \in Nat /\ Start \in Nat /\ N \in Nat \ {0}
      /\ rule.check \in Nat /\ rule.stop \in Nat /\ rule.check < Start
    BY CountAssumption, RuleAssumption DEF TypeOK
<1>2. ChargeNow \in Charged
    BY <1>1 DEF ChargeNow, Charged
<1>3. Len(s) \in Nat /\ Len(t) = Len(s) + 1 /\ t \in Seq(Charged)
    BY <1>2
<1>4. t[Len(t)] = ChargeNow
    BY <1>3
<1>5. N - 1 \in Slots
    BY <1>1
<1>6. LinkData(Stamp(r), N - 1) = Back(t, N - 1)
    BY <1>1, <1>2, <1>5, StampRemembers
<1>7. Len(t) - (N - 1) = Len(t) - N + 1
    BY <1>1, <1>3
<1>8. CASE N - 1 < Len(t)
    <2>1. LinkData(Stamp(r), N - 1) = t[Len(t) - N + 1].time
        BY <1>6, <1>7, <1>8 DEF Back
    <2>2. Len(t) >= N
        BY <1>1, <1>3, <1>8
    <2>3. t[Len(t)].time = now /\ t[Len(t)].check = rule.check
        BY <1>4 DEF ChargeNow
    <2>4. Window!FullAt(t, Len(t)) <=> now - t[Len(t) - N + 1].time <= rule.check
        <3> HIDE DEF t
        <3> QED BY <2>2, <2>3 DEF Window!FullAt
    <2> QED BY <2>1, <2>4
<1>9. CASE ~ (N - 1 < Len(t))
    <2>1. LinkData(Stamp(r), N - 1) = 0
        BY <1>6, <1>9 DEF Back
    <2>2. ~ (now - 0 <= rule.check) /\ ~ (Len(t) >= N)
        BY <1>1, <1>3, <1>9
    <2> QED BY <2>1, <2>2 DEF Window!FullAt
<1> QED BY <1>8, <1>9

\* Such a charge earns a prohibition.
LEMMA FullEarns ==
    ASSUME now \in Nat, ChargeNow \in Charged, NEW s \in Seq(Charged),
           Window!FullAt(Append(s, ChargeNow), Len(Append(s, ChargeNow)))
    PROVE  Earns(Append(s, ChargeNow), now + rule.stop)
<1> DEFINE t == Append(s, ChargeNow)
<1>1. Len(s) \in Nat /\ Len(t) = Len(s) + 1 /\ DOMAIN t = 1 .. Len(t)
    OBVIOUS
<1>2. t[Len(t)] = ChargeNow /\ Len(t) \in DOMAIN t
    BY <1>1
<1> QED BY <1>2 DEF Earns, ChargeNow

\* What SaveTimeout does, whether the command has a ring or not: the ring is
\* stamped, the history lengthened, and the command forbidden exactly when the
\* charge is the last of WTTimeoutCount within the check time.
LEMMA SaveTimeoutCharges ==
    ASSUME IInv, NEW c \in Chargeable, SaveTimeout(c)
    PROVE  /\ charges' = [charges EXCEPT ![c] = Append(charges[c], ChargeNow)]
           /\ IF Window!FullAt(Append(charges[c], ChargeNow), Len(Append(charges[c], ChargeNow)))
              THEN Forbid(c) ELSE UNCHANGED forbidden
           /\ \E r \in Ring : /\ ring' = [ring EXCEPT ![c] = Stamp(r)]
                              /\ \A n \in Slots : LinkData(r, n) = Back(charges[c], n)
<1> DEFINE r == IF ring[c] = Nil THEN NewRing ELSE ring[c]
           s == charges[c]
           recent == now - LinkData(Stamp(r), WTTimeoutCount - 1) <= rule.check
<1>1. /\ TypeOK /\ Start <= now /\ Remembers
      /\ ring \in [Chargeable -> Ring \cup {Nil}] /\ s \in Seq(Charged)
      /\ WTTimeoutCount \in Nat \ {0}
    BY CountAssumption DEF IInv, TypeOK, Charged
<1>2. /\ now \in Nat /\ rule.check \in Nat /\ Start \in Nat /\ rule.check < Start
    BY RuleAssumption DEF IInv, TypeOK
<1>3. NewRing \in Ring /\ \A n \in Slots : LinkData(NewRing, n) = 0
    <2>1. NewRing \in Ring
        BY <1>1 DEF NewRing, Ring
    <2>2. ASSUME NEW n \in Slots PROVE LinkData(NewRing, n) = 0
        BY <2>1, LinkSlot DEF LinkData, NewRing
    <2> QED BY <2>1, <2>2
<1>4. r \in Ring /\ \A n \in Slots : LinkData(r, n) = Back(s, n)
    <2>1. CASE ring[c] = Nil
        <3>1. s = << >>
            BY <1>1, <2>1 DEF Remembers
        <3>2. \A n \in Slots : Back(s, n) = 0
            BY <1>1, <3>1 DEF Back
        <3> QED BY <1>3, <2>1, <3>2
    <2>2. CASE ring[c] # Nil
        BY <1>1, <2>2 DEF Remembers
    <2> QED BY <2>1, <2>2
<1>5. /\ ring' = [ring EXCEPT ![c] = Stamp(r)]
      /\ charges' = [charges EXCEPT ![c] = Append(s, ChargeNow)]
      /\ IF recent THEN Forbid(c) ELSE UNCHANGED forbidden
    <2>1. CASE Watch(c)
        <3>1. CASE WTTimeoutCount <= 1
            <4>1. WTTimeoutCount - 1 = 0
                BY <1>1, <3>1
            <4>2. LinkData(Stamp(r), 0) = now
                BY <1>2, <1>4, StampShifts
            <4>3. recent
                BY <1>2, <4>1, <4>2
            <4> QED BY <1>1, <2>1, <3>1, <4>3 DEF Watch, SaveTimeout, ChargeNow
        <3>2. CASE ~ (WTTimeoutCount <= 1)
            <4>1. WTTimeoutCount - 1 \in Slots /\ WTTimeoutCount - 1 > 0
                  /\ (WTTimeoutCount - 1) - 1 \in Slots
                BY <1>1, <3>2
            <4>2. LinkData(Stamp(r), WTTimeoutCount - 1) = LinkData(r, (WTTimeoutCount - 1) - 1)
                BY <1>2, <1>4, <4>1, StampShifts
            <4>3. LinkData(r, (WTTimeoutCount - 1) - 1) = 0
                BY <1>3, <2>1, <4>1 DEF Watch
            <4>4. ~ recent
                BY <1>1, <1>2, <4>2, <4>3
            <4> QED BY <1>1, <2>1, <3>2, <4>4 DEF Watch, SaveTimeout, ChargeNow
        <3> QED BY <3>1, <3>2
    <2>2. CASE Charge(c)
        BY <2>2 DEF Charge, SaveTimeout, ChargeNow
    <2> QED BY <2>1, <2>2 DEF SaveTimeout
<1>6. recent <=> Window!FullAt(Append(s, ChargeNow), Len(Append(s, ChargeNow)))
    BY <1>1, <1>4, RecentIsFull
<1> QED BY <1>4, <1>5, <1>6

\* SaveTimeout charges one command and leaves the others alone.
LEMMA SaveTimeoutPreserves ==
    ASSUME IInv, NEW c \in Chargeable, SaveTimeout(c), UNCHANGED <<now, rule, answer>>
    PROVE  /\ ring' \in [Chargeable -> Ring \cup {Nil}]
           /\ forbidden' \in Seq([command : Chargeable, second : Nat])
           /\ charges' \in [Chargeable -> Seq(Charged)]
           /\ Remembers' /\ Justified' /\ RefusedForCharges'
<1> DEFINE s == charges[c]
           full == Window!FullAt(Append(s, ChargeNow), Len(Append(s, ChargeNow)))
<1>1. /\ TypeOK /\ Start <= now /\ Remembers /\ Justified /\ RefusedForCharges
      /\ ring \in [Chargeable -> Ring \cup {Nil}] /\ s \in Seq(Charged)
      /\ charges \in [Chargeable -> Seq(Charged)]
      /\ forbidden \in Seq([command : Chargeable, second : Nat])
      /\ WTTimeoutCount \in Nat \ {0}
    BY CountAssumption DEF IInv, TypeOK, Charged
<1>2. now \in Nat /\ rule.check \in Nat /\ rule.stop \in Nat
    BY RuleAssumption DEF IInv, TypeOK
<1>3. ChargeNow \in Charged
    BY <1>2 DEF ChargeNow, Charged
<1>5. PICK r \in Ring : /\ ring' = [ring EXCEPT ![c] = Stamp(r)]
                       /\ \A n \in Slots : LinkData(r, n) = Back(s, n)
    BY SaveTimeoutCharges
<1>6. /\ ring' = [ring EXCEPT ![c] = Stamp(r)]
      /\ charges' = [charges EXCEPT ![c] = Append(s, ChargeNow)]
      /\ \/ UNCHANGED forbidden
         \/ full /\ Forbid(c)
    BY <1>5, SaveTimeoutCharges
<1>7. Stamp(r) \in Ring
    BY <1>2, <1>5, StampShifts
<1>8. ring' \in [Chargeable -> Ring \cup {Nil}]
    BY <1>1, <1>6, <1>7
<1>9. charges' \in [Chargeable -> Seq(Charged)]
    BY <1>1, <1>3, <1>6
<1>10. forbidden' \in Seq([command : Chargeable, second : Nat])
    <2>1. [command |-> c, second |-> now + rule.stop] \in [command : Chargeable, second : Nat]
        BY <1>2
    <2>2. \A f \in Seq([command : Chargeable, second : Nat]),
             e \in [command : Chargeable, second : Nat] :
              Append(f, e) \in Seq([command : Chargeable, second : Nat])
        OBVIOUS
    <2> QED BY <1>1, <1>6, <2>1, <2>2 DEF Forbid
<1>11. Remembers'
    <2>1. \A n \in Slots : LinkData(Stamp(r), n) = Back(Append(s, ChargeNow), n)
        BY <1>1, <1>2, <1>3, <1>5, StampRemembers
    <2>2. Stamp(r) # Nil
        BY <1>7, NameAssumption DEF Ring
    <2>3. ASSUME NEW d \in Chargeable
          PROVE  /\ ring'[d] = Nil => charges'[d] = << >>
                 /\ ring'[d] # Nil => \A n \in Slots : LinkData(ring'[d], n) = Back(charges'[d], n)
        <3>1. CASE d = c
            BY <1>1, <1>6, <2>1, <2>2, <3>1
        <3>2. CASE d # c
            BY <1>1, <1>6, <3>2 DEF Remembers
        <3> QED BY <3>1, <3>2
    <2> QED BY <2>3 DEF Remembers
<1>12. \A d \in Chargeable : \A t : Earns(charges[d], t) => Earns(charges'[d], t)
    <2>1. \A t : Earns(s, t) => Earns(Append(s, ChargeNow), t)
        BY <1>1, <1>3, EarnsStays
    <2> QED BY <1>1, <1>6, <2>1
<1>13. Justified'
    <2>1. \A i \in DOMAIN forbidden :
              Earns(charges'[forbidden[i].command], forbidden[i].second)
        <3>1. \A i \in DOMAIN forbidden : forbidden[i] \in [command : Chargeable, second : Nat]
            BY <1>1, ElementType
        <3> QED BY <1>1, <1>12, <3>1 DEF Justified
    <2>2. CASE UNCHANGED forbidden
        BY <2>1, <2>2 DEF Justified
    <2>3. CASE full /\ Forbid(c)
        <3>1. Earns(charges'[c], now + rule.stop)
            BY <1>1, <1>2, <1>3, <1>6, <2>3, FullEarns
        <3>2. forbidden' = Append(forbidden, [command |-> c, second |-> now + rule.stop])
            BY <2>3 DEF Forbid
        <3> QED BY <1>1, <2>1, <3>1, <3>2 DEF Justified
    <2> QED BY <1>6, <2>2, <2>3
<1>14. RefusedForCharges'
    <2> SUFFICES ASSUME answer.refused
                 PROVE  \E j \in DOMAIN charges'[answer.command] :
                            /\ Window!FullAt(charges'[answer.command], j)
                            /\ answer.time <= charges'[answer.command][j].time
                                              + charges'[answer.command][j].stop
        BY DEF RefusedForCharges
    <2>1. answer.command \in Chargeable
        BY <1>1 DEF TypeOK
    <2>2. PICK j \in DOMAIN charges[answer.command] :
              /\ Window!FullAt(charges[answer.command], j)
              /\ answer.time <= charges[answer.command][j].time
                                + charges[answer.command][j].stop
        BY <1>1 DEF RefusedForCharges
    <2> DEFINE t == charges[answer.command][j].time + charges[answer.command][j].stop
    <2>3. Earns(charges[answer.command], t)
        BY <2>2 DEF Earns
    <2>4. Earns(charges'[answer.command], t)
        BY <1>12, <2>1, <2>3
    <2> QED BY <2>2, <2>4 DEF Earns
<1> QED BY <1>8, <1>9, <1>10, <1>11, <1>13, <1>14

-----------------------------------------------------------------------------
(* The steps. *)

\* Steps that touch no charge, no entry and no answer.
LEMMA QuietPreserves ==
    ASSUME IInv, TypeOK', now <= now', UNCHANGED <<ring, forbidden, charges, answer>>
    PROVE  IInv'
<1>1. now \in Nat /\ now' \in Nat /\ Start \in Nat
    BY RuleAssumption DEF TypeOK, IInv
<1>2. Remembers' /\ Justified' /\ RefusedForCharges'
    BY DEF IInv, Remembers, Justified, RefusedForCharges
<1> QED BY <1>1, <1>2 DEF IInv

\* What is left of a sequence without one entry.
LEMMA ErasedKeeps ==
    ASSUME NEW E, NEW s \in Seq(E), NEW i \in 1 .. Len(s)
    PROVE  /\ Erased(s, i) \in Seq(E)
           /\ \A j \in DOMAIN Erased(s, i) : \E k \in DOMAIN s : Erased(s, i)[j] = s[k]
<1> DEFINE t == Erased(s, i)
<1>1. /\ t \in Seq(E) /\ Len(t) = Len(s) - 1
      /\ \A j \in 1 .. Len(s) - 1 : t[j] = IF j < i THEN s[j] ELSE s[j + 1]
    BY ErasedEntries
<1> HIDE DEF t
<1>2. DOMAIN t = 1 .. Len(s) - 1 /\ DOMAIN s = 1 .. Len(s) /\ Len(s) \in Nat
    BY <1>1
<1>3. ASSUME NEW j \in 1 .. Len(s) - 1 PROVE \E k \in 1 .. Len(s) : t[j] = s[k]
    <2>1. j \in 1 .. Len(s) /\ j + 1 \in 1 .. Len(s)
        BY <1>2
    <2>2. t[j] = s[j] \/ t[j] = s[j + 1]
        BY <1>1
    <2> QED BY <2>1, <2>2
<1> QED BY <1>1, <1>2, <1>3 DEF t

LEMMA RefusePreserves ==
    ASSUME IInv, NEW c \in Commands, Refuse(c)
    PROVE  IInv'
<1>1. now \in Nat /\ c \in Chargeable /\ forbidden \in Seq([command : Chargeable, second : Nat])
    BY DEF IInv, TypeOK, Chargeable
<1>2. TypeOK'
    BY <1>1 DEF IInv, TypeOK, Refuse, guard, worker
<1>3. Remembers' /\ Justified' /\ now' = now
    BY DEF IInv, Remembers, Justified, Refuse, guard
<1>4. RefusedForCharges'
    <2>1. PICK i \in DOMAIN forbidden : forbidden[i].command = c /\ forbidden[i].second >= now
        BY DEF Refuse, IsForbidden, IsFirst, Entries
    <2>2. PICK j \in DOMAIN charges[c] :
              /\ Window!FullAt(charges[c], j)
              /\ forbidden[i].second = charges[c][j].time + charges[c][j].stop
        BY <2>1 DEF IInv, Justified, Earns
    <2>3. now <= charges[c][j].time + charges[c][j].stop
        <3>1. forbidden[i] \in [command : Chargeable, second : Nat]
            BY <1>1, <2>1, ElementType
        <3> QED BY <1>1, <2>1, <2>2, <3>1
    <2>4. charges' = charges /\ answer'.command = c /\ answer'.time = now
        BY DEF Refuse
    <2> QED BY <2>2, <2>3, <2>4 DEF RefusedForCharges
<1> QED BY <1>2, <1>3, <1>4 DEF IInv

LEMMA AdmitPreserves ==
    ASSUME IInv, NEW c \in Commands, Admit(c)
    PROVE  IInv'
<1>1. /\ now \in Nat /\ c \in Chargeable /\ c \in Chargeable \cup {Link}
      /\ taken \in Nat /\ TypeOK
    BY DEF IInv, TypeOK, Chargeable
<1>2. /\ forbidden' \in Seq([command : Chargeable, second : Nat])
      /\ \A j \in DOMAIN forbidden' : \E k \in DOMAIN forbidden : forbidden'[j] = forbidden[k]
    <2>1. CASE UNCHANGED forbidden
        BY <1>1, <2>1 DEF TypeOK
    <2>2. CASE \E i \in DOMAIN forbidden : forbidden' = Erase(i)
        <3>1. PICK i \in DOMAIN forbidden : forbidden' = Erase(i)
            BY <2>2
        <3>2. forbidden \in Seq([command : Chargeable, second : Nat]) /\ i \in 1 .. Len(forbidden)
            BY <1>1, <3>1 DEF TypeOK
        <3>3. forbidden' = Erased(forbidden, i)
            BY <3>1 DEF Erase
        <3> DEFINE E == [command : Chargeable, second : Nat]
        <3>4. forbidden \in Seq(E)
            BY <3>2
        <3> HIDE DEF E
        <3>5. /\ forbidden' \in Seq(E)
              /\ \A j \in DOMAIN forbidden' : \E k \in DOMAIN forbidden : forbidden'[j] = forbidden[k]
            BY <3>2, <3>3, <3>4, ErasedKeeps
        <3> QED BY <3>5 DEF E
    <2> QED BY <2>1, <2>2 DEF Admit, Release
<1>3. /\ now' = now /\ rule' = rule /\ ring' = ring /\ charges' = charges
      /\ slow' = slow /\ slowRuns' = slowRuns /\ step' = "run" /\ command' = c
      /\ content' = c /\ taken' = taken + 1
      /\ answer' = [command |-> c, time |-> now, refused |-> FALSE]
    BY DEF Admit
<1>4. answer' \in [command : Chargeable, time : Nat, refused : BOOLEAN]
    BY <1>1, <1>3
<1>5. TypeOK'
    <2>1. taken' \in Nat
        BY <1>1, <1>3
    <2> QED BY <1>1, <1>2, <1>3, <1>4, <2>1 DEF TypeOK
<1>6. Remembers' /\ RefusedForCharges'
    BY <1>3 DEF IInv, Remembers, RefusedForCharges
<1>7. Justified'
    BY <1>2, <1>3 DEF IInv, Justified
<1> QED BY <1>3, <1>5, <1>6, <1>7 DEF IInv

LEMMA SavePreserves ==
    ASSUME IInv, Save
    PROVE  IInv'
<1>1. TypeOK /\ now \in Nat /\ Cleared \in Chargeable
    BY DEF IInv, TypeOK, Chargeable
<1>2. /\ ring' \in [Chargeable -> Ring \cup {Nil}]
      /\ forbidden' \in Seq([command : Chargeable, second : Nat])
      /\ charges' \in [Chargeable -> Seq(Charged)]
      /\ Remembers' /\ Justified' /\ RefusedForCharges'
    <2>1. CASE UNCHANGED <<ring, forbidden, charges>>
        BY <1>1, <2>1 DEF IInv, TypeOK, Charged, Remembers, Justified, RefusedForCharges, Save
    <2>2. CASE content # Link /\ SaveTimeout(content)
        <3>1. content \in Chargeable
            BY <1>1, <2>2 DEF TypeOK
        <3> QED BY <2>2, <3>1, SaveTimeoutPreserves DEF Save
    <2> QED BY <2>1, <2>2 DEF Save, Ignored
<1>3. slowRuns' \in [Commands -> Seq(Nat)]
    <2>1. ASSUME NEW c \in Commands
          PROVE  (IF c = command /\ slow THEN Append(slowRuns[c], now) ELSE slowRuns[c])
                     \in Seq(Nat)
        BY <1>1 DEF TypeOK
    <2> QED BY <2>1 DEF Save
<1>4. TypeOK'
    BY <1>1, <1>2, <1>3 DEF TypeOK, Save, Charged
<1> QED BY <1>2, <1>4 DEF IInv, Save

LEMMA NextIInv == IInv /\ [Next]_vars => IInv'
<1> SUFFICES ASSUME IInv, [Next]_vars PROVE IInv'
    OBVIOUS
<1>1. TypeOK /\ now \in Nat
    BY DEF IInv, TypeOK
<1>2. ASSUME NEW c \in Commands, Refuse(c) PROVE IInv'
    BY <1>2, RefusePreserves
<1>3. ASSUME NEW c \in Commands, Admit(c) PROVE IInv'
    BY <1>3, AdmitPreserves
<1>4. CASE AdmitLink
    <2>1. TypeOK'
        <3>1. taken' \in Nat
            BY <1>1, <1>4 DEF TypeOK, AdmitLink
        <3> QED BY <1>1, <1>4, <3>1 DEF TypeOK, AdmitLink, guard
    <2> QED BY <1>1, <1>4, <2>1, QuietPreserves DEF AdmitLink, guard
<1>5. CASE DoMessage
    <2>1. TypeOK'
        BY <1>1, <1>5 DEF TypeOK, DoMessage, guard, Chargeable
    <2> QED BY <1>1, <1>5, <2>1, QuietPreserves DEF DoMessage, guard
<1>6. ASSUME NEW c \in Commands \cup {Link}, CreateMessage(c) PROVE IInv'
    <2>1. TypeOK'
        BY <1>1, <1>6 DEF TypeOK, CreateMessage, guard, Chargeable
    <2> QED BY <1>1, <1>6, <2>1, QuietPreserves DEF CreateMessage, guard
<1>7. CASE Save
    BY <1>7, SavePreserves
<1>8. ASSUME NEW r \in Rules, ReSet(r) PROVE IInv'
    <2>1. TypeOK'
        BY <1>1, <1>8 DEF TypeOK, ReSet, worker
    <2> QED BY <1>1, <1>8, <2>1, QuietPreserves DEF ReSet
<1>9. CASE Second
    <2>1. now' \in Nat /\ now <= now'
        BY <1>1, <1>9 DEF Second
    <2>2. TypeOK'
        BY <1>1, <1>9, <2>1 DEF TypeOK, Second, worker
    <2> QED BY <1>1, <1>9, <2>1, <2>2, QuietPreserves DEF Second
<1>10. CASE UNCHANGED vars
    <2>1. TypeOK'
        BY <1>1, <1>10 DEF TypeOK, vars, guard, worker
    <2> QED BY <1>1, <1>10, <2>1, QuietPreserves DEF vars, guard
<1> QED BY <1>2, <1>3, <1>4, <1>5, <1>6, <1>7, <1>8, <1>9, <1>10 DEF Next

LEMMA AlwaysIInv == Spec => []IInv
<1> QED BY InitIInv, NextIInv, PTL DEF Spec

\* The guard stays well typed, whatever rules the console sets and whichever
\* commands are charged.
THEOREM TypeCorrect == Spec => []TypeOK
<1>1. IInv => TypeOK
    BY DEF IInv
<1> QED BY <1>1, AlwaysIInv, PTL

\* CheckCurrTimeout never refuses a command that has not earned it: behind
\* every refusal there are WTTimeoutCount charges of this command within the
\* check time, and the stop time after the last has not passed.
THEOREM RefusalsAreEarned == Spec => []RefusedForCharges
<1>1. IInv => RefusedForCharges
    BY DEF IInv
<1> QED BY <1>1, AlwaysIInv, PTL

-----------------------------------------------------------------------------
(* The guard is a window per command. *)

Entry == [command : Chargeable, second : Nat]

\* The entries of a command, as SecondsOf picks them.
Own(c) == [command : {c}, second : Nat]

\* When the entries end.
Seconds(p) == [i \in 1 .. Len(p) |-> p[i].second]

LEMMA OwnEntry ==
    ASSUME NEW e \in Entry, NEW c
    PROVE  e \in Own(c) <=> e.command = c
BY DEF Entry, Own

LEMMA SecondsType ==
    ASSUME NEW p \in Seq(Entry)
    PROVE  Seconds(p) \in Seq(Nat) /\ Len(Seconds(p)) = Len(p)
<1>1. \A i \in 1 .. Len(p) : p[i] \in Entry
    OBVIOUS
<1>2. \A i \in 1 .. Len(p) : p[i].second \in Nat
    BY <1>1 DEF Entry
<1>3. Len(p) \in Nat
    OBVIOUS
<1> QED BY <1>2, <1>3 DEF Seconds

LEMMA SecondsAppend ==
    ASSUME NEW p \in Seq(Entry), NEW e \in Entry
    PROVE  Seconds(Append(p, e)) = Append(Seconds(p), e.second)
<1> DEFINE q == Append(p, e)
           u == Append(Seconds(p), e.second)
<1>1. /\ q \in Seq(Entry) /\ Len(q) = Len(p) + 1
      /\ \A i \in 1 .. Len(p) : q[i] = p[i]
      /\ q[Len(p) + 1] = e
    BY Appended
<1>2. e.second \in Nat
    BY DEF Entry
<1>3. /\ u \in Seq(Nat) /\ Len(u) = Len(p) + 1
      /\ \A i \in 1 .. Len(p) : u[i] = Seconds(p)[i]
      /\ u[Len(p) + 1] = e.second
    BY <1>2, SecondsType, Appended
<1> HIDE DEF q, u
<1>4. Seconds(q) \in Seq(Nat) /\ Len(Seconds(q)) = Len(p) + 1 /\ Len(p) \in Nat
    BY <1>1, SecondsType
<1>5. ASSUME NEW i \in 1 .. Len(p) + 1 PROVE Seconds(q)[i] = u[i]
    <2>1. Seconds(q)[i] = q[i].second
        BY <1>1 DEF Seconds
    <2>2. CASE i = Len(p) + 1
        BY <1>1, <1>3, <2>1, <2>2
    <2>3. CASE i # Len(p) + 1
        <3>1. i \in 1 .. Len(p)
            BY <1>4, <2>3
        <3>2. Seconds(p)[i] = p[i].second
            BY <3>1 DEF Seconds
        <3> QED BY <1>1, <1>3, <2>1, <3>1, <3>2
    <2> QED BY <2>2, <2>3
<1>6. Seconds(q) = u
    BY <1>3, <1>4, <1>5, SeqEqual
<1> QED BY <1>6 DEF q, u

LEMMA SecondsTail ==
    ASSUME NEW p \in Seq(Entry), p # << >>
    PROVE  /\ Seconds(p) # << >> /\ Head(Seconds(p)) = p[1].second
           /\ Seconds(Tail(p)) = Tail(Seconds(p))
<1>1. Len(p) \in Nat /\ Len(p) >= 1 /\ 1 \in 1 .. Len(p)
    OBVIOUS
<1>2. Seconds(p) \in Seq(Nat) /\ Len(Seconds(p)) = Len(p)
    BY SecondsType
<1>3. Seconds(p) # << >>
    BY <1>1, <1>2
<1>4. Head(Seconds(p)) = p[1].second
    <2>1. Head(Seconds(p)) = Seconds(p)[1]
        BY <1>2, <1>3, HeadTailProperties
    <2> QED BY <1>1, <2>1 DEF Seconds
<1>5. /\ Tail(p) \in Seq(Entry) /\ Len(Tail(p)) = Len(p) - 1
      /\ \A i \in 1 .. Len(Tail(p)) : Tail(p)[i] = p[i + 1]
    BY HeadTailProperties
<1>6. /\ Tail(Seconds(p)) \in Seq(Nat) /\ Len(Tail(Seconds(p))) = Len(p) - 1
      /\ \A i \in 1 .. Len(p) - 1 : Tail(Seconds(p))[i] = Seconds(p)[i + 1]
    BY <1>2, <1>3, HeadTailProperties
<1>7. Seconds(Tail(p)) \in Seq(Nat) /\ Len(Seconds(Tail(p))) = Len(p) - 1
    BY <1>5, SecondsType
<1>8. ASSUME NEW i \in 1 .. Len(p) - 1 PROVE Seconds(Tail(p))[i] = Tail(Seconds(p))[i]
    <2>1. Seconds(Tail(p))[i] = Tail(p)[i].second /\ Tail(p)[i] = p[i + 1]
        BY <1>5 DEF Seconds
    <2>2. i + 1 \in 1 .. Len(p)
        BY <1>1
    <2>3. Seconds(p)[i + 1] = p[i + 1].second
        BY <2>2 DEF Seconds
    <2> QED BY <1>6, <2>1, <2>3
<1>9. Seconds(Tail(p)) = Tail(Seconds(p))
    BY <1>6, <1>7, <1>8, SeqEqual
<1> QED BY <1>3, <1>4, <1>9

LEMMA SecondsEmpty == Seconds(<< >>) = << >>
<1>1. << >> \in Seq(Entry) /\ Len(<< >>) = 0
    OBVIOUS
<1>2. Seconds(<< >>) \in Seq(Nat) /\ Len(Seconds(<< >>)) = 0
    BY <1>1, SecondsType
<1> QED BY <1>2

LEMMA SecondsOfIs ==
    ASSUME NEW c
    PROVE  /\ SecondsOf(c) = Seconds(Picked(forbidden, Own(c)))
           /\ SecondsOf(c)' = Seconds(Picked(forbidden', Own(c)))
BY DEF SecondsOf, Seconds, Own

\* What the window of a command shows: the map from the list to ends.
Ends == [c \in Chargeable |-> SecondsOf(c)]

\* A new prohibition comes last in its window and touches no other.
LEMMA ForbidAppends ==
    ASSUME forbidden \in Seq(Entry), NEW c \in Chargeable, NEW t \in Nat,
           forbidden' = Append(forbidden, [command |-> c, second |-> t])
    PROVE  Ends' = [Ends EXCEPT ![c] = Append(@, t)]
<1> DEFINE e == [command |-> c, second |-> t]
<1>1. e \in Entry /\ e.command = c /\ e.second = t
    BY DEF Entry
<1>2. forbidden' = Append(forbidden, e)
    OBVIOUS
<1> HIDE DEF e
<1>3. ASSUME NEW d \in Chargeable
      PROVE  SecondsOf(d)' = IF d = c THEN Append(SecondsOf(d), t) ELSE SecondsOf(d)
    <2> DEFINE p == Picked(forbidden, Own(d))
    <2>1. p \in Seq(Entry)
        BY PickedType
    <2>2. Picked(forbidden', Own(d)) = IF e \in Own(d) THEN Append(p, e) ELSE p
        BY <1>1, <1>2, PickedAppend
    <2>3. e \in Own(d) <=> d = c
        BY <1>1, OwnEntry
    <2>4. SecondsOf(d) = Seconds(p) /\ SecondsOf(d)' = Seconds(Picked(forbidden', Own(d)))
        BY SecondsOfIs
    <2> HIDE DEF p
    <2>5. Seconds(Append(p, e)) = Append(Seconds(p), t)
        BY <1>1, <2>1, SecondsAppend
    <2> QED BY <2>2, <2>3, <2>4, <2>5
<1> QED BY <1>3 DEF Ends

\* The entry the search has found is the head of its window; erasing it takes
\* the head away and touches no other window.
LEMMA EraseTakesHead ==
    ASSUME forbidden \in Seq(Entry), NEW c \in Chargeable, NEW i \in DOMAIN forbidden,
           IsFirst(i, c)
    PROVE  /\ SecondsOf(c) # << >> /\ Head(SecondsOf(c)) = forbidden[i].second
           /\ forbidden' = Erase(i) => Ends' = [Ends EXCEPT ![c] = Tail(@)]
<1>1. i \in 1 .. Len(forbidden) /\ forbidden[i].command = c
    BY DEF IsFirst, Entries
<1>2. \A j \in 1 .. Len(forbidden) : forbidden[j] \in Entry
    OBVIOUS
<1>3. forbidden[i] \in Own(c)
    BY <1>1, <1>2, OwnEntry
<1>4. ASSUME NEW j \in 1 .. i - 1 PROVE forbidden[j] \notin Own(c)
    <2>1. j \in 1 .. Len(forbidden) /\ ~ (i <= j)
        BY <1>1
    <2>2. forbidden[j].command # c
        BY <2>1 DEF IsFirst, Entries
    <2> QED BY <1>2, <2>1, <2>2, OwnEntry
<1> DEFINE p == Picked(forbidden, Own(c))
<1>5. /\ p # << >> /\ p[1] = forbidden[i]
      /\ Picked(Erased(forbidden, i), Own(c)) = Tail(p)
    BY <1>1, <1>3, <1>4, PickedFirst
<1>6. p \in Seq(Entry)
    BY PickedType
<1>7. SecondsOf(c) = Seconds(p) /\ SecondsOf(c)' = Seconds(Picked(forbidden', Own(c)))
    BY SecondsOfIs
<1> HIDE DEF p
<1>8. /\ Seconds(p) # << >> /\ Head(Seconds(p)) = forbidden[i].second
      /\ Seconds(Tail(p)) = Tail(Seconds(p))
    BY <1>5, <1>6, SecondsTail
<1>9. ASSUME forbidden' = Erase(i) PROVE Ends' = [Ends EXCEPT ![c] = Tail(@)]
    <2>1. forbidden' = Erased(forbidden, i)
        BY <1>9 DEF Erase
    <2>2. SecondsOf(c)' = Tail(SecondsOf(c))
        BY <1>5, <1>7, <1>8, <2>1
    <2>3. ASSUME NEW d \in Chargeable, d # c PROVE SecondsOf(d)' = SecondsOf(d)
        <3>1. forbidden[i] \notin Own(d)
            BY <1>1, <1>2, <2>3, OwnEntry
        <3>2. Picked(forbidden', Own(d)) = Picked(forbidden, Own(d))
            BY <1>1, <2>1, <3>1, PickedErased
        <3> QED BY <3>2, SecondsOfIs
    <2>4. \A d \in Chargeable :
              SecondsOf(d)' = IF d = c THEN Tail(SecondsOf(d)) ELSE SecondsOf(d)
        BY <2>2, <2>3
    <2> QED BY <2>4 DEF Ends
<1> QED BY <1>7, <1>8, <1>9

\* A search that finds nothing looks at an empty window, and the other way
\* round.
LEMMA NoneIsEmpty ==
    ASSUME forbidden \in Seq(Entry), NEW c \in Chargeable
    PROVE  /\ Entries(c) = {} => SecondsOf(c) = << >>
           /\ Entries(c) # {} => \E i \in DOMAIN forbidden : IsFirst(i, c)
<1>1. \A j \in 1 .. Len(forbidden) : forbidden[j] \in Entry
    OBVIOUS
<1>2. ASSUME Entries(c) = {} PROVE SecondsOf(c) = << >>
    <2>1. \A j \in 1 .. Len(forbidden) : forbidden[j] \notin Own(c)
        BY <1>1, <1>2, OwnEntry DEF Entries
    <2>2. Picked(forbidden, Own(c)) = << >>
        BY <2>1, PickedNothing
    <2> QED BY <2>2, SecondsOfIs, SecondsEmpty
<1>3. ASSUME Entries(c) # {} PROVE \E i \in DOMAIN forbidden : IsFirst(i, c)
    <2>1. Entries(c) \in SUBSET Nat
        BY DEF Entries
    <2>2. PICK i \in Entries(c) : \A j \in Entries(c) : i <= j
        BY <1>3, <2>1, SmallestOf
    <2> QED BY <2>2 DEF IsFirst, Entries
<1> QED BY <1>2, <1>3

WindowVars == <<now, rule, charges, Ends, answer>>

\* The initial states are initial states of the windows.
LEMMA InitWindow == Init => Window!AInit
<1> SUFFICES ASSUME Init PROVE Window!AInit
    OBVIOUS
<1>1. ASSUME NEW c PROVE SecondsOf(c) = << >>
    <2>1. Picked(forbidden, Own(c)) = << >>
        BY PickedEmpty DEF Init
    <2> QED BY <2>1, SecondsOfIs, SecondsEmpty
<1>2. [c \in Chargeable |-> SecondsOf(c)] = [c \in Chargeable |-> << >>]
    BY <1>1
<1> QED BY <1>2 DEF Init, Window!AInit

\* A step that leaves the list alone leaves the windows alone.
LEMMA SameEnds == ASSUME UNCHANGED forbidden PROVE Ends' = Ends
<1>1. \A c \in Chargeable : SecondsOf(c)' = SecondsOf(c)
    BY SecondsOfIs
<1> QED BY <1>1 DEF Ends

\* SaveTimeout is a charge of the window.
LEMMA SaveTimeoutIsCharge ==
    ASSUME IInv, NEW c \in Chargeable, SaveTimeout(c), UNCHANGED <<now, rule, answer>>
    PROVE  Window!Charge(c)
<1> DEFINE t == Append(charges[c], ChargeNow)
<1>1. /\ forbidden \in Seq(Entry) /\ now + rule.stop \in Nat
      /\ charges \in [Chargeable -> Seq(Charged)]
    BY RuleAssumption DEF IInv, TypeOK, Entry, Charged
<1>2. /\ charges' = [charges EXCEPT ![c] = t]
      /\ IF Window!FullAt(t, Len(t)) THEN Forbid(c) ELSE UNCHANGED forbidden
    BY SaveTimeoutCharges
<1>3. charges'[c] = t
    BY <1>1, <1>2
<1>4. Ends' = [Ends EXCEPT ![c] =
          IF Window!FullAt(charges'[c], Len(charges'[c])) THEN Append(@, now + rule.stop)
          ELSE @]
    <2>1. CASE Window!FullAt(t, Len(t))
        <3>1. Ends' = [Ends EXCEPT ![c] = Append(@, now + rule.stop)]
            BY <1>1, <1>2, <2>1, ForbidAppends DEF Forbid
        <3> QED BY <1>3, <2>1, <3>1
    <2>2. CASE ~ Window!FullAt(t, Len(t))
        <3>1. Ends' = Ends
            BY <1>2, <2>2, SameEnds
        <3>2. Ends = [Ends EXCEPT ![c] = @]
            BY DEF Ends
        <3> QED BY <1>3, <2>2, <3>1, <3>2
    <2> QED BY <2>1, <2>2
<1>5. rule.ai /\ charges' = [charges EXCEPT ![c] =
          Append(@, [time |-> now, check |-> rule.check, stop |-> rule.stop])]
    BY <1>2 DEF SaveTimeout, ChargeNow
<1> QED BY <1>4, <1>5 DEF Window!Charge, Ends

\* A refusal is a refusal of the window.
LEMMA RefuseIsRefuse ==
    ASSUME IInv, NEW c \in Commands, Refuse(c)
    PROVE  Window!Refuse(c)
<1>1. forbidden \in Seq(Entry) /\ c \in Chargeable
    BY DEF IInv, TypeOK, Entry, Chargeable
<1>2. PICK i \in DOMAIN forbidden : IsFirst(i, c) /\ forbidden[i].second >= now
    BY DEF Refuse, IsForbidden
<1>3. SecondsOf(c) # << >> /\ Head(SecondsOf(c)) >= now
    BY <1>1, <1>2, EraseTakesHead
<1>4. Ends[c] = SecondsOf(c)
    BY <1>1 DEF Ends
<1>5. /\ rule.ai /\ answer' = [command |-> c, time |-> now, refused |-> TRUE]
      /\ UNCHANGED <<now, rule, forbidden, charges>>
    BY DEF Refuse, IsForbidden, guard
<1>6. Ends' = Ends
    BY <1>5, SameEnds
<1> QED BY <1>3, <1>4, <1>5, <1>6 DEF Window!Refuse, Ends

\* An admission, with the entry that has ended erased, is one of the window.
LEMMA AdmitIsAdmit ==
    ASSUME IInv, NEW c \in Commands, Admit(c)
    PROVE  Window!Admit(c)
<1>1. forbidden \in Seq(Entry) /\ c \in Chargeable
    BY DEF IInv, TypeOK, Entry, Chargeable
<1>2. Ends[c] = SecondsOf(c)
    BY <1>1 DEF Ends
<1>3. /\ answer' = [command |-> c, time |-> now, refused |-> FALSE]
      /\ UNCHANGED <<now, rule, charges>> /\ Release(c)
    BY DEF Admit
<1>4. \/ ~ rule.ai /\ Ends' = Ends
      \/ rule.ai /\ Ends[c] = << >> /\ Ends' = Ends
      \/ /\ rule.ai /\ Ends[c] # << >> /\ Head(Ends[c]) < now
         /\ Ends' = [Ends EXCEPT ![c] = Tail(@)]
    <2>1. CASE ~ rule.ai /\ UNCHANGED forbidden
        BY <2>1, SameEnds
    <2>2. CASE rule.ai /\ Entries(c) = {} /\ UNCHANGED forbidden
        BY <1>1, <1>2, <2>2, NoneIsEmpty, SameEnds
    <2>3. CASE rule.ai /\ \E i \in DOMAIN forbidden : /\ IsFirst(i, c)
                                                      /\ forbidden[i].second < now
                                                      /\ forbidden' = Erase(i)
        <3>1. PICK i \in DOMAIN forbidden : /\ IsFirst(i, c)
                                            /\ forbidden[i].second < now
                                            /\ forbidden' = Erase(i)
            BY <2>3
        <3>2. /\ SecondsOf(c) # << >> /\ Head(SecondsOf(c)) = forbidden[i].second
              /\ Ends' = [Ends EXCEPT ![c] = Tail(@)]
            BY <1>1, <3>1, EraseTakesHead
        <3> QED BY <1>2, <2>3, <3>1, <3>2
    <2> QED BY <1>3, <2>1, <2>2, <2>3 DEF Release
<1> QED BY <1>3, <1>4 DEF Window!Admit, Ends

\* Every step is a step of the windows or does not touch them.
LEMMA NextWindow == IInv /\ [Next]_vars => [Window!ANext]_(Window!avars)
<1> SUFFICES ASSUME IInv, [Next]_vars
             PROVE  Window!ANext \/ UNCHANGED WindowVars
    BY DEF Window!avars, WindowVars, Ends
<1>1. ASSUME NEW c \in Commands, Refuse(c) PROVE Window!ANext
    BY <1>1, RefuseIsRefuse DEF Window!ANext, Chargeable
<1>2. ASSUME NEW c \in Commands, Admit(c) PROVE Window!ANext
    BY <1>2, AdmitIsAdmit DEF Window!ANext, Chargeable
<1>3. CASE AdmitLink
    BY <1>3, SameEnds DEF AdmitLink, guard, WindowVars
<1>4. CASE DoMessage
    BY <1>4, SameEnds DEF DoMessage, guard, WindowVars
<1>5. ASSUME NEW c \in Commands \cup {Link}, CreateMessage(c) PROVE UNCHANGED WindowVars
    BY <1>5, SameEnds DEF CreateMessage, guard, WindowVars
<1>6. CASE Save
    <2>1. CASE content # Link /\ SaveTimeout(content)
        <3>1. content \in Chargeable
            BY <2>1 DEF IInv, TypeOK
        <3>2. Window!Charge(content)
            BY <1>6, <2>1, <3>1, SaveTimeoutIsCharge DEF Save
        <3> QED BY <3>1, <3>2 DEF Window!ANext
    <2>2. CASE UNCHANGED <<ring, forbidden, charges>>
        BY <1>6, <2>2, SameEnds DEF Save, WindowVars
    <2> QED BY <1>6, <2>1, <2>2 DEF Save, Ignored
<1>7. ASSUME NEW r \in Rules, ReSet(r) PROVE Window!ANext
    <2>1. Window!SetRule
        BY <1>7, SameEnds DEF ReSet, Window!SetRule, Ends
    <2> QED BY <2>1 DEF Window!ANext
<1>8. CASE Second
    <2>1. Window!Pass
        BY <1>8, SameEnds DEF Second, Window!Pass, Ends
    <2> QED BY <2>1 DEF Window!ANext
<1>9. CASE UNCHANGED vars
    BY <1>9, SameEnds DEF vars, guard, WindowVars
<1> QED BY <1>1, <1>2, <1>3, <1>4, <1>5, <1>6, <1>7, <1>8, <1>9 DEF Next

\* The rings, the common list and its erasures are a window per command: what
\* CWorkThreadAI answers about a command follows from the charges and the
\* questions of that command alone, for any number of commands and any rules.
THEOREM GuardIsAWindow == Spec => ImplementsSlowWindow
<1>1. IInv /\ [Next]_vars => [Window!ANext]_(Window!avars)
    BY NextWindow
<1> QED BY <1>1, InitWindow, AlwaysIInv, PTL DEF Spec, ImplementsSlowWindow, Window!ASpec
=============================================================================
