-------------------------- MODULE CommandLists_proofs --------------------------
(***************************************************************************)
(* Proofs about CommandLists, for any modules, workers, addresses and      *)
(* number of console commands.                                             *)
(*                                                                         *)
(* How often a library must be open (Enough) depends on where the two who  *)
(* may be loading it are, since each may still close the old entry's: Need *)
(* is the number.  For a module that was never reloaded while the console  *)
(* was loading it the number is exact (Exact).                             *)
(*                                                                         *)
(* RegisteredMapped rests on when a module that m_objHashModuleList has    *)
(* given up can still have entries: never two of one command (Single), so  *)
(* that UnLoadModuleData, which removes one per command, leaves none       *)
(* behind when the library is closed.                                      *)
(***************************************************************************)
EXTENDS CommandLists, TLAPS, FiniteSetTheorems

Items == [module : Modules, reload : BOOLEAN]

\* How often m waits.
Places(s, m) == {i \in DOMAIN s : s[i].module = m}
Waits(s, m) == Cardinality(Places(s, m))

Has(m) == IF m \in modules THEN 1 ELSE 0

\* Where s is in a load of m.
Phases == {"none", "find", "retire", "add"}
Phase(s, m) == IF Holds(s, m) THEN pc[s] ELSE "none"

\* How often a library must be open, beside the waiting entries, when its two
\* loaders are at p and q and the table has it t times.
Need(p, q, t) ==
    IF p = "none" /\ q = "none" THEN t
    ELSE IF "none" \in {p, q}
         THEN IF "find" \in {p, q} THEN 1 + t ELSE IF "add" \in {p, q} THEN 1 ELSE 2
    ELSE IF p = "find" /\ q = "find" THEN 2 + t
    ELSE IF p = "add" /\ q = "add" THEN 1
    ELSE IF "add" \in {p, q} THEN 2 ELSE 3

\* m_tmModule has one owner.
OneLoader ==
    \A v, w \in Workers : pc[v] \in Loading /\ pc[w] \in Loading => v = w

\* The object a loader has is the one of the mapping there is.
Opened ==
    \A s \in Senders : pc[s] \in Loading =>
        loading[s] \in Objects /\ loading[s][2] = mapped[Library(loading[s])]

Enough ==
    \A m \in Modules : \A s, x \in Senders :
        s # x => refs[m] >= Waits(waiting, m) + Need(Phase(s, m), Phase(x, m), Has(m))

Held(m) == \E s \in Senders : Holds(s, m)

Exact ==
    \A m \in Modules \ collided :
        /\ refs[m] = Waits(waiting, m) + Has(m) + (IF Held(m) THEN 1 ELSE 0)
        /\ \A s \in Senders : Holds(s, m) =>
              /\ \A x \in Senders : Holds(x, m) => x = s
              /\ pc[s] = "retire" => m \in modules
              /\ pc[s] = "add" => m \notin modules

\* A module is registered while the table has it, or while the other loader,
\* which has removed the entry, has it open.
Registering ==
    \A s \in Senders : pc[s] = "register" =>
        Library(loading[s]) \in modules \/ Held(Library(loading[s]))

\* The addresses a module's entries had cover those they have.
Remembered ==
    \A a \in InUse : /\ a \in clients[Library(info[a][2])]
                     /\ info[a][1] \in Subscribes[Library(info[a][2])]

\* The console is between the release of the entries of m and the removal of
\* m from m_objHashModuleList.
Moving(m) == pc[Console] = "move" /\ named.module = m

NamedKnown == pc[Console] = "move" => named \in Items

\* Nobody keeps the library of m open for the table.
Alone(m) == Moving(m) \/ (m \notin modules /\ ~Held(m))

Single ==
    \A a, b \in InUse :
        /\ info[a][1] = info[b][1]
        /\ Library(info[a][2]) = Library(info[b][2])
        /\ Alone(Library(info[a][2]))
        => a = b

\* A worker that loads what the console is about to move finds no entries.
Emptied ==
    \A w \in Workers : pc[w] \in Loading /\ Moving(Library(loading[w])) =>
        \A a \in InUse : Library(info[a][2]) # Library(loading[w])

OpenIsMapped == \A m \in Modules : refs[m] > 0 => mapped[m] > 0

\* Every mapping of a library has cost a console command.
Budget ==
    \A m \in Modules :
        mapped[m] + Len(waiting) + (IF pc[Console] = "move" THEN 1 ELSE 0)
            <= ops + 1

Counted == OneLoader /\ Opened /\ Enough /\ Exact /\ Registering
Entered == RegisteredMapped /\ Remembered /\ NamedKnown /\ Single /\ Emptied
           /\ OpenIsMapped /\ Budget

IInv == TypeOK /\ Counted /\ Entered

-----------------------------------------------------------------------------
(* The waiting list. *)

LEMMA WaitsType ==
    ASSUME NEW s \in Seq(Items), NEW m
    PROVE  IsFiniteSet(Places(s, m)) /\ Waits(s, m) \in Nat
<1>1. Len(s) \in Nat /\ DOMAIN s = 1 .. Len(s)
    OBVIOUS
<1>2. IsFiniteSet(1 .. Len(s))
    BY <1>1, FS_Interval
<1>3. Places(s, m) \in SUBSET (1 .. Len(s))
    BY <1>1 DEF Places
<1>4. IsFiniteSet(Places(s, m))
    BY <1>2, <1>3, FS_Subset
<1> QED BY <1>4, FS_CardinalityType DEF Waits

LEMMA WaitsEmpty ==
    ASSUME NEW m PROVE Waits(<< >>, m) = 0
<1>1. Places(<< >>, m) = {}
    BY DEF Places
<1> QED BY <1>1, FS_EmptySet DEF Waits

LEMMA WaitsAppend ==
    ASSUME NEW s \in Seq(Items), NEW e \in Items, NEW m
    PROVE  Waits(Append(s, e), m) = Waits(s, m) + (IF e.module = m THEN 1 ELSE 0)
<1>1. /\ Len(s) \in Nat /\ DOMAIN s = 1 .. Len(s)
      /\ DOMAIN Append(s, e) = 1 .. Len(s) + 1
      /\ Append(s, e)[Len(s) + 1] = e
      /\ \A i \in 1 .. Len(s) : Append(s, e)[i] = s[i]
    OBVIOUS
<1>2. Len(s) + 1 \notin Places(s, m)
    BY <1>1 DEF Places
<1>3. IsFiniteSet(Places(s, m)) /\ Waits(s, m) \in Nat
    BY WaitsType
<1>4. CASE e.module = m
    <2>1. Places(Append(s, e), m) = Places(s, m) \cup {Len(s) + 1}
        BY <1>1, <1>4 DEF Places
    <2> QED BY <1>2, <1>3, <1>4, <2>1, FS_AddElement DEF Waits
<1>5. CASE e.module # m
    <2>1. Places(Append(s, e), m) = Places(s, m)
        BY <1>1, <1>5 DEF Places
    <2> QED BY <1>3, <1>5, <2>1 DEF Waits
<1> QED BY <1>4, <1>5

LEMMA WaitsTail ==
    ASSUME NEW s \in Seq(Items), s # << >>, NEW m
    PROVE  Waits(s, m) = Waits(Tail(s), m) + (IF Head(s).module = m THEN 1 ELSE 0)
<1>1. /\ Len(s) \in Nat \ {0} /\ DOMAIN s = 1 .. Len(s)
      /\ Head(s) = s[1] /\ Tail(s) \in Seq(Items)
      /\ DOMAIN Tail(s) = 1 .. Len(s) - 1
      /\ \A i \in 1 .. Len(s) - 1 : Tail(s)[i] = s[i + 1]
    OBVIOUS
<1> DEFINE T == Places(Tail(s), m)
           R == Places(s, m) \ {1}
           f == [i \in T |-> i + 1]
<1>2. f \in Bijection(T, R)
    <2>1. \A i \in T : i \in Nat /\ i + 1 \in R
        BY <1>1 DEF Places
    <2>2. f \in [T -> R]
        BY <2>1
    <2>3. \A i, j \in T : f[i] = f[j] => i = j
        BY <2>1
    <2>4. \A k \in R : k - 1 \in T /\ f[k - 1] = k
        BY <1>1 DEF Places
    <2>5. f \in Injection(T, R)
        BY <2>2, <2>3 DEF Injection, IsInjective
    <2>6. f \in Surjection(T, R)
        BY <2>2, <2>4 DEF Surjection
    <2> QED BY <2>5, <2>6 DEF Bijection
<1>3. IsFiniteSet(T) /\ IsFiniteSet(Places(s, m)) /\ Waits(s, m) \in Nat
    BY <1>1, WaitsType
<1>4. Cardinality(R) = Waits(Tail(s), m)
    BY <1>2, <1>3, FS_Bijection DEF ExistsBijection, Waits
<1>5. 1 \in Places(s, m) <=> Head(s).module = m
    BY <1>1 DEF Places
<1>6. Cardinality(R) = IF 1 \in Places(s, m) THEN Waits(s, m) - 1 ELSE Waits(s, m)
    BY <1>3, FS_RemoveElement DEF Waits
<1> QED BY <1>3, <1>4, <1>5, <1>6

LEMMA Listed ==
    ASSUME NEW m, NEW S
    PROVE  Cardinality({m} \cap S) = IF m \in S THEN 1 ELSE 0
<1>1. CASE m \in S
    <2>1. {m} \cap S = {m}
        BY <1>1
    <2> QED BY <1>1, <2>1, FS_Singleton
<1>2. CASE m \notin S
    <2>1. {m} \cap S = {}
        BY <1>2
    <2> QED BY <1>2, <2>1, FS_EmptySet
<1> QED BY <1>1, <1>2

-----------------------------------------------------------------------------
(* What Need says. *)

LEMMA NeedType ==
    ASSUME NEW p \in Phases, NEW q \in Phases, NEW t \in {0, 1}
    PROVE  /\ Need(p, q, t) \in Nat /\ Need(p, q, t) >= t
           /\ Need(p, q, t) = Need(q, p, t)
           /\ p # "none" => Need(p, q, t) >= 1
           /\ p = "find" => Need(p, q, t) >= 1 + t
           /\ p = "retire" => Need(p, q, t) >= 2
           /\ Need("none", "none", t) = t
           /\ Need("none", p, t) <= Need(q, p, t)
    BY DEF Need, Phases

\* One loader goes a step further, x is where the other one is.
LEMMA NeedSteps ==
    ASSUME NEW x \in Phases, NEW t \in {0, 1}
    PROVE  /\ Need("find", x, 1) >= Need("retire", x, 1)
           /\ Need("find", x, 0) >= Need("add", x, 0)
           /\ Need("retire", x, t) >= 1 + Need("add", x, 0)
           /\ Need("add", x, 0) >= Need("none", x, 1)
           /\ Need("add", x, 1) >= Need("none", x, 1)
           /\ Need("none", x, t) + 1 >= Need("find", x, t)
    BY DEF Need, Phases

LEMMA HasType == ASSUME NEW m PROVE Has(m) \in {0, 1}
    BY DEF Has

LEMMA PhaseType ==
    ASSUME NEW s, NEW m
    PROVE  Phase(s, m) \in Phases /\ (Holds(s, m) <=> Phase(s, m) # "none")
    BY DEF Phase, Phases, Holds

LEMMA ConsoleApart == \A w \in Workers : w # Console /\ w \in Senders
    BY NumberAssumption DEF Senders

LEMMA ConsoleSends == Console \in Senders
    BY DEF Senders

LEMMA SenderCases == \A s \in Senders : s = Console \/ s \in Workers
    BY DEF Senders

\* There is someone else.
LEMMA Another ==
    ASSUME NEW s \in Senders PROVE \E x \in Senders : x # s
<1>1. 0 \in Workers
    BY NumberAssumption DEF Workers
<1> QED BY <1>1, ConsoleApart, ConsoleSends, SenderCases

\* Of three threads two are workers, and one of them is not loading.
LEMMA OneIdle ==
    ASSUME OneLoader, NEW s \in Senders, NEW x \in Senders, NEW y \in Senders,
           s # x, s # y, x # y, pc[s] \in Loading
    PROVE  pc[x] \notin Loading \/ pc[y] \notin Loading
    BY SenderCases DEF OneLoader

LEMMA IdlePhase ==
    ASSUME NEW s, pc[s] \notin Loading PROVE \A m : Phase(s, m) = "none"
    BY DEF Phase, Holds, Loading

\* Under the lock only the console can be loading.
LEMMA UnlockedIdle ==
    ASSUME Unlocked, NEW s \in Senders, s # Console
    PROVE  pc[s] \notin Loading
    BY SenderCases DEF Unlocked

LEMMA CountType ==
    ASSUME TypeOK, NEW m \in Modules
    PROVE  /\ refs[m] \in Nat /\ mapped[m] \in Nat
           /\ waiting \in Seq(Items) /\ Waits(waiting, m) \in Nat
           /\ Len(waiting) \in Nat
           /\ ops \in Nat /\ MaxOps \in Nat
<1>1. waiting \in Seq(Items)
    BY DEF TypeOK, Items
<1> QED BY <1>1, WaitsType, NumberAssumption DEF TypeOK

\* What Enough says of the table and of one loader.
LEMMA EnoughOpen ==
    ASSUME TypeOK, Enough, NEW m \in Modules
    PROVE  /\ refs[m] >= Waits(waiting, m) + Has(m)
           /\ \A s \in Senders : Holds(s, m) =>
                 /\ refs[m] >= Waits(waiting, m) + 1
                 /\ pc[s] = "find" => refs[m] >= Waits(waiting, m) + 1 + Has(m)
                 /\ pc[s] = "retire" => refs[m] >= Waits(waiting, m) + 2
<1>1. ASSUME NEW s \in Senders
      PROVE  /\ refs[m] >= Waits(waiting, m) + Has(m)
             /\ Holds(s, m) =>
                 /\ refs[m] >= Waits(waiting, m) + 1
                 /\ pc[s] = "find" => refs[m] >= Waits(waiting, m) + 1 + Has(m)
                 /\ pc[s] = "retire" => refs[m] >= Waits(waiting, m) + 2
    <2>1. PICK x \in Senders : x # s
        BY Another
    <2> DEFINE p == Phase(s, m)
               q == Phase(x, m)
               t == Has(m)
               n == Need(p, q, t)
    <2>2. refs[m] >= Waits(waiting, m) + n
        BY <2>1 DEF Enough
    <2>3. p \in Phases /\ q \in Phases /\ t \in {0, 1}
        BY PhaseType, HasType
    <2>4. Holds(s, m) => p = pc[s] /\ p # "none"
        BY PhaseType DEF Phase
    <2>5. refs[m] \in Nat /\ Waits(waiting, m) \in Nat
        BY CountType
    <2> HIDE DEF p, q, t
    <2>6. /\ n \in Nat /\ n >= t
          /\ p # "none" => n >= 1
          /\ p = "find" => n >= 1 + t
          /\ p = "retire" => n >= 2
        BY <2>3, NeedType
    <2> HIDE DEF n
    <2>7. /\ refs[m] >= Waits(waiting, m) + t
          /\ Holds(s, m) =>
                 /\ refs[m] >= Waits(waiting, m) + 1
                 /\ pc[s] = "find" => refs[m] >= Waits(waiting, m) + 1 + t
                 /\ pc[s] = "retire" => refs[m] >= Waits(waiting, m) + 2
        BY <2>2, <2>3, <2>4, <2>5, <2>6
    <2> QED BY <2>7 DEF t
<1> QED BY <1>1, ConsoleSends

\* The library a thread is loading is open.
LEMMA LoadingOpen ==
    ASSUME IInv, NEW s \in Senders, pc[s] \in Loading
    PROVE  /\ loading[s] \in Objects /\ Library(loading[s]) \in Modules
           /\ loading[s] = <<Library(loading[s]), mapped[Library(loading[s])]>>
           /\ refs[Library(loading[s])] > 0
<1> DEFINE m == Library(loading[s])
<1>1. /\ loading[s] \in Objects /\ m \in Modules
      /\ loading[s] = <<m, mapped[m]>>
    BY DEF IInv, Counted, Opened, Objects, Library
<1>2. Holds(s, m) \/ m \in modules \/ Held(m)
    BY DEF IInv, Counted, Registering, Loading, Holds
<1>3. m \in modules \/ Held(m)
    BY <1>2 DEF Held
<1>4. /\ refs[m] >= Waits(waiting, m) + Has(m)
      /\ Held(m) => refs[m] >= Waits(waiting, m) + 1
      /\ refs[m] \in Nat /\ Waits(waiting, m) \in Nat
    BY <1>1, EnoughOpen, CountType DEF IInv, Counted, Held
<1>5. refs[m] > 0
    BY <1>3, <1>4 DEF Has
<1> QED BY <1>1, <1>5

-----------------------------------------------------------------------------
(* Entries. *)

LEMMA EntryType ==
    ASSUME TypeOK, NEW a \in InUse
    PROVE  /\ a \in Infos /\ info[a] # Free
           /\ info[a] \in Commands \X Objects
           /\ info[a][1] \in Commands /\ info[a][2] \in Objects
           /\ info[a] = <<info[a][1], info[a][2]>>
           /\ Library(info[a][2]) \in Modules
           /\ info[a][2] = <<Library(info[a][2]), info[a][2][2]>>
    BY DEF TypeOK, InUse, Objects, Library

LEMMA EntryHeld ==
    ASSUME RegisteredMapped, NEW a \in InUse
    PROVE  refs[Library(info[a][2])] > 0 /\ info[a][2][2] = mapped[Library(info[a][2])]
    BY DEF RegisteredMapped, Registered, Mapped

-----------------------------------------------------------------------------
(* Steps that leave the loader alone. *)

\* No thread begins, goes on with or ends a load or a move.
Calm ==
    \A s \in Senders : \/ pc'[s] = pc[s]
                       \/ /\ pc[s] \notin Loading \cup {"move"}
                          /\ pc'[s] \notin Loading \cup {"move"}

LEMMA StepCalm ==
    ASSUME TypeOK, NEW s \in Senders,
           NEW from \in Points \ (Loading \cup {"move"}),
           NEW to \in Points \ (Loading \cup {"move"}), Step(s, from, to)
    PROVE  pc' \in [Senders -> Points] /\ Calm
    BY DEF Step, TypeOK, Calm

LEMMA SameCounted ==
    ASSUME IInv, UNCHANGED <<modules, refs, mapped, waiting, loading, collided>>,
           \A s \in Senders : /\ pc'[s] \in Loading <=> pc[s] \in Loading
                              /\ pc[s] \in Loading => pc'[s] = pc[s]
    PROVE  Counted' /\ \A m : Held(m)' <=> Held(m)
<1>1. \A s \in Senders : \A m : Holds(s, m)' <=> Holds(s, m)
    BY DEF Holds, Loading
<1>2. \A s \in Senders : \A m : Phase(s, m)' = Phase(s, m)
    BY <1>1 DEF Phase, Holds, Loading
<1>3. \A m : (Has(m)' = Has(m)) /\ (Held(m)' <=> Held(m))
    BY <1>1 DEF Has, Held
<1>4. OneLoader'
    BY ConsoleApart DEF IInv, Counted, OneLoader
<1>5. Opened'
    BY DEF IInv, Counted, Opened
<1>6. Enough'
    BY <1>2, <1>3 DEF IInv, Counted, Enough
<1>7. Exact'
    BY <1>1, <1>3 DEF IInv, Counted, Exact, Holds, Loading
<1>8. Registering'
    BY <1>3 DEF IInv, Counted, Registering, Loading
<1> QED BY <1>3, <1>4, <1>5, <1>6, <1>7, <1>8 DEF Counted

LEMMA SameHeld ==
    ASSUME IInv, UNCHANGED <<loader, loading, collided>>, ops' \in Nat, ops <= ops',
           Calm, pc[Console] = "move" => named' = named
    PROVE  Counted' /\ Entered'
<1>1. /\ UNCHANGED <<info, clients, modules, refs, mapped, waiting, loading,
                     collided>>
      /\ TypeOK
    BY DEF loader, IInv
<1>2. \A s \in Senders : /\ pc'[s] \in Loading <=> pc[s] \in Loading
                         /\ pc[s] \in Loading => pc'[s] = pc[s]
    BY DEF Calm
<1>3. Counted' /\ \A m : Held(m)' <=> Held(m)
    BY <1>1, <1>2, SameCounted
<1>4. /\ pc'[Console] = "move" <=> pc[Console] = "move"
      /\ \A m : Moving(m)' <=> Moving(m)
    BY ConsoleSends DEF Calm, Moving
<1>5. RegisteredMapped' /\ Remembered'
    BY <1>1 DEF IInv, Entered, RegisteredMapped, Registered, Remembered, InUse, Mapped
<1>6. NamedKnown'
    BY <1>4 DEF IInv, Entered, NamedKnown
<1>7. Single'
    BY <1>1, <1>3, <1>4 DEF IInv, Entered, Single, InUse, Alone
<1>8. Emptied'
    BY <1>1, <1>2, <1>4, ConsoleApart DEF IInv, Entered, Emptied, InUse
<1>9. OpenIsMapped'
    BY <1>1 DEF IInv, Entered, OpenIsMapped
<1>10. Budget'
    <2>1. ASSUME NEW m \in Modules
          PROVE  mapped'[m] + Len(waiting')
                     + (IF pc'[Console] = "move" THEN 1 ELSE 0) <= ops' + 1
        <3>1. mapped[m] \in Nat /\ Len(waiting) \in Nat /\ ops \in Nat
            BY <1>1, CountType
        <3>2. mapped[m] + Len(waiting) + (IF pc[Console] = "move" THEN 1 ELSE 0)
                  <= ops + 1
            BY DEF IInv, Entered, Budget
        <3> QED BY <1>1, <1>4, <3>1, <3>2
    <2> QED BY <2>1 DEF Budget
<1> QED BY <1>3, <1>5, <1>6, <1>7, <1>8, <1>9, <1>10 DEF Entered

LEMMA TakeEffect ==
    ASSUME TypeOK, NEW w \in Workers, NEW x,
           NEW to \in Points \ (Loading \cup {"move"}), Take(w, x, to)
    PROVE  /\ queue' \in [Workers -> Seq(Commands \cup {0, 1})]
           /\ pc' \in [Senders -> Points] /\ Calm
<1>1. queue[w] \in Seq(Commands \cup {0, 1}) /\ queue[w] # << >>
    BY DEF TypeOK, Take
<1>2. Tail(queue[w]) \in Seq(Commands \cup {0, 1})
    BY <1>1
<1>3. queue' \in [Workers -> Seq(Commands \cup {0, 1})]
    BY <1>2 DEF TypeOK, Take
<1>4. Step(w, "idle", to) /\ "idle" \in Points \ (Loading \cup {"move"})
    BY DEF Take, Points, Loading
<1> QED BY <1>3, <1>4, StepCalm, ConsoleApart

LEMMA TakePreserves ==
    ASSUME IInv, NEW w \in Workers, TakeUpdate(w) PROVE IInv'
<1> USE DEF TakeUpdate
<1>0. TypeOK /\ Console \in Senders /\ (\A v \in Workers : v \in Senders)
    BY ConsoleApart, ConsoleSends DEF IInv
<1>1. UNCHANGED <<info, clients, modules, refs, mapped, waiting, loading,
                  index, named, ops, target, sent, copy, pending, todo,
                  running, messages, collided, due, skipped>>
    BY DEF loader, console, sending, calls, history
<1>2. \E x \in {0, 1}, to \in {"idle", "unload"} : Take(w, x, to)
    OBVIOUS
<1>3. /\ queue' \in [Workers -> Seq(Commands \cup {0, 1})]
      /\ pc' \in [Senders -> Points] /\ Calm
    BY <1>0, <1>2, TakeEffect DEF Points, Loading
<1>4. TypeOK'
    BY <1>0, <1>1, <1>2, <1>3 DEF TypeOK
<1>5. Counted' /\ Entered'
    BY <1>0, <1>1, <1>2, <1>3, SameHeld, NumberAssumption DEF loader, TypeOK
<1> QED BY <1>4, <1>5 DEF IInv

LEMMA TakeMessagePreserves ==
    ASSUME IInv, NEW w \in Workers, TakeMessage(w) PROVE IInv'
<1> USE DEF TakeMessage
<1>0. TypeOK /\ Console \in Senders /\ (\A v \in Workers : v \in Senders)
    BY ConsoleApart, ConsoleSends DEF IInv
<1>1. UNCHANGED <<info, clients, modules, refs, mapped, waiting, loading,
                  index, named, ops, target, sent, copy, pending, running,
                  messages, collided, due, skipped>>
    BY DEF loader, console, sending, calls, history
<1>2. \E x \in Commands, to \in {"call"} : Take(w, x, to)
    OBVIOUS
<1>3. /\ queue' \in [Workers -> Seq(Commands \cup {0, 1})]
      /\ pc' \in [Senders -> Points] /\ Calm
    BY <1>0, <1>2, TakeEffect DEF Points, Loading
<1>4. todo' \in [Workers -> SUBSET Objects]
    BY <1>0 DEF TypeOK
<1>5. TypeOK'
    BY <1>0, <1>1, <1>2, <1>3, <1>4 DEF TypeOK
<1>6. Counted' /\ Entered'
    BY <1>0, <1>1, <1>2, <1>3, <1>4, SameHeld, NumberAssumption DEF loader, TypeOK
<1> QED BY <1>5, <1>6 DEF IInv

LEMMA CallPreserves ==
    ASSUME IInv, NEW w \in Workers, Call(w) PROVE IInv'
<1> USE DEF Call
<1>0. TypeOK /\ Console \in Senders /\ (\A v \in Workers : v \in Senders)
    BY ConsoleApart, ConsoleSends DEF IInv
<1>1. UNCHANGED <<info, clients, modules, refs, mapped, waiting, loading,
                  index, named, ops, target, sent, pc, queue, copy, pending,
                  messages, collided, due, skipped>>
    BY DEF loader, console, sending, calls, history
<1>2. pc' \in [Senders -> Points] /\ Calm
    BY <1>0, <1>1 DEF TypeOK, Calm
<1>3. /\ running' \in [Workers -> Objects \cup {Nil}]
      /\ todo' \in [Workers -> SUBSET Objects]
    BY <1>0 DEF TypeOK
<1>4. TypeOK'
    BY <1>0, <1>1, <1>2, <1>3 DEF TypeOK
<1>5. Counted' /\ Entered'
    BY <1>0, <1>1, <1>2, <1>3, SameHeld, NumberAssumption DEF loader, TypeOK
<1> QED BY <1>4, <1>5 DEF IInv

LEMMA ReturnPreserves ==
    ASSUME IInv, NEW w \in Workers, Return(w) PROVE IInv'
<1> USE DEF Return
<1>0. TypeOK /\ Console \in Senders /\ (\A v \in Workers : v \in Senders)
    BY ConsoleApart, ConsoleSends DEF IInv
<1>1. UNCHANGED <<info, clients, modules, refs, mapped, waiting, loading,
                  index, named, ops, target, sent, queue, copy, pending, todo,
                  messages, collided, due, skipped>>
    BY DEF loader, console, sending, calls, history
<1>2. pc' \in [Senders -> Points] /\ Calm
    BY <1>0, StepCalm DEF Points, Loading
<1>3. running' \in [Workers -> Objects \cup {Nil}]
    BY <1>0 DEF TypeOK
<1>4. TypeOK'
    BY <1>0, <1>1, <1>2, <1>3 DEF TypeOK
<1>5. Counted' /\ Entered'
    BY <1>0, <1>1, <1>2, <1>3, SameHeld, NumberAssumption DEF loader, TypeOK
<1> QED BY <1>4, <1>5 DEF IInv

LEMMA CopyBeginPreserves ==
    ASSUME IInv, NEW w \in Workers, CopyBegin(w) PROVE IInv'
<1> USE DEF CopyBegin
<1>0. TypeOK /\ Console \in Senders /\ (\A v \in Workers : v \in Senders)
    BY ConsoleApart, ConsoleSends DEF IInv
<1>1. UNCHANGED <<info, clients, modules, refs, mapped, waiting, loading,
                  index, named, ops, target, sent, queue, todo, running,
                  messages, collided, due, skipped>>
    BY DEF loader, console, sending, calls, history
<1>2. pc' \in [Senders -> Points] /\ Calm
    BY <1>0, StepCalm DEF Points, Loading
<1>3. Registered \subseteq Commands \X Objects
    BY <1>0, EntryType DEF Registered
<1>4. /\ copy' \in [Workers -> SUBSET (Commands \X Objects)]
      /\ pending' \in [Workers -> SUBSET Commands]
    BY <1>0, <1>3 DEF TypeOK
<1>5. TypeOK'
    BY <1>0, <1>1, <1>2, <1>3, <1>4 DEF TypeOK
<1>6. Counted' /\ Entered'
    BY <1>0, <1>1, <1>2, <1>3, <1>4, SameHeld, NumberAssumption DEF loader, TypeOK
<1> QED BY <1>5, <1>6 DEF IInv

LEMMA CopyListPreserves ==
    ASSUME IInv, NEW w \in Workers, CopyList(w) PROVE IInv'
<1> USE DEF CopyList
<1>0. TypeOK /\ Console \in Senders /\ (\A v \in Workers : v \in Senders)
    BY ConsoleApart, ConsoleSends DEF IInv
<1>1. UNCHANGED <<info, clients, modules, refs, mapped, waiting, loading,
                  index, named, ops, target, sent, pc, queue, todo, running,
                  messages, collided, due, skipped>>
    BY DEF loader, console, sending, calls, history
<1>2. pc' \in [Senders -> Points] /\ Calm
    BY <1>0, <1>1 DEF TypeOK, Calm
<1>3. Registered \subseteq Commands \X Objects
    BY <1>0, EntryType DEF Registered
<1>4. /\ copy' \in [Workers -> SUBSET (Commands \X Objects)]
      /\ pending' \in [Workers -> SUBSET Commands]
    BY <1>0, <1>3 DEF TypeOK
<1>5. TypeOK'
    BY <1>0, <1>1, <1>2, <1>3, <1>4 DEF TypeOK
<1>6. Counted' /\ Entered'
    BY <1>0, <1>1, <1>2, <1>3, <1>4, SameHeld, NumberAssumption DEF loader, TypeOK
<1> QED BY <1>5, <1>6 DEF IInv

LEMMA CopyEndPreserves ==
    ASSUME IInv, NEW w \in Workers, CopyEnd(w) PROVE IInv'
<1> USE DEF CopyEnd
<1>0. TypeOK /\ Console \in Senders /\ (\A v \in Workers : v \in Senders)
    BY ConsoleApart, ConsoleSends DEF IInv
<1>1. UNCHANGED <<info, clients, modules, refs, mapped, waiting, loading,
                  index, named, ops, target, sent, queue, copy, pending, todo,
                  running, messages, collided, due, skipped>>
    BY DEF loader, console, sending, calls, history
<1>2. pc' \in [Senders -> Points] /\ Calm
    BY <1>0, StepCalm DEF Points, Loading
<1>3. TypeOK'
    BY <1>0, <1>1, <1>2 DEF TypeOK
<1>4. Counted' /\ Entered'
    BY <1>0, <1>1, <1>2, SameHeld, NumberAssumption DEF loader, TypeOK
<1> QED BY <1>3, <1>4 DEF IInv

LEMMA NoneWaitingPreserves ==
    ASSUME IInv, NEW w \in Workers, NoneWaiting(w) PROVE IInv'
<1> USE DEF NoneWaiting
<1>0. TypeOK /\ Console \in Senders /\ (\A v \in Workers : v \in Senders)
    BY ConsoleApart, ConsoleSends DEF IInv
<1>1. UNCHANGED <<info, clients, modules, refs, mapped, waiting, loading,
                  index, named, ops, target, sent, queue, copy, pending, todo,
                  running, messages, collided, due, skipped>>
    BY DEF loader, console, sending, calls, history
<1>2. pc' \in [Senders -> Points] /\ Calm
    BY <1>0, StepCalm DEF Points, Loading
<1>3. TypeOK'
    BY <1>0, <1>1, <1>2 DEF TypeOK
<1>4. Counted' /\ Entered'
    BY <1>0, <1>1, <1>2, SameHeld, NumberAssumption DEF loader, TypeOK
<1> QED BY <1>3, <1>4 DEF IInv

LEMMA RenotifyPreserves ==
    ASSUME IInv, NEW w \in Workers, Renotify(w) PROVE IInv'
<1> USE DEF Renotify
<1>0. TypeOK /\ Console \in Senders /\ (\A v \in Workers : v \in Senders)
    BY ConsoleApart, ConsoleSends DEF IInv
<1>1. UNCHANGED <<info, clients, modules, refs, mapped, waiting, loading,
                  index, named, ops, target, queue, copy, pending, todo,
                  running, messages, collided, skipped>>
    BY DEF loader, console, sending, calls, history
<1>2. pc' \in [Senders -> Points] /\ Calm
    BY <1>0, StepCalm DEF Points, Loading
<1>3. sent' \in [Senders -> {0, 1}] /\ due' \in SUBSET Workers
    BY <1>0 DEF TypeOK
<1>4. TypeOK'
    BY <1>0, <1>1, <1>2, <1>3 DEF TypeOK
<1>5. Counted' /\ Entered'
    BY <1>0, <1>1, <1>2, <1>3, SameHeld, NumberAssumption DEF loader, TypeOK
<1> QED BY <1>4, <1>5 DEF IInv

LEMMA PutMessagePreserves ==
    ASSUME IInv, NEW w \in Workers, NEW c \in Commands, PutMessage(w, c) PROVE IInv'
<1> USE DEF PutMessage
<1>0. TypeOK /\ Console \in Senders /\ (\A v \in Workers : v \in Senders)
    BY ConsoleApart, ConsoleSends DEF IInv
<1>1. UNCHANGED <<info, clients, modules, refs, mapped, waiting, loading,
                  index, named, ops, target, sent, pc, copy, pending, todo,
                  running, collided, due, skipped>>
    BY DEF loader, console, sending, calls, history
<1>2. pc' \in [Senders -> Points] /\ Calm
    BY <1>0, <1>1 DEF TypeOK, Calm
<1>3. queue' \in [Workers -> Seq(Commands \cup {0, 1})]
    BY <1>0 DEF TypeOK
<1>4. messages' \in 0 .. MaxMessages
    BY <1>0, NumberAssumption DEF TypeOK
<1>5. TypeOK'
    BY <1>0, <1>1, <1>2, <1>3, <1>4 DEF TypeOK
<1>6. Counted' /\ Entered'
    BY <1>0, <1>1, <1>2, <1>3, <1>4, SameHeld, NumberAssumption DEF loader, TypeOK
<1> QED BY <1>5, <1>6 DEF IInv

LEMMA PutUpdatePreserves ==
    ASSUME IInv, NEW s \in Senders, PutUpdate(s) PROVE IInv'
<1> USE DEF PutUpdate
<1>0. TypeOK /\ Console \in Senders /\ (\A v \in Workers : v \in Senders)
    BY ConsoleApart, ConsoleSends DEF IInv
<1>1. UNCHANGED <<info, clients, modules, refs, mapped, waiting, loading,
                  index, named, ops, sent, copy, pending, todo, running,
                  messages, collided, due>>
    BY DEF loader, console, sending, calls, history
<1>2. pc' \in [Senders -> Points] /\ Calm
    BY <1>0 DEF TypeOK, Calm, Points, Loading
<1>3. target[s] \in Workers /\ sent[s] \in {0, 1}
    BY <1>0 DEF TypeOK
<1>4. queue' \in [Workers -> Seq(Commands \cup {0, 1})]
    BY <1>0, <1>3 DEF TypeOK
<1>5. 0 \in Workers /\ (target[s] # WorkerCount - 1 => target[s] + 1 \in Workers)
      /\ target[s] .. WorkerCount - 1 \subseteq Workers
    BY <1>3, NumberAssumption DEF Workers
<1>6. target' \in [Senders -> Workers] /\ skipped' \in SUBSET Workers
    BY <1>0, <1>5 DEF TypeOK
<1>7. TypeOK'
    BY <1>0, <1>1, <1>2, <1>3, <1>4, <1>5, <1>6 DEF TypeOK
<1>8. Counted' /\ Entered'
    BY <1>0, <1>1, <1>2, <1>3, <1>4, <1>5, <1>6, SameHeld, NumberAssumption DEF loader, TypeOK
<1> QED BY <1>7, <1>8 DEF IInv

LEMMA SetIndexPreserves ==
    ASSUME IInv, SetIndex PROVE IInv'
<1> USE DEF SetIndex
<1>0. TypeOK /\ Console \in Senders /\ (\A v \in Workers : v \in Senders)
    BY ConsoleApart, ConsoleSends DEF IInv
<1>1. UNCHANGED <<info, clients, modules, refs, mapped, waiting, loading, ops,
                  target, queue, copy, pending, todo, running, messages,
                  collided, skipped>>
    BY DEF loader, console, sending, calls, history
<1>2. pc' \in [Senders -> Points] /\ Calm
    BY <1>0, StepCalm DEF Points, Loading
<1>3. sent' \in [Senders -> {0, 1}]
    BY <1>0 DEF TypeOK
<1>4. pc[Console] # "move"
    BY DEF Step
<1>5. TypeOK'
    BY <1>0, <1>1, <1>2, <1>3, <1>4 DEF TypeOK
<1>6. Counted' /\ Entered'
    BY <1>0, <1>1, <1>2, <1>3, <1>4, SameHeld, NumberAssumption DEF loader, TypeOK
<1> QED BY <1>5, <1>6 DEF IInv

LEMMA ReleaseUnknownPreserves ==
    ASSUME IInv, NEW m \in Modules, NEW kind, ReleaseUnknown(m, kind) PROVE IInv'
<1> USE DEF ReleaseUnknown
<1>0. TypeOK /\ Console \in Senders /\ (\A v \in Workers : v \in Senders)
    BY ConsoleApart, ConsoleSends DEF IInv
<1>1. UNCHANGED <<info, clients, modules, refs, mapped, waiting, loading,
                  named, target, queue, copy, pending, todo, running,
                  messages, collided, due, skipped>>
    BY DEF loader, console, sending, calls, history
<1>2. pc' \in [Senders -> Points] /\ Calm
    BY <1>0, StepCalm DEF Points, Loading
<1>3. sent' \in [Senders -> {0, 1}]
    BY <1>0 DEF TypeOK
<1>4. ops' \in 0 .. MaxOps /\ ops' = ops + 1 /\ ops \in Nat
    BY <1>0, NumberAssumption DEF TypeOK
<1>5. TypeOK'
    BY <1>0, <1>1, <1>2, <1>3, <1>4 DEF TypeOK
<1>6. Counted' /\ Entered'
    BY <1>0, <1>1, <1>2, <1>3, <1>4, SameHeld, NumberAssumption DEF loader, TypeOK
<1> QED BY <1>5, <1>6 DEF IInv

-----------------------------------------------------------------------------
(* Steps of one thread in a load. *)

\* The others do not notice where s goes.
LEMMA OthersSame ==
    ASSUME TypeOK, NEW s \in Senders, NEW to \in Points,
           pc' = [pc EXCEPT ![s] = to],
           NEW l \in Objects \cup {Nil}, loading' = [loading EXCEPT ![s] = l]
    PROVE  /\ pc' \in [Senders -> Points]
           /\ loading' \in [Senders -> Objects \cup {Nil}]
           /\ pc'[s] = to /\ loading'[s] = l
           /\ \A x \in Senders \ {s} :
                 /\ pc'[x] = pc[x] /\ loading'[x] = loading[x]
                 /\ \A m : /\ Holds(x, m)' <=> Holds(x, m)
                           /\ Phase(x, m)' = Phase(x, m)
<1>1. /\ pc' \in [Senders -> Points]
      /\ loading' \in [Senders -> Objects \cup {Nil}]
      /\ pc'[s] = to /\ loading'[s] = l
      /\ \A x \in Senders \ {s} : pc'[x] = pc[x] /\ loading'[x] = loading[x]
    BY DEF TypeOK
<1>2. \A x \in Senders \ {s} : \A m : Holds(x, m)' <=> Holds(x, m)
    BY <1>1 DEF Holds
<1>3. \A x \in Senders \ {s} : \A m : Phase(x, m)' = Phase(x, m)
    BY <1>1, <1>2 DEF Phase
<1> QED BY <1>1, <1>2, <1>3

\* Of the others one is not loading, when s is or when s alone may begin.
LEMMA OneNone ==
    ASSUME OneLoader, NEW s \in Senders,
           pc[s] \in Loading \/ Unlocked,
           NEW x \in Senders \ {s}, NEW y \in Senders \ {s}, x # y
    PROVE  \A m : Phase(x, m) = "none" \/ Phase(y, m) = "none"
<1>1. pc[x] \notin Loading \/ pc[y] \notin Loading
    BY OneIdle, UnlockedIdle
<1> QED BY <1>1, IdlePhase

\* A step of s that concerns m keeps what is counted.
LEMMA CountStep ==
    ASSUME IInv, NEW s \in Senders, NEW m \in Modules,
           \A x \in Senders \ {s} :
               /\ pc'[x] = pc[x] /\ loading'[x] = loading[x]
               /\ \A n : /\ Holds(x, n)' <=> Holds(x, n)
                         /\ Phase(x, n)' = Phase(x, n),
           pc[s] \in Loading \/ Unlocked,
           \A n \in Modules \ {m} :
               /\ ~Holds(s, n) /\ ~Holds(s, n)'
               /\ refs'[n] = refs[n] /\ mapped'[n] = mapped[n]
               /\ n \in modules' <=> n \in modules
               /\ Waits(waiting', n) = Waits(waiting, n),
           collided \subseteq collided',
           pc'[s] \in Loading =>
               loading'[s] \in Objects /\ loading'[s][2] = mapped'[Library(loading'[s])],
           \A x \in Senders \ {s} :
               pc[x] \in Loading /\ Library(loading[x]) = m => mapped'[m] = mapped[m],
           refs'[m] \in Nat, Waits(waiting', m) \in Nat,
           \A x \in Senders \ {s} :
               refs'[m] >= Waits(waiting', m) + Need(Phase(s, m)', Phase(x, m), Has(m)'),
           m \notin collided' =>
               /\ refs'[m] = Waits(waiting', m) + Has(m)'
                                 + (IF Held(m)' THEN 1 ELSE 0)
               /\ \A x \in Senders \ {s} : Holds(x, m) =>
                      /\ ~Holds(s, m)'
                      /\ \A y \in Senders \ {s} : Holds(y, m) => y = x
                      /\ pc[x] = "retire" => m \in modules'
                      /\ pc[x] = "add" => m \notin modules'
               /\ Holds(s, m)' =>
                      /\ pc'[s] = "retire" => m \in modules'
                      /\ pc'[s] = "add" => m \notin modules',
           m \in modules \/ Held(m) => m \in modules' \/ Held(m)',
           pc'[s] = "register" => Library(loading'[s]) \in modules'
    PROVE  Counted'
<1>1. OneLoader /\ Opened /\ Enough /\ Exact /\ Registering /\ TypeOK
    BY DEF IInv, Counted
<1>2. OneLoader'
    <2>1. ASSUME NEW v \in Workers, NEW w \in Workers, v # w,
                 pc'[v] \in Loading, pc'[w] \in Loading
          PROVE  FALSE
        <3>1. v \in Senders /\ w \in Senders /\ v # Console /\ w # Console
            BY ConsoleApart
        <3>2. CASE v = s
            <4>1. pc[w] \in Loading
                BY <2>1, <3>1, <3>2
            <4> QED BY <1>1, <2>1, <3>1, <3>2, <4>1 DEF OneLoader, Unlocked
        <3>3. CASE w = s
            <4>1. pc[v] \in Loading
                BY <2>1, <3>1, <3>3
            <4> QED BY <1>1, <2>1, <3>1, <3>3, <4>1 DEF OneLoader, Unlocked
        <3>4. CASE v # s /\ w # s
            BY <1>1, <2>1, <3>1, <3>4 DEF OneLoader
        <3> QED BY <3>2, <3>3, <3>4
    <2> QED BY <2>1 DEF OneLoader
<1>3. Opened'
    <2>1. ASSUME NEW x \in Senders \ {s}, pc'[x] \in Loading
          PROVE  /\ loading'[x] \in Objects
                 /\ loading'[x][2] = mapped'[Library(loading'[x])]
        <3>1. pc[x] \in Loading /\ loading'[x] = loading[x]
            BY <2>1
        <3>2. loading[x] \in Objects /\ loading[x][2] = mapped[Library(loading[x])]
            BY <1>1, <3>1 DEF Opened
        <3>3. Library(loading[x]) \in Modules
            BY <3>2 DEF Objects, Library
        <3> QED BY <3>1, <3>2, <3>3
    <2> QED BY <2>1 DEF Opened
<1>4. \A n \in Modules \ {m} : /\ Has(n)' = Has(n)
                               /\ Phase(s, n) = "none" /\ Phase(s, n)' = "none"
    BY DEF Has, Phase
<1>5. Enough'
    <2>1. ASSUME NEW n \in Modules, n # m, NEW x \in Senders, NEW y \in Senders, x # y
          PROVE  refs'[n] >= Waits(waiting', n) + Need(Phase(x, n)', Phase(y, n)', Has(n)')
        <3>1. Phase(x, n)' = Phase(x, n) /\ Phase(y, n)' = Phase(y, n)
            BY <1>4, <2>1
        <3> QED BY <1>1, <1>4, <2>1, <3>1 DEF Enough
    <2>2. ASSUME NEW x \in Senders, NEW y \in Senders, x # y
          PROVE  refs'[m] >= Waits(waiting', m) + Need(Phase(x, m)', Phase(y, m)', Has(m)')
        <3> DEFINE p == Phase(x, m)'
                   q == Phase(y, m)'
                   o == Phase(s, m)'
                   t == Has(m)'
        <3>1. p \in Phases /\ q \in Phases /\ o \in Phases /\ t \in {0, 1}
            BY DEF Phase, Phases, Holds, Has
        <3>2. CASE x = s
            BY <2>2, <3>2
        <3>3. CASE y = s
            <4>1. Need(p, q, t) = Need(q, p, t)
                BY <3>1, NeedType
            <4>2. refs'[m] >= Waits(waiting', m) + Need(q, p, t)
                BY <2>2, <3>3
            <4> QED BY <4>1, <4>2
        <3>4. CASE x # s /\ y # s
            <4>1. /\ refs'[m] >= Waits(waiting', m) + Need(o, p, t)
                  /\ refs'[m] >= Waits(waiting', m) + Need(o, q, t)
                BY <2>2, <3>4
            <4>2. p = "none" \/ q = "none"
                BY <1>1, <2>2, <3>4, OneNone
            <4> HIDE DEF p, q, o, t
            <4>3. /\ Need("none", q, t) <= Need(o, q, t)
                  /\ Need("none", p, t) <= Need(o, p, t)
                  /\ Need(p, q, t) = Need(q, p, t)
                  /\ Need(p, q, t) \in Nat
                  /\ Need(o, p, t) \in Nat /\ Need(o, q, t) \in Nat
                BY <3>1, NeedType
            <4> DEFINE a == Need(o, p, t)
                       b == Need(o, q, t)
                       c == Need(p, q, t)
            <4>4. c <= a \/ c <= b
                BY <4>2, <4>3
            <4>5. a \in Nat /\ b \in Nat /\ c \in Nat
                BY <4>3
            <4>6. /\ refs'[m] >= Waits(waiting', m) + a
                  /\ refs'[m] >= Waits(waiting', m) + b
                BY <4>1
            <4> HIDE DEF a, b, c
            <4>7. refs'[m] >= Waits(waiting', m) + c
                BY <4>4, <4>5, <4>6
            <4> QED BY <4>7 DEF c, p, q, t
        <3> QED BY <3>2, <3>3, <3>4
    <2> QED BY <2>1, <2>2 DEF Enough
<1>6. \A n \in Modules \ {m} : Held(n)' <=> Held(n)
    BY DEF Held
<1>7. Exact'
    <2>1. ASSUME NEW n \in Modules \ collided', n # m
          PROVE  /\ refs'[n] = Waits(waiting', n) + Has(n)'
                                   + (IF Held(n)' THEN 1 ELSE 0)
                 /\ \A x \in Senders : Holds(x, n)' =>
                       /\ \A y \in Senders : Holds(y, n)' => y = x
                       /\ pc'[x] = "retire" => n \in modules'
                       /\ pc'[x] = "add" => n \notin modules'
        <3>1. /\ refs[n] = Waits(waiting, n) + Has(n) + (IF Held(n) THEN 1 ELSE 0)
              /\ \A x \in Senders : Holds(x, n) =>
                    /\ \A y \in Senders : Holds(y, n) => y = x
                    /\ pc[x] = "retire" => n \in modules
                    /\ pc[x] = "add" => n \notin modules
            BY <1>1, <2>1 DEF Exact
        <3>2. refs'[n] = Waits(waiting', n) + Has(n)' + (IF Held(n)' THEN 1 ELSE 0)
            BY <1>4, <1>6, <2>1, <3>1
        <3>3. \A x \in Senders : Holds(x, n)' => Holds(x, n) /\ x # s
            BY <2>1
        <3> QED BY <2>1, <3>1, <3>2, <3>3
    <2>2. ASSUME m \notin collided', NEW x \in Senders, Holds(x, m)'
          PROVE  /\ \A y \in Senders : Holds(y, m)' => y = x
                 /\ pc'[x] = "retire" => m \in modules'
                 /\ pc'[x] = "add" => m \notin modules'
        <3>1. CASE x = s
            BY <2>2, <3>1
        <3>2. CASE x # s
            BY <2>2, <3>2
        <3> QED BY <3>1, <3>2
    <2> QED BY <2>1, <2>2 DEF Exact
<1>8. Registering'
    <2>1. ASSUME NEW x \in Senders \ {s}, pc'[x] = "register"
          PROVE  (Library(loading[x]) \in modules \/ Held(Library(loading[x])))'
        <3>1. pc[x] = "register" /\ loading'[x] = loading[x]
            BY <2>1
        <3>2. PICK n \in Modules : n = Library(loading[x])
            BY <1>1, <3>1 DEF Opened, Loading, Objects, Library
        <3>3. n \in modules \/ Held(n)
            BY <1>1, <3>1, <3>2 DEF Registering
        <3>4. n \in modules' \/ Held(n)'
            BY <1>6, <3>3
        <3>5. Library(loading'[x]) = n
            BY <3>1, <3>2
        <3> QED BY <3>4, <3>5 DEF Held, Holds
    <2>2. pc'[s] = "register" => Library(loading'[s]) \in modules'
        OBVIOUS
    <2> QED BY <2>1, <2>2 DEF Registering, Held, Holds
<1> QED BY <1>2, <1>3, <1>5, <1>7, <1>8 DEF Counted

\* A step that leaves the entries and the mappings keeps what holds of them.
LEMMA EnteredStep ==
    ASSUME IInv, UNCHANGED <<info, clients, mapped, waiting, named, ops>>,
           pc'[Console] = "move" <=> pc[Console] = "move",
           \A m \in Modules : refs'[m] > 0 <=> refs[m] > 0,
           \A m \in Modules : m \notin modules' /\ ~Held(m)' =>
                                  m \notin modules /\ ~Held(m),
           \A w \in Workers : pc'[w] \in Loading =>
               pc[w] \in Loading /\ loading'[w] = loading[w]
    PROVE  Entered'
<1>0. \A a \in InUse : Library(info[a][2]) \in Modules
    BY EntryType DEF IInv
<1>1. RegisteredMapped'
    <2>1. ASSUME NEW a \in InUse PROVE Mapped(info[a][2])'
        <3>1. Mapped(info[a][2]) /\ Library(info[a][2]) \in Modules
            BY <1>0 DEF IInv, Entered, RegisteredMapped, Registered
        <3> QED BY <3>1 DEF Mapped, Library
    <2> QED BY <2>1 DEF RegisteredMapped, Registered, InUse
<1>2. Remembered'
    BY DEF IInv, Entered, Remembered, InUse
<1>3. NamedKnown'
    BY DEF IInv, Entered, NamedKnown
<1>4. \A a \in InUse : Alone(Library(info[a][2]))' => Alone(Library(info[a][2]))
    BY <1>0 DEF Alone, Moving
<1>5. Single'
    BY <1>4 DEF IInv, Entered, Single, InUse
<1>6. Emptied'
    BY DEF IInv, Entered, Emptied, InUse, Moving
<1>7. OpenIsMapped'
    BY DEF IInv, Entered, OpenIsMapped
<1>8. Budget'
    BY DEF IInv, Entered, Budget
<1> QED BY <1>1, <1>2, <1>3, <1>5, <1>6, <1>7, <1>8 DEF Entered

\* What a step of s in a load starts from; m is the module.
LEMMA Loader ==
    ASSUME IInv, NEW s \in Senders, pc[s] \in Loading, NEW m, m = Library(loading[s])
    PROVE  /\ m \in Modules /\ loading[s] \in Objects
           /\ loading[s] = <<m, mapped[m]>> /\ refs[m] > 0
           /\ \A n : Holds(s, n) <=> n = m /\ pc[s] # "register"
           /\ pc[s] # "register" => Held(m)
           /\ \A w \in Workers \ {s} : s \in Workers => pc[w] \notin Loading
           /\ (s = Console => pc[Console] # "move")
<1>1. /\ m \in Modules /\ loading[s] \in Objects
      /\ loading[s] = <<m, mapped[m]>> /\ refs[m] > 0
    BY LoadingOpen
<1>2. \A n : Holds(s, n) <=> n = m /\ pc[s] # "register"
    BY DEF Holds, Loading
<1>3. \A w \in Workers \ {s} : s \in Workers => pc[w] \notin Loading
    BY DEF IInv, Counted, OneLoader
<1> QED BY <1>1, <1>2, <1>3 DEF Held, Loading

\* The steps from Find to List are of one kind: s goes from its phase to the
\* phase o, or out of the load of m when o is "none", and closes the library k
\* times.
TableAct(s, m, to, l, k, o) ==
    /\ pc[s] \in {"find", "retire", "add"} /\ m = Library(loading[s])
    /\ to \in Points \ {"find", "move"} /\ pc' = [pc EXCEPT ![s] = to]
    /\ l \in Objects \cup {Nil} /\ loading' = [loading EXCEPT ![s] = l]
    /\ to \in Loading => l = loading[s]
    /\ k \in {0, 1} /\ refs' = [refs EXCEPT ![m] = @ - k]
    /\ modules' \in {modules, modules \ {m}, modules \cup {m}}
    /\ UNCHANGED <<info, clients, mapped, waiting, index, named, ops, target,
                   sent, queue, copy, pending, todo, running, messages,
                   collided, due, skipped>>
    /\ o \in {"none", "retire", "add"}
    /\ o = IF to \in {"retire", "add"} THEN to ELSE "none"
    /\ \A q \in Phases : Need(pc[s], q, Has(m)) >= k + Need(o, q, Has(m)')
    /\ o = "none" => m \in modules'
    /\ k = 1 => refs[m] >= 2
    /\ m \notin collided =>
          /\ Has(m) + 1 = Has(m)' + k + (IF o = "none" THEN 0 ELSE 1)
          /\ to = "retire" => m \in modules'
          /\ to = "add" => m \notin modules'

LEMMA TableStep ==
    ASSUME IInv, NEW s \in Senders, NEW m, NEW to, NEW l, NEW k, NEW o,
           TableAct(s, m, to, l, k, o)
    PROVE  IInv'
<1> USE DEF TableAct
<1>0. TypeOK /\ Counted /\ pc[s] \in Loading /\ pc[s] # "register"
    BY DEF IInv, Loading
<1>1. /\ m \in Modules /\ loading[s] \in Objects
      /\ loading[s] = <<m, mapped[m]>> /\ refs[m] > 0
      /\ \A n : Holds(s, n) <=> n = m
      /\ Held(m)
    BY <1>0, Loader
<1>2. /\ pc' \in [Senders -> Points] /\ loading' \in [Senders -> Objects \cup {Nil}]
      /\ pc'[s] = to /\ loading'[s] = l
      /\ \A x \in Senders \ {s} :
            /\ pc'[x] = pc[x] /\ loading'[x] = loading[x]
            /\ \A n : /\ Holds(x, n)' <=> Holds(x, n)
                      /\ Phase(x, n)' = Phase(x, n)
    BY <1>0, OthersSame
<1>3. \A n : Holds(s, n)' <=> n = m /\ o # "none"
    BY <1>0, <1>2 DEF Holds, Loading
<1>4. Phase(s, m) = pc[s] /\ Phase(s, m)' = o
    BY <1>1, <1>2, <1>3 DEF Phase
<1>5. \A n \in Modules \ {m} : Held(n)' <=> Held(n)
    <2>1. \A x \in Senders : \A n \in Modules \ {m} : Holds(x, n)' <=> Holds(x, n)
        BY <1>1, <1>2, <1>3
    <2> QED BY <2>1 DEF Held
<1>6. o # "none" => Held(m)'
    BY <1>3 DEF Held
<1>7. /\ refs' \in [Modules -> Nat] /\ refs'[m] = refs[m] - k
      /\ \A n \in Modules \ {m} : refs'[n] = refs[n]
      /\ refs'[m] > 0
    BY <1>0, <1>1 DEF TypeOK
<1>8. /\ refs[m] \in Nat /\ refs'[m] \in Nat
      /\ Waits(waiting, m) \in Nat /\ waiting' = waiting
    BY <1>0, <1>1, <1>7, CountType
<1>9. ASSUME NEW x \in Senders \ {s}
      PROVE  refs'[m] >= Waits(waiting', m) + Need(o, Phase(x, m), Has(m)')
    <2>1. PICK q \in Phases : q = Phase(x, m)
        BY PhaseType
    <2>2. refs[m] >= Waits(waiting, m) + Need(pc[s], q, Has(m))
        BY <1>0, <1>1, <1>4, <2>1 DEF Counted, Enough
    <2>3. Need(pc[s], q, Has(m)) >= k + Need(o, q, Has(m)')
        BY <2>1
    <2>4. Need(pc[s], q, Has(m)) \in Nat /\ Need(o, q, Has(m)') \in Nat
        <3>1. pc[s] \in Phases /\ o \in Phases /\ Has(m) \in {0, 1} /\ Has(m)' \in {0, 1}
            BY DEF Phases, Has
        <3> QED BY <3>1, NeedType
    <2>5. refs'[m] >= Waits(waiting', m) + Need(o, q, Has(m)')
        BY <1>7, <1>8, <2>2, <2>3, <2>4
    <2> QED BY <2>1, <2>5
<1>10. m \notin collided' =>
           /\ refs'[m] = Waits(waiting', m) + Has(m)' + (IF Held(m)' THEN 1 ELSE 0)
           /\ \A x \in Senders \ {s} : ~Holds(x, m)
    <2> SUFFICES ASSUME m \notin collided'
                 PROVE  /\ refs'[m] = Waits(waiting', m) + Has(m)'
                                           + (IF Held(m)' THEN 1 ELSE 0)
                        /\ \A x \in Senders \ {s} : ~Holds(x, m)
        OBVIOUS
    <2>1. \A x \in Senders \ {s} : ~Holds(x, m)
        BY <1>0, <1>1 DEF Counted, Exact
    <2>2. refs[m] = Waits(waiting, m) + Has(m) + 1
        BY <1>0, <1>1 DEF Counted, Exact
    <2>3. Held(m)' <=> o # "none"
        BY <1>2, <1>3, <2>1 DEF Held
    <2>4. Has(m) + 1 = Has(m)' + k + (IF Held(m)' THEN 1 ELSE 0)
        BY <2>3
    <2>5. Has(m) \in Nat /\ Has(m)' \in Nat
        BY DEF Has
    <2> QED BY <1>7, <1>8, <2>1, <2>2, <2>4, <2>5
<1>11. Counted'
    <2>1. \A x \in Senders \ {s} :
             refs'[m] >= Waits(waiting', m) + Need(Phase(s, m)', Phase(x, m), Has(m)')
        BY <1>4, <1>9
    <2>2. pc'[s] \in Loading =>
              /\ loading'[s] \in Objects
              /\ loading'[s][2] = mapped'[Library(loading'[s])]
              /\ Library(loading'[s]) = m
        BY <1>1, <1>2
    <2>3. Holds(s, m)' => /\ pc'[s] = "retire" /\ m \notin collided' => m \in modules'
                          /\ pc'[s] = "add" /\ m \notin collided' => m \notin modules'
        BY <1>2
    <2>4. m \in modules' \/ Held(m)'
        BY <1>6
    <2>5. pc'[s] = "register" => Library(loading'[s]) \in modules'
        BY <1>2, <2>2 DEF Loading
    <2>6. \A n \in Modules \ {m} : /\ ~Holds(s, n) /\ ~Holds(s, n)'
                                   /\ n \in modules' <=> n \in modules
        BY <1>1, <1>3
    <2> QED BY <1>0, <1>1, <1>2, <1>7, <1>8, <1>10, <2>1, <2>2, <2>3, <2>4, <2>5,
               <2>6, CountStep
<1>12. Entered'
    <2>1. pc'[Console] = "move" <=> pc[Console] = "move"
        BY <1>2, ConsoleSends DEF Loading
    <2>2. \A w \in Workers : pc'[w] \in Loading =>
              pc[w] \in Loading /\ loading'[w] = loading[w]
        BY <1>0, <1>2, ConsoleApart
    <2>3. \A n \in Modules : refs'[n] > 0 <=> refs[n] > 0
        BY <1>1, <1>7
    <2>4. \A n \in Modules : n \notin modules' /\ ~Held(n)' => n \notin modules /\ ~Held(n)
        BY <1>5, <1>6
    <2> QED BY <2>1, <2>2, <2>3, <2>4, EnteredStep
<1>13. TypeOK'
    BY <1>0, <1>1, <1>2, <1>7 DEF TypeOK
<1> QED BY <1>11, <1>12, <1>13 DEF IInv

LEMMA FindPreserves ==
    ASSUME IInv, NEW s \in Senders, Find(s) PROVE IInv'
<1>0. TypeOK /\ pc[s] = "find" /\ pc[s] \in Loading
    BY DEF IInv, Find, Step, Loading
<1>1. UNCHANGED <<info, clients, modules, refs, mapped, waiting, loading, index,
                  named, ops, target, sent, queue, copy, pending, todo, running,
                  messages, collided, due, skipped>>
    BY DEF Find, loader, console, sending, calls, history
<1>2. PICK m : m = Library(loading[s])
    OBVIOUS
<1>3. m \in Modules /\ loading[s] \in Objects
    BY <1>0, <1>2, Loader
<1>4. PICK to \in {"retire", "add"} :
          pc' = [pc EXCEPT ![s] = to] /\ (to = "retire" <=> m \in modules)
    BY <1>2 DEF Find, Step
<1>5. /\ loading' = [loading EXCEPT ![s] = loading[s]]
      /\ refs' = [refs EXCEPT ![m] = @ - 0]
      /\ Has(m)' = Has(m) /\ Has(m) \in {0, 1} /\ (Has(m) = 1 <=> m \in modules)
    BY <1>0, <1>1, <1>3 DEF TypeOK, Has
<1>6. \A q \in Phases : Need(pc[s], q, Has(m)) >= 0 + Need(to, q, Has(m)')
    BY <1>0, <1>4, <1>5, NeedSteps, NeedType DEF Phases
<1>7. to \in Points \ {"find", "move"}
    BY <1>4 DEF Points, Loading
<1>8. /\ to \in {"none", "retire", "add"}
      /\ to = IF to \in {"retire", "add"} THEN to ELSE "none"
      /\ to # "none"
      /\ Has(m) + 1 = Has(m)' + 0 + (IF to = "none" THEN 0 ELSE 1)
      /\ to = "retire" => m \in modules'
      /\ to = "add" => m \notin modules'
    BY <1>1, <1>4, <1>5
<1>9. /\ pc[s] \in {"find", "retire", "add"} /\ m = Library(loading[s])
      /\ modules' \in {modules, modules \ {m}, modules \cup {m}}
      /\ loading[s] \in Objects \cup {Nil} /\ 0 \in {0, 1} /\ 0 # 1
    BY <1>0, <1>1, <1>2, <1>3
<1>10. TableAct(s, m, to, loading[s], 0, to)
    BY <1>1, <1>4, <1>5, <1>6, <1>7, <1>8, <1>9 DEF TableAct
<1> QED BY <1>10, TableStep

LEMMA RetirePreserves ==
    ASSUME IInv, NEW s \in Senders, Retire(s) PROVE IInv'
<1>0. TypeOK /\ Counted /\ pc[s] = "retire" /\ pc[s] \in Loading
    BY DEF IInv, Retire, Step, Loading
<1>1. UNCHANGED <<info, clients, mapped, waiting, loading, index, named, ops,
                  target, sent, queue, copy, pending, todo, running, messages,
                  collided, due, skipped>>
    BY DEF Retire, console, sending, calls, history
<1>2. PICK m : m = Library(loading[s])
    OBVIOUS
<1>3. m \in Modules /\ loading[s] \in Objects /\ Holds(s, m)
    BY <1>0, <1>2, Loader
<1>4. /\ pc' = [pc EXCEPT ![s] = "add"]
      /\ refs' = [refs EXCEPT ![m] = @ - 1]
      /\ modules' = modules \ {m}
      /\ loading' = [loading EXCEPT ![s] = loading[s]]
    BY <1>0, <1>1, <1>2 DEF Retire, Step, TypeOK
<1>5. Has(m)' = 0 /\ m \notin modules' /\ Has(m) \in {0, 1}
    BY <1>4 DEF Has
<1>6. \A q \in Phases : Need(pc[s], q, Has(m)) >= 1 + Need("add", q, Has(m)')
    BY <1>0, <1>5, NeedSteps
<1>7. refs[m] >= 2
    <2>1. refs[m] >= Waits(waiting, m) + 2
        BY <1>0, <1>3, EnoughOpen DEF Counted
    <2> QED BY <1>0, <1>3, <2>1, CountType
<1>8. m \notin collided => Has(m) + 1 = Has(m)' + 1 + 1
    BY <1>0, <1>3, <1>5 DEF Counted, Exact, Has
<1>9. "add" \in Points \ {"find", "move"}
    BY DEF Points, Loading
<1>10. /\ pc[s] \in {"find", "retire", "add"} /\ m = Library(loading[s])
       /\ modules' \in {modules, modules \ {m}, modules \cup {m}}
       /\ loading[s] \in Objects \cup {Nil} /\ 1 \in {0, 1}
       /\ "add" \in {"none", "retire", "add"}
       /\ "add" = IF "add" \in {"retire", "add"} THEN "add" ELSE "none"
       /\ m \notin collided =>
             Has(m) + 1 = Has(m)' + 1 + (IF "add" = "none" THEN 0 ELSE 1)
    BY <1>0, <1>2, <1>3, <1>4, <1>8
<1>11. TableAct(s, m, "add", loading[s], 1, "add")
    BY <1>1, <1>4, <1>5, <1>6, <1>7, <1>9, <1>10 DEF TableAct
<1> QED BY <1>11, TableStep

LEMMA ListPreserves ==
    ASSUME IInv, NEW s \in Senders, List(s) PROVE IInv'
<1>0. TypeOK /\ pc[s] = "add" /\ pc[s] \in Loading
    BY DEF IInv, List, Step, Loading
<1>1. UNCHANGED <<info, clients, refs, mapped, waiting, loading, index, named,
                  ops, target, sent, queue, copy, pending, todo, running,
                  messages, collided, due, skipped>>
    BY DEF List, console, sending, calls, history
<1>2. PICK m : m = Library(loading[s])
    OBVIOUS
<1>3. m \in Modules /\ loading[s] \in Objects
    BY <1>0, <1>2, Loader
<1>4. /\ pc' = [pc EXCEPT ![s] = "register"]
      /\ refs' = [refs EXCEPT ![m] = @ - 0]
      /\ m \notin modules /\ modules' = modules \cup {m}
      /\ loading' = [loading EXCEPT ![s] = loading[s]]
    BY <1>0, <1>1, <1>2, <1>3 DEF List, Step, TypeOK
<1>5. Has(m) = 0 /\ Has(m)' = 1 /\ m \in modules'
    BY <1>4 DEF Has
<1>6. \A q \in Phases : Need(pc[s], q, Has(m)) >= 0 + Need("none", q, Has(m)')
    BY <1>0, <1>5, NeedSteps, NeedType DEF Phases
<1>7. "register" \in Points \ {"find", "move"}
    BY DEF Points, Loading
<1>8. /\ pc[s] \in {"find", "retire", "add"} /\ m = Library(loading[s])
      /\ modules' \in {modules, modules \ {m}, modules \cup {m}}
      /\ loading[s] \in Objects \cup {Nil} /\ 0 \in {0, 1} /\ 0 # 1
      /\ "none" = IF "register" \in {"retire", "add"} THEN "register" ELSE "none"
      /\ Has(m) + 1 = Has(m)' + 0 + (IF "none" = "none" THEN 0 ELSE 1)
    BY <1>0, <1>2, <1>3, <1>4, <1>5
<1>9. TableAct(s, m, "register", loading[s], 0, "none")
    BY <1>1, <1>4, <1>5, <1>6, <1>7, <1>8 DEF TableAct
<1> QED BY <1>9, TableStep

LEMMA ListRefusedPreserves ==
    ASSUME IInv, NEW s \in Senders, ListRefused(s) PROVE IInv'
<1>0. TypeOK /\ Counted /\ pc[s] = "add" /\ pc[s] \in Loading
    BY DEF IInv, ListRefused, LoadEnd, Step, Loading
<1>1. UNCHANGED <<info, clients, modules, refs, mapped, waiting, index, named,
                  ops, target, sent, queue, copy, pending, todo, running,
                  messages, collided, due, skipped>>
    BY DEF ListRefused, loader, console, sending, calls, history
<1>2. PICK m : m = Library(loading[s])
    OBVIOUS
<1>3. m \in Modules /\ Holds(s, m)
    BY <1>0, <1>2, Loader
<1>4. PICK to \in {"reloaded", "idle"} : pc' = [pc EXCEPT ![s] = to]
    BY DEF ListRefused, LoadEnd, Step
<1>5. /\ loading' = [loading EXCEPT ![s] = Nil]
      /\ refs' = [refs EXCEPT ![m] = @ - 0]
      /\ m \in modules /\ Has(m) = 1 /\ Has(m)' = 1
    BY <1>0, <1>1, <1>2, <1>3 DEF ListRefused, LoadEnd, TypeOK, Has
<1>6. \A q \in Phases : Need(pc[s], q, Has(m)) >= 0 + Need("none", q, Has(m)')
    BY <1>0, <1>5, NeedSteps, NeedType DEF Phases
<1>7. m \in collided
    BY <1>0, <1>3, <1>5 DEF Counted, Exact
<1>8. to \in Points \ {"find", "move"} /\ to \notin Loading
    BY <1>4 DEF Points, Loading
<1>9. /\ pc[s] \in {"find", "retire", "add"} /\ m = Library(loading[s])
      /\ modules' \in {modules, modules \ {m}, modules \cup {m}}
      /\ Nil \in Objects \cup {Nil} /\ 0 \in {0, 1} /\ 0 # 1 /\ m \in modules'
      /\ "none" \in {"none", "retire", "add"}
      /\ "none" = IF to \in {"retire", "add"} THEN to ELSE "none"
    BY <1>0, <1>1, <1>2, <1>4, <1>5
<1>10. TableAct(s, m, to, Nil, 0, "none")
    BY <1>1, <1>4, <1>5, <1>6, <1>7, <1>8, <1>9 DEF TableAct
<1> QED BY <1>10, TableStep

LEMMA RegisterPreserves ==
    ASSUME IInv, NEW s \in Senders, Register(s) PROVE IInv'
<1>0. TypeOK /\ Counted /\ pc[s] = "register" /\ pc[s] \in Loading
    BY DEF IInv, Register, LoadEnd, Step, Loading
<1>1. UNCHANGED <<modules, refs, mapped, waiting, index, named, ops, target,
                  queue, copy, pending, todo, running, messages, collided,
                  skipped>>
    BY DEF Register, console, calls
<1>2. PICK m :
          /\ m = Library(loading[s])
          /\ \E f \in Additions(info, m) :
                /\ info' = [a \in Infos |->
                               IF \E c \in Subscribes[m] : f[c] = a
                               THEN <<CHOOSE c \in Subscribes[m] : f[c] = a, loading[s]>>
                               ELSE info[a]]
                /\ clients' = [clients EXCEPT ![m] = @ \cup {f[c] : c \in Subscribes[m]}]
    <2> WITNESS Library(loading[s])
    <2> QED BY Zenon DEF Register
<1>3. /\ m \in Modules /\ loading[s] \in Objects
      /\ loading[s] = <<m, mapped[m]>> /\ refs[m] > 0
      /\ \A n : ~Holds(s, n)
      /\ \A w \in Workers \ {s} : s \in Workers => pc[w] \notin Loading
      /\ (s = Console => pc[Console] # "move")
    BY <1>0, <1>2, Loader
<1>4. PICK f \in Additions(info, m) :
          /\ info' = [a \in Infos |->
                         IF \E c \in Subscribes[m] : f[c] = a
                         THEN <<CHOOSE c \in Subscribes[m] : f[c] = a, loading[s]>>
                         ELSE info[a]]
          /\ clients' = [clients EXCEPT ![m] = @ \cup {f[c] : c \in Subscribes[m]}]
    BY <1>2, Zenon
<1>5. PICK to \in {"reloaded", "notify"} : pc' = [pc EXCEPT ![s] = to]
    BY DEF Register, LoadEnd, Step
<1>6. loading' = [loading EXCEPT ![s] = Nil]
    BY DEF Register, LoadEnd
<1>7. /\ pc' \in [Senders -> Points] /\ loading' \in [Senders -> Objects \cup {Nil}]
      /\ pc'[s] = to /\ pc'[s] \notin Loading
      /\ \A x \in Senders \ {s} :
            /\ pc'[x] = pc[x] /\ loading'[x] = loading[x]
            /\ \A n : /\ Holds(x, n)' <=> Holds(x, n)
                      /\ Phase(x, n)' = Phase(x, n)
    BY <1>0, <1>5, <1>6, OthersSame DEF Points, Loading
<1>8. \A n : ~Holds(s, n)'
    BY <1>7 DEF Holds, Loading
<1>9. \A n : Held(n)' <=> Held(n)
    <2>1. \A x \in Senders : \A n : Holds(x, n)' <=> Holds(x, n)
        BY <1>3, <1>7, <1>8
    <2> QED BY <2>1 DEF Held
<1>10. Counted'
    <2>1. Phase(s, m) = "none" /\ Phase(s, m)' = "none"
        BY <1>3, <1>8 DEF Phase
    <2>2. Has(m)' = Has(m)
        BY <1>1 DEF Has
    <2>3. \A x \in Senders \ {s} :
             refs'[m] >= Waits(waiting', m) + Need(Phase(s, m)', Phase(x, m), Has(m)')
        <3>1. \A x \in Senders \ {s} :
                 refs[m] >= Waits(waiting, m) + Need("none", Phase(x, m), Has(m))
            BY <1>0, <1>3, <2>1 DEF Counted, Enough
        <3> QED BY <1>1, <2>1, <2>2, <3>1
    <2>4. refs'[m] \in Nat /\ Waits(waiting', m) \in Nat
        BY <1>0, <1>1, <1>3, CountType
    <2>5. m \notin collided' =>
            /\ refs'[m] = Waits(waiting', m) + Has(m)' + (IF Held(m)' THEN 1 ELSE 0)
            /\ \A x \in Senders \ {s} : Holds(x, m) =>
                  /\ ~Holds(s, m)'
                  /\ \A y \in Senders \ {s} : Holds(y, m) => y = x
                  /\ pc[x] = "retire" => m \in modules'
                  /\ pc[x] = "add" => m \notin modules'
        BY <1>0, <1>1, <1>3, <1>8, <1>9, <2>2 DEF Counted, Exact
    <2>6. pc'[s] # "register"
        BY <1>5, <1>7
    <2> QED BY <1>0, <1>1, <1>3, <1>7, <1>8, <1>9, <2>3, <2>4, <2>5, <2>6, CountStep
<1>11. f \in [Subscribes[m] -> {a \in Infos : info[a] = Free}]
    BY <1>4 DEF Additions
<1>12. /\ clients' \in [Modules -> SUBSET Infos]
       /\ \A n \in Modules : clients[n] \subseteq clients'[n]
       /\ \A c \in Subscribes[m] : f[c] \in clients'[m]
    <2>1. {f[c] : c \in Subscribes[m]} \in SUBSET Infos
        BY <1>11
    <2>2. clients \in [Modules -> SUBSET Infos]
        BY <1>0 DEF TypeOK
    <2>3. clients' = [clients EXCEPT ![m] = clients[m] \cup {f[c] : c \in Subscribes[m]}]
        BY <1>4
    <2>4. clients'[m] = clients[m] \cup {f[c] : c \in Subscribes[m]}
        BY <1>3, <2>2, <2>3
    <2>5. clients' \in [Modules -> SUBSET Infos]
        <3>1. clients[m] \cup {f[c] : c \in Subscribes[m]} \in SUBSET Infos
            BY <1>3, <2>1, <2>2
        <3> QED BY <2>2, <2>3, <3>1, Zenon
    <2>6. \A n \in Modules : clients[n] \subseteq clients'[n]
        BY <2>2, <2>3, <2>4
    <2> QED BY <2>4, <2>5, <2>6
<1>13. ASSUME NEW a \in Infos
       PROVE  \/ info'[a] = info[a]
              \/ /\ info[a] = Free /\ a \in clients'[m]
                 /\ info'[a] = <<info'[a][1], <<m, mapped[m]>>>>
                 /\ info'[a][1] \in Subscribes[m] /\ f[info'[a][1]] = a
    <2>1. CASE \E c \in Subscribes[m] : f[c] = a
        <3> DEFINE k == CHOOSE x \in Subscribes[m] : f[x] = a
        <3>1. k \in Subscribes[m] /\ f[k] = a
            BY <2>1
        <3>2. info'[a] = <<k, loading[s]>>
            BY <1>4, <2>1
        <3> HIDE DEF k
        <3>3. info'[a] = <<k, <<m, mapped[m]>>>>
            BY <1>3, <3>2
        <3> QED BY <1>11, <1>12, <3>1, <3>3
    <2>2. CASE ~\E c \in Subscribes[m] : f[c] = a
        BY <1>4, <2>2
    <2> QED BY <2>1, <2>2
<1>14. info' \in [Infos -> (Commands \X Objects) \cup {Free}]
    <2>1. \A a \in Infos : info'[a] \in (Commands \X Objects) \cup {Free}
        <3>1. Subscribes[m] \subseteq Commands /\ <<m, mapped[m]>> \in Objects
            BY <1>3, ModuleAssumption
        <3>2. \A a \in Infos : info[a] \in (Commands \X Objects) \cup {Free}
            BY <1>0 DEF TypeOK
        <3> QED BY <1>13, <3>1, <3>2
    <2> QED BY <1>4, <2>1
<1>15. ASSUME NEW a \in Infos, info'[a] # Free
       PROVE  \/ a \in InUse /\ info'[a] = info[a]
              \/ /\ a \in clients'[m] /\ Library(info'[a][2]) = m
                 /\ info'[a][2][2] = mapped[m]
                 /\ info'[a][1] \in Subscribes[m] /\ f[info'[a][1]] = a
    BY <1>13, <1>15 DEF InUse, Library
<1>16. RegisteredMapped'
    <2>1. ASSUME NEW a \in Infos, info'[a] # Free PROVE Mapped(info[a][2])'
        <3>1. CASE a \in InUse /\ info'[a] = info[a]
            <4>1. Mapped(info[a][2])
                BY <3>1 DEF IInv, Entered, RegisteredMapped, Registered
            <4> QED BY <1>1, <3>1, <4>1 DEF Mapped, Library
        <3>2. CASE Library(info'[a][2]) = m /\ info'[a][2][2] = mapped[m]
            BY <1>1, <1>3, <3>2 DEF Mapped, Library
        <3> QED BY <1>15, <2>1, <3>1, <3>2
    <2> QED BY <2>1 DEF RegisteredMapped, Registered, InUse
<1>17. Remembered'
    <2>1. ASSUME NEW a \in Infos, info'[a] # Free
          PROVE  /\ a \in clients'[Library(info'[a][2])]
                 /\ info'[a][1] \in Subscribes[Library(info'[a][2])]
        <3>1. CASE a \in InUse /\ info'[a] = info[a]
            <4>1. Library(info[a][2]) \in Modules
                BY <1>0, <3>1, EntryType
            <4> QED BY <1>12, <3>1, <4>1 DEF IInv, Entered, Remembered
        <3> QED BY <1>15, <2>1, <3>1
    <2> QED BY <2>1 DEF Remembered, InUse, Library
<1>18. pc'[Console] = "move" <=> pc[Console] = "move"
    BY <1>0, <1>5, <1>7, ConsoleSends
<1>19. \A n : (Moving(n)' <=> Moving(n)) /\ (Alone(n)' <=> Alone(n))
    BY <1>1, <1>9, <1>18 DEF Moving, Alone
<1>20. Alone(m) => \A a \in InUse : Library(info[a][2]) # m
    <2>1. m \in modules \/ Held(m)
        BY <1>0, <1>2 DEF Counted, Registering
    <2>2. Moving(m) => s \in Workers
        BY <1>3, SenderCases DEF Moving
    <2> QED BY <1>0, <1>2, <2>1, <2>2 DEF Alone, IInv, Entered, Emptied
<1>21. Single'
    <2>1. ASSUME NEW a \in Infos, NEW b \in Infos, info'[a] # Free, info'[b] # Free,
                 info'[a][1] = info'[b][1],
                 Library(info'[a][2]) = Library(info'[b][2]),
                 Alone(Library(info'[a][2]))
          PROVE  a = b
        <3>1. CASE Library(info'[a][2]) = m
            <4>1. ~(a \in InUse /\ info'[a] = info[a]) /\ ~(b \in InUse /\ info'[b] = info[b])
                BY <1>20, <2>1, <3>1
            <4>2. f[info'[a][1]] = a /\ f[info'[b][1]] = b
                BY <1>15, <2>1, <4>1
            <4> QED BY <2>1, <4>2
        <3>2. CASE Library(info'[a][2]) # m
            <4>1. /\ a \in InUse /\ info'[a] = info[a]
                  /\ b \in InUse /\ info'[b] = info[b]
                BY <1>15, <2>1, <3>2
            <4> QED BY <2>1, <4>1 DEF IInv, Entered, Single
        <3> QED BY <3>1, <3>2
    <2>2. ASSUME NEW a \in Infos, NEW b \in Infos, info'[a] # Free, info'[b] # Free,
                 info'[a][1] = info'[b][1],
                 Library(info'[a][2]) = Library(info'[b][2]),
                 Alone(Library(info[a][2]))'
          PROVE  a = b
        <3>1. Alone(Library(info[a][2]))' => Alone(Library(info'[a][2]))
            BY <1>1, <1>9, <1>18 DEF Moving, Alone, Library, Held, Holds
        <3> QED BY <2>1, <2>2, <3>1
    <2> QED BY <2>2 DEF Single, InUse
<1>22. Emptied'
    <2>1. ASSUME NEW w \in Workers, pc'[w] \in Loading, pc[Console] = "move"
          PROVE  FALSE
        <3>1. w \in Senders /\ w # s
            BY <1>7, <2>1, ConsoleApart
        <3>2. pc[w] \in Loading
            BY <1>7, <2>1, <3>1
        <3> QED BY <1>3, <2>1, <3>1, <3>2, SenderCases
    <2> QED BY <1>18, <2>1 DEF Emptied, Moving
<1>23. NamedKnown' /\ OpenIsMapped'
    BY <1>1, <1>18 DEF IInv, Entered, NamedKnown, OpenIsMapped
<1>24. Budget'
    BY <1>1, <1>18 DEF IInv, Entered, Budget
<1>25. Entered'
    BY <1>16, <1>17, <1>21, <1>22, <1>23, <1>24 DEF Entered
<1>26. sent' \in [Senders -> {0, 1}] /\ due' \in SUBSET Workers
    BY <1>0 DEF Register, Changed, TypeOK
<1>27. TypeOK'
    BY <1>0, <1>1, <1>7, <1>12, <1>14, <1>26 DEF TypeOK
<1> QED BY <1>10, <1>25, <1>27 DEF IInv


-----------------------------------------------------------------------------
(* Steps that begin a load or close a library. *)

\* UnLoadModuleData removes entries of its module only, and all of them when
\* there is one per command.
LEMMA UnloadEffect ==
    ASSUME IInv, NEW m \in Modules, NEW d \in UnLoadModuleData(m)
    PROVE  /\ Freed(d) \in [Infos -> (Commands \X Objects) \cup {Free}]
           /\ \A a \in Infos : Freed(d)[a] # Free => a \in InUse /\ Freed(d)[a] = info[a]
           /\ Alone(m) => \A a \in Infos : Freed(d)[a] # Free => Library(info[a][2]) # m
<1> DEFINE Own(c) == {a \in Infos : info[a] = <<c, <<m, mapped[m]>>>>}
<1>1. \A c \in Subscribes[m] :
          Own(c) # {} => \E a \in Own(c) : d \cap Own(c) = {a}
    BY DEF UnLoadModuleData
<1>2. /\ Freed(d) \in [Infos -> (Commands \X Objects) \cup {Free}]
      /\ \A a \in Infos : /\ a \in d => Freed(d)[a] = Free
                          /\ a \notin d => Freed(d)[a] = info[a]
    BY DEF Freed, IInv, TypeOK
<1>3. \A a \in Infos : Freed(d)[a] # Free => a \in InUse /\ Freed(d)[a] = info[a]
    BY <1>2 DEF InUse
<1>4. ASSUME Alone(m), NEW a \in Infos,
             Freed(d)[a] # Free, Library(info[a][2]) = m
      PROVE  FALSE
    <2>1. a \in InUse /\ a \notin d
        BY <1>2, <1>3, <1>4
    <2> DEFINE c == info[a][1]
    <2>2. info[a] = <<c, info[a][2]>> /\ info[a][2] = <<m, info[a][2][2]>>
        BY <1>4, <2>1, EntryType DEF IInv
    <2>3. info[a][2][2] = mapped[m] /\ c \in Subscribes[m]
        BY <1>4, <2>1, EntryHeld DEF IInv, Entered, Remembered
    <2>4. a \in Own(c)
        BY <2>2, <2>3
    <2>5. PICK b \in Own(c) : d \cap Own(c) = {b}
        BY <1>1, <2>3, <2>4
    <2>6. b \in InUse /\ info[b] = info[a]
        BY <2>1, <2>2, <2>3, <2>5 DEF InUse
    <2>7. a = b
        BY <1>4, <2>1, <2>6 DEF IInv, Entered, Single
    <2> QED BY <2>1, <2>5, <2>7
<1> QED BY <1>2, <1>3, <1>4

\* The first of the waiting modules is taken.
LEMMA TailCounts ==
    ASSUME TypeOK, waiting # << >>, waiting' = Tail(waiting)
    PROVE  /\ waiting' \in Seq(Items) /\ Len(waiting') \in Nat
           /\ Len(waiting') + 1 = Len(waiting)
           /\ Head(waiting) \in Items /\ Head(waiting).module \in Modules
           /\ \A n \in Modules :
                 /\ Waits(waiting', n) \in Nat /\ Waits(waiting, n) \in Nat
                 /\ Waits(waiting, n) = Waits(waiting', n)
                                        + (IF Head(waiting).module = n THEN 1 ELSE 0)
<1>1. waiting \in Seq(Items)
    BY DEF TypeOK, Items
<1>2. /\ waiting' \in Seq(Items) /\ Len(waiting') \in Nat
      /\ Len(waiting') + 1 = Len(waiting) /\ Head(waiting) \in Items
    BY <1>1
<1>3. Head(waiting).module \in Modules
    BY <1>2 DEF Items
<1> QED BY <1>1, <1>2, <1>3, WaitsType, WaitsTail

\* What holds of the entries when those of the first waiting module m are
\* unloaded and its library is closed, or closed and opened again.
LEMMA TailEntered ==
    ASSUME IInv, NEW m \in Modules, NEW d \in UnLoadModuleData(m), info' = Freed(d),
           waiting # << >>, waiting' = Tail(waiting),
           UNCHANGED <<clients, modules, named, ops>>, pc'[Console] = pc[Console],
           \A n \in Modules \ {m} : refs'[n] = refs[n] /\ mapped'[n] = mapped[n],
           ~Alone(m) => refs'[m] > 0 /\ mapped'[m] = mapped[m],
           refs'[m] > 0 => mapped'[m] > 0,
           mapped'[m] \in {mapped[m], mapped[m] + 1},
           \A n \in Modules : Alone(n)' => Alone(n),
           \A v \in Workers : pc'[v] \in Loading => Library(loading'[v]) = m
    PROVE  Entered' /\ mapped'[m] \in 0 .. MaxOps + 1
<1>0. TypeOK
    BY DEF IInv
<1>1. /\ \A a \in Infos : info'[a] # Free => a \in InUse /\ info'[a] = info[a]
      /\ Alone(m) => \A a \in Infos : info'[a] # Free => Library(info[a][2]) # m
    BY UnloadEffect
<1>2. RegisteredMapped'
    <2>1. ASSUME NEW a \in Infos, info'[a] # Free PROVE Mapped(info[a][2])'
        <3>1. a \in InUse /\ info'[a] = info[a]
            BY <1>1, <2>1
        <3>2. PICK n \in Modules : n = Library(info[a][2])
            BY <1>0, <3>1, EntryType
        <3>3. refs[n] > 0 /\ info[a][2][2] = mapped[n]
            BY <3>1, <3>2, EntryHeld DEF IInv, Entered
        <3>4. n = m => ~Alone(m)
            BY <1>1, <2>1, <3>2
        <3>5. refs'[n] > 0 /\ mapped'[n] = mapped[n]
            BY <3>3, <3>4
        <3>6. Library(info'[a][2]) = n /\ info'[a][2][2] = mapped'[n]
            BY <3>1, <3>2, <3>3, <3>5
        <3> QED BY <3>5, <3>6 DEF Mapped, Library
    <2> QED BY <2>1 DEF RegisteredMapped, Registered, InUse
<1>3. Remembered' /\ NamedKnown'
    BY <1>1 DEF IInv, Entered, Remembered, NamedKnown, InUse
<1>4. Single'
    <2>1. \A a \in Infos : info'[a] # Free =>
             /\ a \in InUse /\ info'[a] = info[a]
             /\ Library(info[a][2]) \in Modules
        BY <1>0, <1>1, EntryType
    <2>2. \A n \in Modules : Alone(n)' => Alone(n)
        OBVIOUS
    <2>3. ASSUME NEW a \in Infos, NEW b \in Infos, info'[a] # Free, info'[b] # Free,
                 info'[a][1] = info'[b][1],
                 Library(info'[a][2]) = Library(info'[b][2]),
                 Alone(Library(info[a][2]))'
          PROVE  a = b
        <3>1. PICK n \in Modules : n = Library(info[a][2])
            BY <2>1, <2>3
        <3>2. Library(info'[a][2]) = n
            BY <2>1, <2>3, <3>1
        <3>3. Alone(n)'
            BY <2>3, <3>2 DEF Alone, Moving, Held, Holds, Library
        <3>4. Alone(Library(info[a][2]))
            BY <2>2, <3>1, <3>3 DEF Alone, Moving, Held, Holds
        <3> QED BY <2>1, <2>3, <3>4 DEF IInv, Entered, Single
    <2> QED BY <2>3 DEF Single, InUse
<1>5. Emptied'
    <2>1. ASSUME NEW w \in Workers, pc'[w] \in Loading, Moving(Library(loading[w]))',
                 NEW a \in Infos, info'[a] # Free
          PROVE  Library(info'[a][2]) # m
        <3>1. Moving(m)
            BY <2>1 DEF Moving, Library
        <3> QED BY <1>1, <2>1, <3>1 DEF Alone
    <2>2. \A w \in Workers : pc'[w] \in Loading => Library(loading'[w]) = m
        OBVIOUS
    <2> QED BY <2>1, <2>2 DEF Emptied, InUse, Library
<1>6. OpenIsMapped'
    BY DEF IInv, Entered, OpenIsMapped
<1>7. ASSUME NEW n \in Modules
      PROVE  /\ mapped'[n] + Len(waiting')
                    + (IF pc'[Console] = "move" THEN 1 ELSE 0) <= ops' + 1
             /\ mapped'[n] \in 0 .. MaxOps + 1
    <2>1. /\ mapped[n] \in Nat /\ ops \in Nat /\ MaxOps \in Nat /\ ops <= MaxOps
          /\ Len(waiting') \in Nat /\ Len(waiting') + 1 = Len(waiting)
          /\ ops' = ops /\ pc'[Console] = pc[Console]
        <3>1. mapped[n] \in Nat /\ ops \in Nat /\ MaxOps \in Nat
            BY <1>0, CountType
        <3>2. ops <= MaxOps
            BY <1>0 DEF TypeOK
        <3>3. Len(waiting') \in Nat /\ Len(waiting') + 1 = Len(waiting)
            BY <1>0, TailCounts
        <3> QED BY <3>1, <3>2, <3>3
    <2>2. mapped[n] + Len(waiting) + (IF pc[Console] = "move" THEN 1 ELSE 0) <= ops + 1
        BY DEF IInv, Entered, Budget
    <2>3. mapped'[n] \in {mapped[n], mapped[n] + 1}
        OBVIOUS
    <2> QED BY <2>1, <2>2, <2>3
<1>8. Budget'
    BY <1>7 DEF Budget
<1> QED BY <1>2, <1>3, <1>4, <1>5, <1>6, <1>7, <1>8 DEF Entered

\* A worker unloads the first waiting module m and closes its library.
LEMMA CloseStep ==
    ASSUME IInv, NEW w \in Workers, NEW to \in {"copy", "reloaded"},
           waiting # << >>, Unlocked, Step(w, "unload", to), waiting' = Tail(waiting),
           NEW m, m = Head(waiting).module,
           \E d \in UnLoadModuleData(m) : info' = Freed(d),
           refs' = [refs EXCEPT ![m] = @ - 1],
           UNCHANGED <<clients, modules, mapped, index, named, ops, loading,
                       target, sent, queue, copy, pending, todo, running,
                       messages, collided, skipped>>,
           due' \in SUBSET Workers
    PROVE  IInv'
<1>0. TypeOK /\ Counted /\ w \in Senders /\ w # Console
    BY ConsoleApart DEF IInv
<1>1. PICK d \in UnLoadModuleData(m) : info' = Freed(d)
    OBVIOUS
<1>2. /\ m \in Modules /\ waiting' \in Seq(Items)
      /\ \A n \in Modules :
            /\ Waits(waiting', n) \in Nat /\ Waits(waiting, n) \in Nat
            /\ Waits(waiting, n) = Waits(waiting', n) + (IF m = n THEN 1 ELSE 0)
    BY <1>0, TailCounts
<1>3. /\ pc[w] \notin Loading /\ to \in Points /\ to \notin Loading
      /\ pc' = [pc EXCEPT ![w] = to]
      /\ loading[w] \in Objects \cup {Nil}
      /\ loading' = [loading EXCEPT ![w] = loading[w]]
    BY <1>0 DEF Step, Loading, Points, TypeOK
<1>4. /\ pc' \in [Senders -> Points] /\ loading' \in [Senders -> Objects \cup {Nil}]
      /\ pc'[w] = to
      /\ \A x \in Senders \ {w} :
            /\ pc'[x] = pc[x] /\ loading'[x] = loading[x]
            /\ \A n : /\ Holds(x, n)' <=> Holds(x, n)
                      /\ Phase(x, n)' = Phase(x, n)
    BY <1>0, <1>3, OthersSame
<1>5. \A n : ~Holds(w, n) /\ ~Holds(w, n)'
    BY <1>3, <1>4 DEF Holds, Loading
<1>6. \A n : Held(n)' <=> Held(n)
    BY <1>4, <1>5 DEF Held
<1>7. /\ refs[m] \in Nat /\ refs'[m] = refs[m] - 1
      /\ \A n \in Modules \ {m} : refs'[n] = refs[n]
      /\ Has(m)' = Has(m) /\ Has(m) \in {0, 1}
      /\ Phase(w, m) = "none" /\ Phase(w, m)' = "none"
    BY <1>0, <1>2, <1>5 DEF TypeOK, Has, Phase
<1>8. /\ refs[m] >= Waits(waiting, m) + Has(m)
      /\ Held(m) => refs[m] >= Waits(waiting, m) + 1
    BY <1>0, <1>2, EnoughOpen DEF Counted, Held
<1>9. refs'[m] \in Nat /\ refs' \in [Modules -> Nat]
    <2>1. refs[m] - 1 \in Nat
        BY <1>2, <1>7, <1>8
    <2> QED BY <1>0, <1>7, <2>1 DEF TypeOK
<1>10. Counted'
    <2>1. ASSUME NEW x \in Senders \ {w}
          PROVE  refs'[m] >= Waits(waiting', m) + Need("none", Phase(x, m), Has(m)')
        <3>1. refs[m] >= Waits(waiting, m) + Need("none", Phase(x, m), Has(m))
            BY <1>0, <1>2, <1>7 DEF Counted, Enough
        <3>2. "none" \in Phases /\ Phase(x, m) \in Phases
            BY PhaseType DEF Phases
        <3>3. Need("none", Phase(x, m), Has(m)) \in Nat
            BY <1>7, <3>2, NeedType
        <3> QED BY <1>2, <1>7, <3>1, <3>3
    <2>2. \A x \in Senders \ {w} :
             refs'[m] >= Waits(waiting', m) + Need(Phase(w, m)', Phase(x, m), Has(m)')
        BY <1>7, <2>1
    <2>3. m \notin collided' =>
            /\ refs'[m] = Waits(waiting', m) + Has(m)' + (IF Held(m)' THEN 1 ELSE 0)
            /\ \A x \in Senders \ {w} : Holds(x, m) =>
                  /\ ~Holds(w, m)'
                  /\ \A y \in Senders \ {w} : Holds(y, m) => y = x
                  /\ pc[x] = "retire" => m \in modules'
                  /\ pc[x] = "add" => m \notin modules'
        <3> SUFFICES ASSUME m \notin collided'
                     PROVE  /\ refs'[m] = Waits(waiting', m) + Has(m)'
                                               + (IF Held(m)' THEN 1 ELSE 0)
                            /\ \A x \in Senders \ {w} : Holds(x, m) =>
                                  /\ ~Holds(w, m)'
                                  /\ \A y \in Senders \ {w} : Holds(y, m) => y = x
                                  /\ pc[x] = "retire" => m \in modules'
                                  /\ pc[x] = "add" => m \notin modules'
            OBVIOUS
        <3>1. /\ refs[m] = Waits(waiting, m) + Has(m) + (IF Held(m) THEN 1 ELSE 0)
              /\ \A x \in Senders : Holds(x, m) =>
                    /\ \A y \in Senders : Holds(y, m) => y = x
                    /\ pc[x] = "retire" => m \in modules
                    /\ pc[x] = "add" => m \notin modules
            BY <1>0, <1>2 DEF Counted, Exact
        <3>2. refs'[m] = Waits(waiting', m) + Has(m)' + (IF Held(m)' THEN 1 ELSE 0)
            BY <1>2, <1>6, <1>7, <3>1
        <3> QED BY <1>5, <3>1, <3>2
    <2>4. /\ pc'[w] \notin Loading /\ pc'[w] # "register"
          /\ m \in modules \/ Held(m) => m \in modules' \/ Held(m)'
          /\ \A n \in Modules \ {m} : Waits(waiting', n) = Waits(waiting, n)
        BY <1>2, <1>3, <1>4, <1>6 DEF Loading
    <2> QED BY <1>0, <1>2, <1>4, <1>5, <1>7, <1>9, <2>2, <2>3, <2>4, CountStep
<1>11. pc'[Console] = pc[Console]
    BY <1>0, <1>4, ConsoleSends
<1>12. \A n : Alone(n)' <=> Alone(n)
    BY <1>6, <1>11 DEF Alone, Moving
<1>13. ~Alone(m) => refs'[m] > 0
    <2>1. ~Alone(m) => Has(m) = 1 \/ Held(m)
        BY DEF Alone, Has
    <2> QED BY <1>2, <1>7, <1>8, <2>1
<1>14. refs'[m] > 0 => mapped'[m] > 0
    BY <1>2, <1>7, <1>9 DEF IInv, Entered, OpenIsMapped
<1>15. \A v \in Workers : pc'[v] \notin Loading
    BY <1>0, <1>3, <1>4, ConsoleApart DEF Unlocked
<1>16. Entered'
    BY <1>1, <1>2, <1>7, <1>11, <1>12, <1>13, <1>14, <1>15, TailEntered
<1>17. info' \in [Infos -> (Commands \X Objects) \cup {Free}]
    BY <1>1, <1>2, UnloadEffect
<1>18. TypeOK'
    BY <1>0, <1>2, <1>4, <1>9, <1>17 DEF TypeOK, Items
<1> QED BY <1>10, <1>16, <1>18 DEF IInv

LEMMA UnloadPreserves ==
    ASSUME IInv, NEW w \in Workers, UnloadModule(w) PROVE IInv'
<1> USE DEF UnloadModule
<1>1. UNCHANGED <<clients, modules, mapped, index, named, ops, loading, target,
                  sent, queue, copy, pending, todo, running, messages,
                  collided, skipped>>
    BY DEF console, sending, calls
<1>2. due' \in SUBSET Workers
    BY DEF Changed, IInv, TypeOK
<1>3. PICK m : /\ m = Head(waiting).module
               /\ \E d \in UnLoadModuleData(m) :
                     info' = Freed(d) /\ refs' = [refs EXCEPT ![m] = @ - 1]
    <2> WITNESS Head(waiting).module
    <2> QED OBVIOUS
<1>4. /\ \E d \in UnLoadModuleData(m) : info' = Freed(d)
      /\ refs' = [refs EXCEPT ![m] = @ - 1]
    BY <1>3
<1>5. waiting # << >> /\ Unlocked /\ Step(w, "unload", "copy") /\ waiting' = Tail(waiting)
    OBVIOUS
<1> QED BY <1>1, <1>2, <1>3, <1>4, <1>5, CloseStep

LEMMA ReloadPreserves ==
    ASSUME IInv, NEW w \in Workers, ReloadModule(w) PROVE IInv'
<1> USE DEF ReloadModule
<1>0. TypeOK /\ Counted /\ w \in Senders /\ w # Console
    BY ConsoleApart DEF IInv
<1>1. UNCHANGED <<clients, modules, index, named, ops, target, sent, queue,
                  copy, pending, todo, running, messages, skipped>>
    BY DEF console, sending, calls
<1>2. due' \in SUBSET Workers
    BY DEF Changed, IInv, TypeOK
<1>3. PICK m :
          /\ m = Head(waiting).module
          /\ \E d \in UnLoadModuleData(m) : info' = Freed(d)
          /\ \/ /\ Step(w, "unload", "find")
                /\ LoadModuleInfo(w, m, refs[m] - 1)
                /\ collided' = collided \cup IF Holds(Console, m) THEN {m} ELSE {}
             \/ /\ Step(w, "unload", "reloaded")
                /\ refs' = [refs EXCEPT ![m] = @ - 1]
                /\ UNCHANGED <<mapped, loading, collided>>
    <2> WITNESS Head(waiting).module
    <2> QED OBVIOUS
<1>4. waiting # << >> /\ Unlocked /\ waiting' = Tail(waiting)
    OBVIOUS
<1>5. CASE /\ Step(w, "unload", "reloaded")
           /\ refs' = [refs EXCEPT ![m] = @ - 1]
           /\ UNCHANGED <<mapped, loading, collided>>
    BY <1>1, <1>2, <1>3, <1>4, <1>5, CloseStep
<1>6. CASE /\ Step(w, "unload", "find")
           /\ LoadModuleInfo(w, m, refs[m] - 1)
           /\ collided' = collided \cup IF Holds(Console, m) THEN {m} ELSE {}
    <2>1. PICK d \in UnLoadModuleData(m) : info' = Freed(d)
        BY <1>3
    <2>2. /\ m \in Modules /\ waiting' \in Seq(Items)
          /\ \A n \in Modules :
                /\ Waits(waiting', n) \in Nat /\ Waits(waiting, n) \in Nat
                /\ Waits(waiting, n) = Waits(waiting', n) + (IF m = n THEN 1 ELSE 0)
        BY <1>0, <1>3, <1>4, TailCounts
    <2>3. PICK g : /\ g = (IF refs[m] - 1 = 0 THEN mapped[m] + 1 ELSE mapped[m])
                   /\ mapped' = [mapped EXCEPT ![m] = g]
                   /\ loading' = [loading EXCEPT ![w] = <<m, g>>]
                   /\ refs' = [refs EXCEPT ![m] = (refs[m] - 1) + 1]
        BY <1>6 DEF LoadModuleInfo
    <2>4. /\ refs[m] \in Nat /\ mapped[m] \in Nat
          /\ Has(m)' = Has(m) /\ Has(m) \in {0, 1}
          /\ refs \in [Modules -> Nat] /\ mapped \in [Modules -> 0 .. MaxOps + 1]
        <3>1. refs \in [Modules -> Nat] /\ mapped \in [Modules -> 0 .. MaxOps + 1]
            BY <1>0 DEF TypeOK
        <3>2. Has(m)' = Has(m) /\ Has(m) \in {0, 1}
            BY <1>1 DEF Has
        <3> QED BY <2>2, <3>1, <3>2
    <2>5. /\ refs' = refs /\ mapped'[m] = g /\ g \in {mapped[m], mapped[m] + 1}
          /\ \A n \in Modules \ {m} : mapped'[n] = mapped[n]
        BY <2>2, <2>3, <2>4
    <2>6. /\ refs[m] >= Waits(waiting, m) + Has(m)
          /\ Held(m) => refs[m] >= Waits(waiting, m) + 1
        BY <1>0, <2>2, EnoughOpen DEF Counted, Held
    <2>7. Has(m) = 1 \/ Held(m) => g = mapped[m] /\ refs[m] > 0
        BY <2>2, <2>3, <2>4, <2>6
    <2>8. mapped'[m] > 0
        BY <2>2, <2>3, <2>4, <2>5, <2>6 DEF IInv, Entered, OpenIsMapped
    <2>9. /\ pc[w] \notin Loading /\ "find" \in Points /\ "find" \in Loading
          /\ pc' = [pc EXCEPT ![w] = "find"]
        BY <1>6 DEF Step, Loading, Points
    <2> DEFINE Rest == \A x \in Senders \ {w} :
                          /\ pc'[x] = pc[x] /\ loading'[x] = loading[x]
                          /\ \A n : /\ Holds(x, n)' <=> Holds(x, n)
                                    /\ Phase(x, n)' = Phase(x, n)
    <2>10. pc'[w] = "find" /\ pc'[Console] = pc[Console]
        BY <1>0, <2>9, ConsoleSends DEF TypeOK
    <2>11. \A n \in Modules : Alone(n)' => Alone(n)
        <3>1. \A x \in Senders : \A n : Holds(x, n) => Holds(x, n)'
            BY <1>0, <2>3, <2>9 DEF Holds, TypeOK, Loading
        <3> QED BY <1>1, <2>10, <3>1 DEF Alone, Moving, Held
    <2>12. /\ ~Alone(m) => refs'[m] > 0 /\ mapped'[m] = mapped[m]
           /\ refs'[m] > 0 => mapped'[m] > 0
        BY <2>5, <2>7, <2>8 DEF Alone, Has
    <2>13. \A v \in Workers : pc'[v] \in Loading => Library(loading'[v]) = m
        <3>1. \A v \in Workers : pc'[v] \in Loading => v = w
            BY <1>0, <1>4, <2>9, ConsoleApart DEF Unlocked, TypeOK
        <3>2. loading'[w] = <<m, g>>
            BY <1>0, <2>3 DEF TypeOK
        <3> QED BY <3>1, <3>2 DEF Library
    <2>14. Entered' /\ mapped'[m] \in 0 .. MaxOps + 1
        BY <1>1, <1>4, <2>1, <2>2, <2>5, <2>10, <2>11, <2>12, <2>13, TailEntered
    <2>15. /\ mapped' \in [Modules -> 0 .. MaxOps + 1]
           /\ g \in 1 .. MaxOps + 1 /\ <<m, g>> \in Objects
        <3>1. g \in 0 .. MaxOps + 1 /\ MaxOps \in Nat
            BY <2>5, <2>14, NumberAssumption
        <3>2. mapped' \in [Modules -> 0 .. MaxOps + 1]
            BY <2>3, <2>4, <3>1
        <3>3. g \in 1 .. MaxOps + 1
            BY <2>5, <2>8, <3>1
        <3> QED BY <2>2, <3>2, <3>3 DEF Objects
    <2>16. /\ pc' \in [Senders -> Points] /\ loading' \in [Senders -> Objects \cup {Nil}]
           /\ loading'[w] = <<m, g>> /\ Rest
        BY <1>0, <2>3, <2>9, <2>15, OthersSame
    <2>17. /\ \A n : ~Holds(w, n)
           /\ \A n : Holds(w, n)' <=> n = m
           /\ Held(m)'
        BY <1>0, <2>9, <2>10, <2>16 DEF Holds, Held, Loading, Library
    <2>18. \A x \in Senders \ {w} : pc[x] \in Loading => x = Console
        BY <1>4, UnlockedIdle
    <2>19. Phase(w, m) = "none" /\ Phase(w, m)' = "find"
        BY <2>10, <2>17 DEF Phase
    <2>20. ASSUME NEW x \in Senders \ {w}
           PROVE  refs'[m] >= Waits(waiting', m) + Need("find", Phase(x, m), Has(m)')
        <3>1. PICK q \in Phases : q = Phase(x, m)
            BY PhaseType
        <3>2. refs[m] >= Waits(waiting, m) + Need("none", q, Has(m))
            BY <1>0, <2>2, <2>19, <3>1 DEF Counted, Enough
        <3>3. Need("none", q, Has(m)) + 1 >= Need("find", q, Has(m))
            BY <2>4, NeedSteps
        <3>4. Need("none", q, Has(m)) \in Nat /\ Need("find", q, Has(m)) \in Nat
            BY <2>4, NeedType DEF Phases
        <3>5. refs'[m] >= Waits(waiting', m) + Need("find", q, Has(m))
            BY <2>2, <2>4, <2>5, <3>2, <3>3, <3>4
        <3> QED BY <2>4, <3>1, <3>5
    <2>21. ASSUME NEW x \in Senders \ {w}, pc[x] \in Loading, Library(loading[x]) = m
           PROVE  mapped'[m] = mapped[m]
        <3>1. Holds(x, m) \/ m \in modules \/ Held(m)
            BY <1>0, <2>21 DEF Counted, Registering, Loading, Holds
        <3> QED BY <2>5, <2>7, <3>1 DEF Held, Has
    <2>22. ASSUME m \notin collided'
           PROVE  /\ refs'[m] = Waits(waiting', m) + Has(m)' + 1
                  /\ \A x \in Senders \ {w} : ~Holds(x, m)
        <3>1. m \notin collided /\ ~Holds(Console, m)
            BY <1>6, <2>22
        <3>2. \A x \in Senders : ~Holds(x, m)
            BY <2>17, <2>18, <3>1 DEF Holds, Loading
        <3>3. refs[m] = Waits(waiting, m) + Has(m)
            <4>1. ~Held(m)
                BY <3>2 DEF Held
            <4>2. refs[m] = Waits(waiting, m) + Has(m) + (IF Held(m) THEN 1 ELSE 0)
                BY <1>0, <2>2, <3>1 DEF Counted, Exact
            <4> QED BY <2>2, <2>4, <4>1, <4>2
        <3> QED BY <2>2, <2>4, <2>5, <3>2, <3>3
    <2>23. Counted'
        <3>1. collided \subseteq collided'
            BY <1>6
        <3>2. \A n \in Modules \ {m} :
                 /\ ~Holds(w, n) /\ ~Holds(w, n)'
                 /\ refs'[n] = refs[n] /\ mapped'[n] = mapped[n]
                 /\ n \in modules' <=> n \in modules
                 /\ Waits(waiting', n) = Waits(waiting, n)
            BY <1>1, <2>2, <2>5, <2>17
        <3>3. loading'[w] \in Objects /\ loading'[w][2] = mapped'[Library(loading'[w])]
            BY <2>5, <2>15, <2>16 DEF Library
        <3>4. /\ refs'[m] \in Nat /\ Waits(waiting', m) \in Nat
              /\ pc'[w] # "register" /\ pc'[w] # "retire" /\ pc'[w] # "add"
            BY <2>2, <2>4, <2>5, <2>10
        <3>5. \A x \in Senders \ {w} :
                 refs'[m] >= Waits(waiting', m) + Need(Phase(w, m)', Phase(x, m), Has(m)')
            BY <2>19, <2>20
        <3>6. m \notin collided' =>
                /\ refs'[m] = Waits(waiting', m) + Has(m)' + (IF Held(m)' THEN 1 ELSE 0)
                /\ \A x \in Senders \ {w} : ~Holds(x, m)
            BY <2>17, <2>22
        <3> QED BY <1>0, <1>4, <2>2, <2>16, <2>17, <2>21, <3>1, <3>2, <3>3, <3>4,
                   <3>5, <3>6, CountStep
    <2>24. info' \in [Infos -> (Commands \X Objects) \cup {Free}]
        BY <2>1, <2>2, UnloadEffect
    <2>25. collided' \in SUBSET Modules
        BY <1>0, <1>6, <2>2 DEF TypeOK
    <2>26. TypeOK'
        BY <1>0, <1>1, <1>2, <2>2, <2>4, <2>5, <2>15, <2>16, <2>24, <2>25
           DEF TypeOK, Items
    <2> QED BY <2>14, <2>23, <2>26 DEF IInv
<1> QED BY <1>3, <1>5, <1>6

LEMMA LoadPreserves ==
    ASSUME IInv, NEW m \in Modules, Load(m) PROVE IInv'
<1> USE DEF Load
<1>0. TypeOK /\ Counted /\ Console \in Senders /\ MaxOps \in Nat
    BY ConsoleSends, NumberAssumption DEF IInv
<1>1. UNCHANGED <<info, clients, modules, waiting, index, named, target, sent,
                  queue, copy, pending, todo, running, messages, collided,
                  due, skipped>>
    BY DEF sending, calls, history
<1>2. ops \in Nat /\ ops' = ops + 1 /\ ops' \in 0 .. MaxOps /\ Unlocked
    BY <1>0 DEF TypeOK
<1>3. CASE Step(Console, "idle", "idle") /\ UNCHANGED <<refs, mapped, loading>>
    <2>1. pc' = pc
        BY <1>0, <1>3 DEF Step, TypeOK
    <2>2. Counted' /\ Entered'
        BY <1>1, <1>2, <1>3, <2>1, SameHeld DEF Calm, loader
    <2>3. TypeOK'
        BY <1>0, <1>1, <1>2, <1>3, <2>1 DEF TypeOK
    <2> QED BY <2>2, <2>3 DEF IInv
<1>4. CASE Step(Console, "idle", "find") /\ LoadModuleInfo(Console, m, refs[m])
    <2>1. PICK g : /\ g = (IF refs[m] = 0 THEN mapped[m] + 1 ELSE mapped[m])
                   /\ mapped' = [mapped EXCEPT ![m] = g]
                   /\ loading' = [loading EXCEPT ![Console] = <<m, g>>]
                   /\ refs' = [refs EXCEPT ![m] = refs[m] + 1]
        BY <1>4 DEF LoadModuleInfo
    <2>2. /\ refs[m] \in Nat /\ mapped[m] \in Nat
          /\ waiting' \in Seq(Items) /\ Len(waiting) \in Nat
          /\ \A n \in Modules : Waits(waiting', n) \in Nat /\ Waits(waiting', n) = Waits(waiting, n)
        BY <1>0, <1>1, CountType
    <2>3. refs \in [Modules -> Nat] /\ mapped \in [Modules -> 0 .. MaxOps + 1]
        BY <1>0 DEF TypeOK
    <2>4. /\ refs' \in [Modules -> Nat] /\ refs'[m] = refs[m] + 1
          /\ mapped'[m] = g /\ g \in {mapped[m], mapped[m] + 1}
          /\ \A n \in Modules \ {m} : refs'[n] = refs[n] /\ mapped'[n] = mapped[n]
        BY <2>1, <2>2, <2>3
    <2>5. Has(m)' = Has(m) /\ Has(m) \in {0, 1}
        BY <1>1 DEF Has
    <2>6. ASSUME NEW n \in Modules
          PROVE  /\ mapped[n] + 1 + Len(waiting) <= ops' + 1
                 /\ mapped'[n] + Len(waiting) <= ops' + 1
        <3>1. mapped[n] + Len(waiting) + (IF pc[Console] = "move" THEN 1 ELSE 0)
                  <= ops + 1
            BY DEF IInv, Entered, Budget
        <3>2. pc[Console] # "move"
            BY <1>4 DEF Step
        <3>3. mapped[n] \in Nat
            BY <1>0, CountType
        <3>4. mapped'[n] \in {mapped[n], mapped[n] + 1}
            BY <2>4
        <3> QED BY <1>2, <2>2, <3>1, <3>2, <3>3, <3>4
    <2>7. g > 0
        BY <2>1, <2>2 DEF IInv, Entered, OpenIsMapped
    <2>8. g \in 1 .. MaxOps + 1 /\ <<m, g>> \in Objects
        <3>1. g + Len(waiting) <= ops' + 1 /\ g \in Nat
            BY <2>2, <2>4, <2>6
        <3>2. g \in 1 .. MaxOps + 1
            BY <1>0, <1>2, <2>2, <2>7, <3>1
        <3> QED BY <3>2 DEF Objects
    <2>9. mapped' \in [Modules -> 0 .. MaxOps + 1]
        <3>1. g \in 0 .. MaxOps + 1
            BY <2>8
        <3> QED BY <2>1, <2>3, <3>1
    <2>10. /\ pc' = [pc EXCEPT ![Console] = "find"] /\ pc[Console] = "idle"
           /\ pc[Console] \notin Loading /\ "find" \in Points /\ "find" \in Loading
        BY <1>4 DEF Step, Loading, Points
    <2>11. /\ pc' \in [Senders -> Points] /\ loading' \in [Senders -> Objects \cup {Nil}]
           /\ pc'[Console] = "find" /\ loading'[Console] = <<m, g>>
           /\ \A x \in Senders \ {Console} :
                 /\ pc'[x] = pc[x] /\ loading'[x] = loading[x]
                 /\ \A n : /\ Holds(x, n)' <=> Holds(x, n)
                           /\ Phase(x, n)' = Phase(x, n)
        BY <1>0, <2>1, <2>8, <2>10, OthersSame
    <2>12. \A x \in Senders : pc[x] \notin Loading
        BY <1>2, <2>10, UnlockedIdle
    <2>13. /\ \A x \in Senders : \A n : ~Holds(x, n)
           /\ \A x \in Senders : \A n : Phase(x, n) = "none"
           /\ \A n : Holds(Console, n)' <=> n = m
           /\ Phase(Console, m)' = "find"
           /\ Held(m)' /\ \A n : ~Held(n)
        <3>1. \A x \in Senders : \A n : ~Holds(x, n) /\ Phase(x, n) = "none"
            BY <2>12, IdlePhase DEF Holds, Loading
        <3>2. \A n : Holds(Console, n)' <=> n = m
            BY <2>11 DEF Holds, Library
        <3> QED BY <1>0, <2>11, <3>1, <3>2 DEF Held, Phase
    <2>14. \A n \in Modules \ {m} : ~Held(n)'
        BY <2>11, <2>13 DEF Held
    <2>15. Counted'
        <3>1. Need("find", "none", Has(m)') = 1 + Has(m)
            BY <2>5 DEF Need
        <3>2. refs[m] >= Waits(waiting, m) + Has(m)
            BY <1>0, EnoughOpen DEF Counted
        <3>3. \A x \in Senders \ {Console} :
                 refs'[m] >= Waits(waiting', m)
                                 + Need(Phase(Console, m)', Phase(x, m), Has(m)')
            <4>1. refs'[m] >= Waits(waiting', m) + Need("find", "none", Has(m)')
                BY <2>2, <2>4, <2>5, <3>1, <3>2
            <4> QED BY <2>13, <4>1
        <3>4. m \notin collided' =>
                 refs'[m] = Waits(waiting', m) + Has(m)' + (IF Held(m)' THEN 1 ELSE 0)
            <4>1. m \notin collided =>
                     refs[m] = Waits(waiting, m) + Has(m) + (IF Held(m) THEN 1 ELSE 0)
                BY <1>0 DEF Counted, Exact
            <4> QED BY <1>1, <2>2, <2>4, <2>5, <2>13, <4>1
        <3>5. loading'[Console] \in Objects
              /\ loading'[Console][2] = mapped'[Library(loading'[Console])]
            BY <2>4, <2>8, <2>11 DEF Library
        <3>6. /\ refs'[m] \in Nat /\ Waits(waiting', m) \in Nat
              /\ pc'[Console] # "register" /\ pc'[Console] # "retire"
              /\ pc'[Console] # "add" /\ collided \subseteq collided'
            BY <1>1, <2>2, <2>4, <2>11
        <3>7. \A n \in Modules \ {m} :
                 /\ ~Holds(Console, n) /\ ~Holds(Console, n)'
                 /\ refs'[n] = refs[n] /\ mapped'[n] = mapped[n]
                 /\ n \in modules' <=> n \in modules
                 /\ Waits(waiting', n) = Waits(waiting, n)
            <4>1. \A n \in Modules \ {m} : ~Holds(Console, n) /\ ~Holds(Console, n)'
                BY <1>0, <2>13
            <4>2. modules' = modules
                BY <1>1
            <4> QED BY <2>2, <2>4, <4>1, <4>2
        <3> QED BY <1>0, <1>2, <2>11, <2>12, <2>13, <3>3, <3>4, <3>5, <3>6, <3>7,
                   CountStep
    <2>16. RegisteredMapped'
        <3>1. ASSUME NEW a \in InUse PROVE Mapped(info[a][2])'
            <4>1. PICK n \in Modules : n = Library(info[a][2])
                BY <1>0, EntryType
            <4>2. refs[n] > 0 /\ info[a][2][2] = mapped[n]
                BY <4>1, EntryHeld DEF IInv, Entered
            <4>3. refs'[n] > 0 /\ mapped'[n] = mapped[n]
                BY <2>1, <2>2, <2>4, <4>2
            <4>4. Library(info'[a][2]) = n /\ info'[a][2][2] = mapped'[n]
                BY <1>1, <4>1, <4>2, <4>3
            <4> QED BY <4>3, <4>4 DEF Mapped, Library
        <3> QED BY <1>1, <3>1 DEF RegisteredMapped, Registered, InUse
    <2>17. Remembered' /\ NamedKnown'
        BY <1>1, <2>11 DEF IInv, Entered, Remembered, NamedKnown, InUse
    <2>18. \A n \in Modules : Alone(n)' => Alone(n)
        BY <1>1, <2>11, <2>13 DEF Alone, Moving
    <2>19. Single'
        <3>1. \A a \in InUse : Library(info[a][2]) \in Modules
            BY <1>0, EntryType
        <3>2. \A a \in InUse : Alone(Library(info[a][2]))' => Alone(Library(info[a][2]))
            BY <1>1, <2>18, <3>1 DEF Alone, Moving, Held, Holds
        <3> QED BY <1>1, <3>2 DEF IInv, Entered, Single, InUse
    <2>20. Emptied'
        BY <2>11 DEF Emptied, Moving
    <2>21. OpenIsMapped'
        BY <2>4, <2>7 DEF IInv, Entered, OpenIsMapped
    <2>22. Budget'
        <3>1. \A n \in Modules :
                 mapped'[n] + Len(waiting')
                     + (IF pc'[Console] = "move" THEN 1 ELSE 0) <= ops' + 1
            <4>1. pc'[Console] # "move" /\ waiting' = waiting
                BY <1>1, <2>11
            <4>2. \A n \in Modules : mapped'[n] \in Nat
                BY <2>9
            <4> QED BY <2>2, <2>6, <4>1, <4>2
        <3> QED BY <3>1 DEF Budget
    <2>23. Entered'
        BY <2>16, <2>17, <2>19, <2>20, <2>21, <2>22 DEF Entered
    <2>24. TypeOK'
        BY <1>0, <1>1, <1>2, <2>2, <2>4, <2>9, <2>11 DEF TypeOK, Items
    <2> QED BY <2>15, <2>23, <2>24 DEF IInv
<1> QED BY <1>3, <1>4

-----------------------------------------------------------------------------
(* An unload or a reload is begun. *)

LEMMA ReleasePreserves ==
    ASSUME IInv, NEW m \in Modules, NEW kind, Release(m, kind) PROVE IInv'
<1> USE DEF Release, Step
<1>0. TypeOK /\ Console \in Senders /\ MaxOps \in Nat
    BY ConsoleSends, NumberAssumption DEF IInv
<1>1. UNCHANGED <<clients, modules, refs, mapped, waiting, index, loading,
                  target, sent, queue, copy, pending, todo, running, messages,
                  collided, skipped>>
    BY DEF sending, calls
<1>2. /\ pc' \in [Senders -> Points]
      /\ pc[Console] = "idle" /\ pc'[Console] = "move"
      /\ \A s \in Senders \ {Console} : pc'[s] = pc[s]
    BY <1>0 DEF TypeOK, Points
<1>3. ops' \in 0 .. MaxOps /\ ops \in Nat /\ ops' = ops + 1
    BY <1>0 DEF TypeOK
<1>4. due' \in SUBSET Workers
    BY <1>0 DEF Changed, TypeOK
<1>5. named' \in Items /\ named'.module = m
    BY DEF Items
<1>6. /\ info' \in [Infos -> (Commands \X Objects) \cup {Free}]
      /\ \A a \in Infos : info'[a] # Free =>
             a \in InUse /\ info'[a] = info[a] /\ a \notin clients[m]
    BY <1>0 DEF Freed, InUse, TypeOK
<1>7. \A a \in Infos : info'[a] # Free => Library(info[a][2]) # m
    BY <1>6 DEF IInv, Entered, Remembered
<1>8. \A s \in Senders : /\ pc'[s] \in Loading <=> pc[s] \in Loading
                         /\ pc[s] \in Loading => pc'[s] = pc[s]
    BY <1>2 DEF Loading
<1>9. Counted' /\ \A n : Held(n)' <=> Held(n)
    BY <1>1, <1>8, SameCounted
<1>10. RegisteredMapped'
    BY <1>1, <1>6 DEF IInv, Entered, RegisteredMapped, Registered, InUse, Mapped
<1>11. Remembered' /\ NamedKnown'
    BY <1>1, <1>5, <1>6 DEF IInv, Entered, Remembered, NamedKnown, InUse
<1>12. \A n : /\ Moving(n)' <=> n = m
              /\ Alone(n)' => Alone(n) \/ n = m
    BY <1>1, <1>2, <1>5, <1>9 DEF Moving, Alone
<1>13. Single'
    <2>1. ASSUME NEW a \in Infos, NEW b \in Infos, info'[a] # Free, info'[b] # Free,
                 info'[a][1] = info'[b][1],
                 Library(info'[a][2]) = Library(info'[b][2]),
                 Alone(Library(info[a][2]))'
          PROVE  a = b
        <3>1. PICK n : n = Library(info[a][2])
            OBVIOUS
        <3>2. Library(info'[a][2]) = n /\ n # m
            BY <1>6, <1>7, <2>1, <3>1
        <3>3. Alone(n)'
            BY <2>1, <3>2 DEF Alone, Moving, Held, Holds, Library
        <3>4. Alone(Library(info[a][2]))
            BY <1>12, <3>1, <3>2, <3>3 DEF Alone, Moving, Held, Holds
        <3> QED BY <1>6, <2>1, <3>4 DEF IInv, Entered, Single
    <2> QED BY <2>1 DEF Single, InUse
<1>14. Emptied'
    <2>1. \A a \in Infos : info'[a] # Free => Library(info'[a][2]) # m
        BY <1>6, <1>7
    <2>2. ASSUME NEW w \in Workers, Moving(Library(loading[w]))'
          PROVE  Library(loading'[w]) = m
        BY <1>5, <2>2 DEF Moving, Library
    <2> QED BY <2>1, <2>2 DEF Emptied, InUse, Library
<1>15. OpenIsMapped'
    BY <1>1 DEF IInv, Entered, OpenIsMapped
<1>16. Budget'
    <2>1. ASSUME NEW n \in Modules
          PROVE  mapped'[n] + Len(waiting')
                     + (IF pc'[Console] = "move" THEN 1 ELSE 0) <= ops' + 1
        <3>1. /\ mapped[n] \in Nat /\ Len(waiting) \in Nat
              /\ mapped[n] + Len(waiting)
                     + (IF pc[Console] = "move" THEN 1 ELSE 0) <= ops + 1
            BY <1>0, CountType DEF IInv, Entered, Budget
        <3> QED BY <1>1, <1>2, <1>3, <3>1
    <2> QED BY <2>1 DEF Budget
<1>17. TypeOK'
    BY <1>0, <1>1, <1>2, <1>3, <1>4, <1>5, <1>6 DEF TypeOK, Items
<1> QED BY <1>9, <1>10, <1>11, <1>13, <1>14, <1>15, <1>16, <1>17 DEF IInv, Entered

LEMMA MovePreserves ==
    ASSUME IInv, Move PROVE IInv'
<1> USE DEF Move
<1>0. TypeOK /\ Counted /\ Console \in Senders /\ Unlocked
    BY ConsoleSends DEF IInv
<1>1. UNCHANGED <<info, clients, refs, mapped, index, named, ops, target, sent,
                  loading, queue, copy, pending, todo, running, messages,
                  collided, due, skipped>>
    BY DEF console, sending, calls, history
<1>2. /\ pc' \in [Senders -> Points]
      /\ pc[Console] = "move" /\ pc'[Console] = "index"
      /\ \A s \in Senders \ {Console} : pc'[s] = pc[s]
    BY <1>0 DEF TypeOK, Points, Step
<1>3. PICK m \in Modules : m = named.module /\ named \in Items
    BY <1>2 DEF IInv, Entered, NamedKnown, Items
<1>4. /\ waiting \in Seq(Items) /\ modules' = modules \ {m}
      /\ m \in modules => waiting' = Append(waiting, named)
      /\ m \notin modules => waiting' = waiting
    BY <1>0, <1>3 DEF TypeOK, Items
<1>5. /\ waiting' \in Seq(Items) /\ Len(waiting') \in Nat /\ Len(waiting) \in Nat
      /\ Len(waiting') <= Len(waiting) + 1
    BY <1>3, <1>4
<1>6. ASSUME NEW n \in Modules
      PROVE  /\ Waits(waiting, n) \in Nat /\ Waits(waiting', n) \in Nat
             /\ Has(n) \in {0, 1} /\ Has(n)' \in {0, 1}
             /\ Waits(waiting', n) + Has(n)' = Waits(waiting, n) + Has(n)
    <2>1. /\ Waits(waiting, n) \in Nat
          /\ Waits(Append(waiting, named), n)
                 = Waits(waiting, n) + (IF m = n THEN 1 ELSE 0)
        BY <1>3, <1>4, WaitsType, WaitsAppend
    <2>2. CASE m \in modules
        <3>1. waiting' = Append(waiting, named)
            BY <1>4, <2>2
        <3>2. Waits(waiting', n) = Waits(waiting, n) + (IF m = n THEN 1 ELSE 0)
            BY <2>1, <3>1
        <3> QED BY <1>4, <2>1, <2>2, <3>2 DEF Has
    <2>3. CASE m \notin modules
        <3>1. waiting' = waiting /\ modules' = modules
            BY <1>4, <2>3
        <3> QED BY <2>1, <3>1 DEF Has
    <2> QED BY <2>2, <2>3
<1>7. \A s \in Senders : pc[s] \notin Loading /\ pc'[s] \notin Loading
    <2>1. \A s \in Senders \ {Console} : pc[s] \notin Loading
        BY <1>0, UnlockedIdle
    <2> QED BY <1>2, <2>1 DEF Loading
<1>8. /\ \A s \in Senders : \A n : /\ ~Holds(s, n) /\ ~Holds(s, n)'
                                   /\ Phase(s, n) = "none" /\ Phase(s, n)' = "none"
      /\ \A n : ~Held(n) /\ ~Held(n)'
    BY <1>7 DEF Holds, Held, Phase, Loading
<1>9. Counted'
    <2>1. OneLoader' /\ Opened' /\ Registering'
        BY <1>7, ConsoleApart DEF OneLoader, Opened, Registering, Loading
    <2>2. Enough'
        <3>1. \A n \in Modules : refs[n] >= Waits(waiting, n) + Has(n) /\ refs[n] \in Nat
            BY <1>0, EnoughOpen, CountType DEF Counted
        <3>2. \A n \in Modules : Need("none", "none", Has(n)') = Has(n)'
            BY DEF Need
        <3>3. \A n \in Modules : refs'[n] >= Waits(waiting', n) + Has(n)'
            BY <1>1, <1>6, <3>1
        <3>4. \A n \in Modules :
                 refs'[n] >= Waits(waiting', n) + Need("none", "none", Has(n)')
            BY <3>2, <3>3
        <3> QED BY <1>8, <3>4 DEF Enough
    <2>3. Exact'
        <3>1. \A n \in Modules \ collided : refs[n] = Waits(waiting, n) + Has(n)
            <4>1. ASSUME NEW n \in Modules \ collided
                  PROVE  refs[n] = Waits(waiting, n) + Has(n)
                <5>1. refs[n] = Waits(waiting, n) + Has(n) + (IF Held(n) THEN 1 ELSE 0)
                    BY <1>0 DEF Counted, Exact
                <5>2. ~Held(n)
                    BY <1>8
                <5> QED BY <1>6, <5>1, <5>2
            <4> QED BY <4>1
        <3>2. \A n \in Modules \ collided' :
                 refs'[n] = Waits(waiting', n) + Has(n)' + (IF Held(n)' THEN 1 ELSE 0)
            <4>1. ASSUME NEW n \in Modules \ collided'
                  PROVE  refs'[n] = Waits(waiting', n) + Has(n)'
                                        + (IF Held(n)' THEN 1 ELSE 0)
                <5>1. refs'[n] = Waits(waiting', n) + Has(n)'
                    BY <1>1, <1>6, <3>1
                <5>2. ~Held(n)'
                    BY <1>8
                <5> QED BY <1>6, <5>1, <5>2
            <4> QED BY <4>1
        <3> QED BY <1>8, <3>2 DEF Exact
    <2> QED BY <2>1, <2>2, <2>3 DEF Counted
<1>10. RegisteredMapped' /\ Remembered' /\ NamedKnown'
    BY <1>1, <1>2 DEF IInv, Entered, RegisteredMapped, Registered, Remembered,
                      NamedKnown, InUse, Mapped
<1>11. \A n : Alone(n)' => Alone(n)
    BY <1>1, <1>2, <1>3, <1>4, <1>8 DEF Alone, Moving
<1>12. Single'
    <2>1. \A a \in InUse : Alone(Library(info[a][2]))' => Alone(Library(info[a][2]))
        BY <1>11 DEF Alone, Moving, Held, Holds
    <2> QED BY <1>1, <2>1 DEF IInv, Entered, Single, InUse
<1>13. Emptied'
    BY <1>2 DEF Emptied, Moving
<1>14. OpenIsMapped'
    BY <1>1 DEF IInv, Entered, OpenIsMapped
<1>15. Budget'
    <2>1. ASSUME NEW n \in Modules
          PROVE  mapped'[n] + Len(waiting')
                     + (IF pc'[Console] = "move" THEN 1 ELSE 0) <= ops' + 1
        <3>1. /\ mapped[n] \in Nat /\ ops \in Nat
              /\ mapped[n] + Len(waiting)
                     + (IF pc[Console] = "move" THEN 1 ELSE 0) <= ops + 1
            BY <1>0, CountType DEF IInv, Entered, Budget
        <3> QED BY <1>1, <1>2, <1>5, <3>1
    <2> QED BY <2>1 DEF Budget
<1>16. TypeOK'
    BY <1>0, <1>1, <1>2, <1>4, <1>5 DEF TypeOK, Items
<1> QED BY <1>9, <1>10, <1>12, <1>13, <1>14, <1>15, <1>16 DEF IInv, Entered

-----------------------------------------------------------------------------
(* The invariant. *)

LEMMA InitIInv == Init => IInv
<1> SUFFICES ASSUME Init PROVE IInv
    OBVIOUS
<1> USE DEF Init
<1>1. MaxOps \in Nat /\ WorkerCount \in Nat \ {0} /\ MaxMessages \in Nat
    BY NumberAssumption
<1>2. \A x \in AtStart : /\ x[1] \in Commands /\ x[2][1] \in Loaded /\ x[2][2] = 1
                         /\ x = <<x[1], <<x[2][1], 1>>>>
                         /\ x[1] \in Subscribes[x[2][1]]
    BY ModuleAssumption DEF AtStart
<1>3. AtStart \subseteq Commands \X Objects
    BY <1>1, <1>2, ModuleAssumption DEF Objects
<1>4. \A a \in InUse : a \in Infos /\ info[a] \in AtStart
    BY DEF InUse
<1>5. /\ refs \in [Modules -> Nat] /\ mapped = refs
      /\ \A m \in Modules : refs[m] = (IF m \in Loaded THEN 1 ELSE 0)
    OBVIOUS
<1>6. TypeOK
    <2>1. mapped \in [Modules -> 0 .. MaxOps + 1]
        BY <1>1, <1>5
    <2>2. copy \in [Workers -> SUBSET (Commands \X Objects)]
        BY <1>3, <1>4 DEF Registered
    <2>3. info \in [Infos -> (Commands \X Objects) \cup {Free}]
        BY <1>3
    <2>4. target \in [Senders -> Workers]
        BY <1>1 DEF Workers
    <2>5. clients \in [Modules -> SUBSET Infos] /\ modules \in SUBSET Modules
        BY ModuleAssumption DEF InUse
    <2>6. pc \in [Senders -> Points]
        BY DEF Points
    <2> QED BY <1>1, <1>5, <2>1, <2>2, <2>3, <2>4, <2>5, <2>6 DEF TypeOK
<1>7. \A s \in Senders : pc[s] = "idle" /\ pc[s] \notin Loading
    BY DEF Loading
<1>8. /\ \A s \in Senders : \A m : ~Holds(s, m) /\ Phase(s, m) = "none"
      /\ \A m : ~Held(m)
    BY <1>7 DEF Holds, Phase, Held, Loading
<1>9. Counted
    <2>1. OneLoader /\ Opened /\ Registering
        BY <1>7, ConsoleApart DEF OneLoader, Opened, Registering, Loading
    <2>2. \A m \in Modules : /\ refs[m] = Waits(waiting, m) + Has(m)
                             /\ Waits(waiting, m) = 0 /\ Has(m) \in {0, 1}
        BY <1>5, WaitsEmpty DEF Has
    <2>3. \A m \in Modules : Need("none", "none", Has(m)) = Has(m)
        BY DEF Need
    <2>4. Enough
        <3>1. \A m \in Modules :
                 refs[m] >= Waits(waiting, m) + Need("none", "none", Has(m))
            BY <2>2, <2>3
        <3> QED BY <1>8, <3>1 DEF Enough
    <2>5. Exact
        <3>1. \A m \in Modules :
                 refs[m] = Waits(waiting, m) + Has(m) + (IF Held(m) THEN 1 ELSE 0)
            BY <1>8, <2>2
        <3> QED BY <1>8, <3>1 DEF Exact
    <2> QED BY <2>1, <2>4, <2>5 DEF Counted
<1>10. RegisteredMapped
    BY <1>2, <1>4, <1>5, ModuleAssumption DEF RegisteredMapped, Registered, Mapped, Library
<1>11. Remembered
    BY <1>2, <1>4, ModuleAssumption DEF Remembered, Library
<1>12. NamedKnown /\ OpenIsMapped
    BY <1>5, ConsoleSends DEF NamedKnown, OpenIsMapped
<1>13. Single
    <2>1. ASSUME NEW a \in InUse, NEW b \in InUse, info[a][1] = info[b][1],
                 Library(info[a][2]) = Library(info[b][2])
          PROVE  a = b
        <3>1. info[a] = info[b] /\ info[a] \in AtStart
            BY <1>2, <1>4, <2>1 DEF Library
        <3> QED BY <1>4, <3>1
    <2> QED BY <2>1 DEF Single
<1>14. Emptied
    BY <1>7, ConsoleSends DEF Emptied, Moving
<1>15. Budget
    BY <1>1, <1>5, ConsoleSends DEF Budget
<1> QED BY <1>6, <1>9, <1>10, <1>11, <1>12, <1>13, <1>14, <1>15 DEF IInv, Entered

LEMMA StutterPreserves == IInv /\ UNCHANGED vars => IInv'
<1> SUFFICES ASSUME IInv, UNCHANGED vars PROVE IInv'
    OBVIOUS
<1>1. UNCHANGED <<info, clients, modules, refs, mapped, waiting, index, named,
                  ops, target, sent, loading, pc, queue, copy, pending, todo,
                  running, messages, collided, due, skipped>>
    BY DEF vars, loader, console, sending, calls, history
<1>2. TypeOK'
    BY <1>1 DEF IInv, TypeOK
<1>3. ops \in Nat
    BY NumberAssumption DEF IInv, TypeOK
<1>4. Counted' /\ Entered'
    BY <1>1, <1>3, SameHeld DEF loader, Calm
<1> QED BY <1>2, <1>4 DEF IInv

LEMMA LoadModulePreserves ==
    ASSUME IInv, NEW s \in Senders, LoadModule(s) PROVE IInv'
    BY FindPreserves, RetirePreserves, ListPreserves, ListRefusedPreserves,
       RegisterPreserves DEF LoadModule

LEMMA WorkPreserves ==
    ASSUME IInv, NEW w \in Workers, Work(w) PROVE IInv'
<1>1. w \in Senders
    BY ConsoleApart
<1> QED BY <1>1, TakePreserves, UnloadPreserves, ReloadPreserves,
           NoneWaitingPreserves, LoadModulePreserves, RenotifyPreserves,
           PutUpdatePreserves, CopyBeginPreserves, CopyListPreserves,
           CopyEndPreserves, TakeMessagePreserves, CallPreserves,
           ReturnPreserves DEF Work

LEMMA NextPreserves == IInv /\ [Next]_vars => IInv'
<1> SUFFICES ASSUME IInv, [Next]_vars PROVE IInv'
    OBVIOUS
<1>1. ASSUME NEW m \in Modules,
             Load(m) \/ DoMessage_UnLoadModule(m) \/ DoMessage_ReLoadModule(m)
      PROVE  IInv'
    BY <1>1, LoadPreserves, ReleasePreserves, ReleaseUnknownPreserves
       DEF DoMessage_UnLoadModule, DoMessage_ReLoadModule
<1>2. CASE ConsoleStep
    BY <1>2, LoadModulePreserves, MovePreserves, SetIndexPreserves,
       PutUpdatePreserves, ConsoleSends DEF ConsoleStep
<1>3. ASSUME NEW w \in Workers, NEW c \in Commands, PutMessage(w, c)
      PROVE  IInv'
    BY <1>3, PutMessagePreserves
<1>4. ASSUME NEW w \in Workers, Work(w)
      PROVE  IInv'
    BY <1>4, WorkPreserves
<1>5. CASE UNCHANGED vars
    BY <1>5, StutterPreserves
<1> QED BY <1>1, <1>2, <1>3, <1>4, <1>5 DEF Next

LEMMA Invariance == Spec => []IInv
    BY InitIInv, NextPreserves, PTL DEF Spec

\* How many hold the library of m, when nobody does or one alone.
LEMMA HoldersCount ==
    ASSUME NEW m
    PROVE  /\ Holders(m) = {} <=> ~Held(m)
           /\ \A s \in Senders :
                 /\ Holds(s, m) /\ (\A x \in Senders : Holds(x, m) => x = s)
                 => Cardinality(Holders(m)) = 1
<1>1. Holders(m) = {} <=> ~Held(m)
    BY DEF Holders, Held
<1>2. ASSUME NEW s \in Senders, Holds(s, m), \A x \in Senders : Holds(x, m) => x = s
      PROVE  Cardinality(Holders(m)) = 1
    <2>1. Holders(m) = {s}
        BY <1>2 DEF Holders
    <2> QED BY <2>1, FS_Singleton
<1> QED BY <1>1, <1>2

\* The loader, the console and the workers stay well typed; in particular a
\* library is mapped no more often than the console has given commands, plus
\* once at the start.
THEOREM TypeCorrect == Spec => []TypeOK
<1>1. IInv => TypeOK
    BY DEF IInv
<1> QED BY <1>1, Invariance, PTL

\* CLoadModule closes every library as often as it opens it: the table, the
\* waiting list and a load under way own what is open, one each.  A reload in
\* the middle of a console load of the same module may leave the library open
\* once too often (m is in collided), but never closes it under an owner.
THEOREM LibrariesOwnedOnce == Spec => []OpenOnce
<1>1. ASSUME IInv PROVE OpenOnce
    <2>1. ASSUME NEW m \in Modules
          PROVE  /\ m \notin collided => refs[m] = Owners(m) + Cardinality(Holders(m))
                 /\ Holders(m) = {} => refs[m] >= Owners(m)
        <3>1. /\ Owners(m) = Has(m) + Waits(waiting, m)
              /\ Has(m) \in {0, 1} /\ Waits(waiting, m) \in Nat /\ refs[m] \in Nat
            BY <1>1, Listed, CountType DEF Owners, Has, Waits, Places, IInv
        <3>2. refs[m] >= Waits(waiting, m) + Has(m)
            BY <1>1, EnoughOpen DEF IInv, Counted
        <3>3. m \notin collided => refs[m] = Owners(m) + Cardinality(Holders(m))
            <4> SUFFICES ASSUME m \notin collided
                         PROVE  refs[m] = Owners(m) + Cardinality(Holders(m))
                OBVIOUS
            <4>1. /\ refs[m] = Waits(waiting, m) + Has(m) + (IF Held(m) THEN 1 ELSE 0)
                  /\ \A s \in Senders : Holds(s, m) =>
                        \A x \in Senders : Holds(x, m) => x = s
                BY <1>1 DEF IInv, Counted, Exact
            <4>2. CASE Held(m)
                <5>1. Cardinality(Holders(m)) = 1
                    BY <4>1, <4>2, HoldersCount DEF Held
                <5> QED BY <3>1, <4>1, <4>2, <5>1
            <4>3. CASE ~Held(m)
                <5>1. Cardinality(Holders(m)) = 0
                    BY <4>3, HoldersCount, FS_EmptySet
                <5> QED BY <3>1, <4>1, <4>3, <5>1
            <4> QED BY <4>2, <4>3
        <3> QED BY <3>1, <3>2, <3>3
    <2> QED BY <2>1 DEF OpenOnce
<1> QED BY <1>1, Invariance, PTL

\* The manager's lists never lead into a library that is closed, although
\* UnloadModuleCommand and UnLoadModuleData each remove only a part of the
\* entries, by address and by object, and the table may by then list the
\* module again, or refuse to.
THEOREM ListsLeadToMapped == Spec => []RegisteredMapped
<1>1. IInv => RegisteredMapped
    BY DEF IInv, Entered
<1> QED BY <1>1, Invariance, PTL
=============================================================================
