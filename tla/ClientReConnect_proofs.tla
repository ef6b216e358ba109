------------------------- MODULE ClientReConnect_proofs -------------------------
(***************************************************************************)
(* Proofs about ClientReConnect, for any servers, records, clients and     *)
(* modules.  OnlyTimerDisturbs rests on who holds the manager's lock       *)
(* (ManagerHeld).  OwnClient and CallerSafe rest, as long as no Run has    *)
(* been disturbed, on what the threads that make clients know of them      *)
(* (MakersKnown), on each having one of its own (MakersApart), and on the  *)
(* reactor seeing opened clients only (Alive).                             *)
(***************************************************************************)
EXTENDS ClientReConnect, TLAPS

\* A listed record was made for its server; one that was not made yet has no
\* client.
RecordsKnown ==
    /\ \A s \in Servers :
        listed[s] # Nil => listed[s] \in used /\ serves[listed[s]] = s
    /\ \A i \in Infos : i \notin used => client[i] = Nil
    /\ \A i \in used : serves[i] \in Servers

\* What a thread has fetched by the time it uses it.
ThreadsKnown ==
    \A t \in Threads :
        /\ op[t] # Nil => server[t] \in Servers
        /\ pc[t] \in {"run", "new"} \cup Dialling => record[t] \in used
        /\ pc[t] \in {"refused", "send", "shut"} \cup Opening => hand[t] \in Clients

ReactorKnown ==
    /\ pc[Reactor] # "idle" => upcall \in Clients
    /\ todo \subseteq used

\* A caller holds the manager's lock from its entry to its return.
ManagerHeld ==
    \A t \in Threads :
        \/ pc[t] \in {"send", "shut"}
        \/ t \in Callers /\ pc[t] \in InsideRun
        => manager = t

\* The reactor knows only clients that were opened, and those have a number.
Alive ==
    ~disturbed =>
        /\ \A c \in Clients :
            /\ watch[c] # {} => life[c] \in {"open", "deaf"}
            /\ life[c] \in {"open", "deaf"} => home[c] \in Servers
        /\ pc[Reactor] # "idle" => life[upcall] \in {"open", "deaf"}

\* A thread makes a client from the new to its registration.
Making == Dialling \cup {"refused", "open", "message", "register"}

Held(t) == IF pc[t] \in Dialling THEN client[record[t]] ELSE hand[t]

\* The client is not known to the reactor.  It has the number of the record
\* once that is set, and before that no other listed record points to it.
KnowsClient(t) ==
    /\ Held(t) \in Clients
    /\ pc[t] \in Dialling \cup {"refused", "open"} => life[Held(t)] = "new"
    /\ pc[t] \in {"message", "register"} =>
        /\ life[Held(t)] \in {"open", "deaf"} /\ watch[Held(t)] = {}
        /\ pc[Reactor] # "idle" => upcall # Held(t)
    /\ pc[t] # "number" => home[Held(t)] \in Servers
    /\ pc[t] \in Dialling =>
        \A s \in Servers :
            listed[s] # Nil /\ client[listed[s]] = Held(t) => listed[s] = record[t]

MakersKnown == ~disturbed => \A t \in Threads : pc[t] \in Making => KnowsClient(t)

MakersApart ==
    ~disturbed =>
        \A t, u \in Threads :
            t # u /\ pc[t] \in Making /\ pc[u] \in Making => Held(t) # Held(u)

IInv ==
    /\ TypeOK
    /\ RecordsKnown
    /\ ThreadsKnown
    /\ ReactorKnown
    /\ ManagerHeld
    /\ Alive
    /\ MakersKnown
    /\ MakersApart
    /\ OwnClient
    /\ CallerSafe

\* A step of a thread that makes no client, or makes it no longer, and that
\* leaves clients and pointers alone.
Quiet(t) ==
    /\ pc' = [pc EXCEPT ![t] = pc'[t]] /\ pc'[t] \notin Making
    /\ \A u \in Threads \ {t} : hand'[u] = hand[u] /\ record'[u] = record[u]
    /\ UNCHANGED <<client, life, home, disturbed>>
    /\ \A s \in Servers : listed'[s] \in {listed[s], Nil} \/ client[listed'[s]] = Nil
    /\ \A c \in Clients : watch[c] = {} => watch'[c] = {}
    /\ \/ pc'[Reactor] = "idle"
       \/ upcall' = upcall /\ pc[Reactor] # "idle"
       \/ upcall' \in Clients /\ watch[upcall'] # {}

Clean == Alive /\ MakersKnown /\ MakersApart /\ OwnClient

\* Such a step disturbs nothing.
LEMMA QuietPreserves ==
    ASSUME IInv, NEW t \in Threads, Quiet(t)
    PROVE  Clean'
<1>1. CASE disturbed
    BY <1>1 DEF Quiet, Clean, Alive, MakersKnown, MakersApart, OwnClient
<1>2. CASE ~disturbed
    <2>1. \A u \in Threads : pc'[u] \in Making =>
              /\ u # t /\ pc'[u] = pc[u] /\ hand'[u] = hand[u] /\ record'[u] = record[u]
              /\ Held(u)' = Held(u)
        BY DEF IInv, TypeOK, Quiet, Held
    <2>2. Alive'
        BY <1>2 DEF IInv, TypeOK, Quiet, Alive, ReactorKnown
    <2>3. MakersKnown'
        <3> SUFFICES ASSUME NEW u \in Threads, pc'[u] \in Making
                     PROVE  KnowsClient(u)'
            BY DEF MakersKnown
        <3>1. KnowsClient(u) /\ pc'[u] = pc[u] /\ record'[u] = record[u] /\ Held(u)' = Held(u)
            BY <1>2, <2>1 DEF IInv, MakersKnown
        <3>2. Held(u) \in Clients
            BY <3>1 DEF KnowsClient
        <3>3. pc[u] \in {"message", "register"} /\ pc'[Reactor] # "idle" => upcall' # Held(u)
            BY <3>1, <3>2 DEF Quiet, KnowsClient
        <3>4. pc[u] \in {"message", "register"} => watch'[Held(u)] = {}
            BY <3>1, <3>2 DEF Quiet, KnowsClient
        <3>5. pc[u] \in Dialling =>
                 \A s \in Servers :
                    listed'[s] # Nil /\ client[listed'[s]] = Held(u) => listed'[s] = record[u]
            BY <3>1, <3>2, NilAssumption DEF Quiet, KnowsClient
        <3>6. UNCHANGED <<client, life, home>>
            BY DEF Quiet
        <3> HIDE DEF Held, Dialling
        <3> QED BY <3>1, <3>3, <3>4, <3>5, <3>6 DEF KnowsClient
    <2>4. MakersApart'
        BY <1>2, <2>1 DEF IInv, MakersApart
    <2>5. OwnClient'
        BY <1>2 DEF IInv, TypeOK, Quiet, OwnClient
    <2> QED BY <2>2, <2>3, <2>4, <2>5 DEF Clean
<1> QED BY <1>1, <1>2

\* What a return does to the thread that returns.
LEMMA ReturnEffect ==
    ASSUME TypeOK, NEW t \in Threads, Return(t)
    PROVE  /\ pc' = [pc EXCEPT ![t] = pc'[t]] /\ pc'[t] \in {"idle", "recv", "tick"}
           /\ op' = [op EXCEPT ![t] = Nil]
           /\ server' = [server EXCEPT ![t] = Nil]
           /\ record' = [record EXCEPT ![t] = Nil]
           /\ hand' = [hand EXCEPT ![t] = Nil]
           /\ t = Timer => manager' = manager
           /\ t # Timer => manager' = Nil
           /\ t = Reactor => pc'[t] = "recv"
    BY ThreadAssumption DEF TypeOK, Return, Go, Callers, Threads

\* A return, after a step that at most takes records from the list and touches
\* what is in the queues of clients.
LEMMA ReturnPreserves ==
    ASSUME IInv, NEW t \in Threads, Return(t), pc[t] # "idle",
           t # Timer => manager \in {Nil, t},
           UNCHANGED <<used, serves, client, disturbed, life, home, owner, upcall, todo,
                       bounds>>,
           listed' \in [Servers -> Infos \cup {Nil}],
           \A s \in Servers : listed'[s] \in {listed[s], Nil},
           state' \in [Infos -> {"READY", "OK", "FAIL"}],
           closing' \in [Clients -> BOOLEAN],
           out' \in [Clients -> Seq({Data, Stop})],
           watch' \in [Clients -> SUBSET {"read", "write"}],
           \A c \in Clients : watch[c] = {} => watch'[c] = {}
    PROVE  IInv'
<1> USE ThreadAssumption, NilAssumption DEF Callers, Threads
<1>a. TypeOK
    BY DEF IInv
<1>0. /\ pc' = [pc EXCEPT ![t] = pc'[t]] /\ pc'[t] \in {"idle", "recv", "tick"}
      /\ op' = [op EXCEPT ![t] = Nil]
      /\ server' = [server EXCEPT ![t] = Nil]
      /\ record' = [record EXCEPT ![t] = Nil]
      /\ hand' = [hand EXCEPT ![t] = Nil]
      /\ t = Timer => manager' = manager
      /\ t # Timer => manager' = Nil
      /\ t = Reactor => pc'[t] = "recv"
    BY <1>a, ReturnEffect
<1>1. TypeOK'
    <2>1. /\ pc' \in [Threads -> Points]
          /\ op' \in [Threads -> Operations \cup {Nil}]
          /\ server' \in [Threads -> Servers \cup {Nil}]
          /\ record' \in [Threads -> Infos \cup {Nil}]
          /\ hand' \in [Threads -> Clients \cup {Nil}]
        BY <1>a, <1>0 DEF TypeOK, Points
    <2>2. manager' \in Callers \cup {Nil, Timer}
        BY <1>a, <1>0 DEF TypeOK
    <2> QED BY <1>a, <2>1, <2>2 DEF TypeOK, bounds
<1>2. RecordsKnown'
    BY DEF IInv, RecordsKnown
<1>3. ThreadsKnown'
    BY <1>0 DEF IInv, TypeOK, ThreadsKnown, Dialling, Opening
<1>4. ReactorKnown'
    BY <1>0 DEF IInv, TypeOK, ReactorKnown
<1>5. ManagerHeld'
    BY <1>0 DEF IInv, TypeOK, ManagerHeld, InsideRun, Dialling, Opening
<1>6. Clean'
    <2>1. pc'[t] \notin Making
        BY <1>0 DEF Making, Dialling
    <2>2. \A u \in Threads \ {t} : hand'[u] = hand[u] /\ record'[u] = record[u]
        BY <1>a, <1>0 DEF TypeOK
    <2>3. pc[Reactor] # "idle" \/ pc'[Reactor] = "idle"
        BY <1>a, <1>0 DEF TypeOK
    <2> QED BY <1>0, <2>1, <2>2, <2>3, QuietPreserves DEF Quiet
<1>7. CallerSafe'
    BY <1>0 DEF IInv, TypeOK, CallerSafe
<1> QED BY <1>1, <1>2, <1>3, <1>4, <1>5, <1>6, <1>7 DEF IInv, Clean

\* What is left of a queue is a queue.
LEMMA SendTakes ==
    ASSUME IInv, SendOne \/ SendFails
    PROVE  out' \in [Clients -> Seq({Data, Stop})]
<1>1. upcall \in Clients /\ out \in [Clients -> Seq({Data, Stop})]
    BY DEF IInv, TypeOK, ReactorKnown, SendOne, SendFails
<1>2. out[upcall] # << >> /\ out' = [out EXCEPT ![upcall] = Tail(@)]
    BY DEF SendOne, SendFails
<1>3. out[upcall] \in Seq({Data, Stop})
    BY <1>1
<1>4. Tail(out[upcall]) \in Seq({Data, Stop})
    BY <1>2, <1>3
<1> QED BY <1>1, <1>2, <1>4

\* A wakeup leaves the masks of events what they are, and is none for a client
\* that is not watched.
LEMMA WakeupType ==
    ASSUME TypeOK, NEW c \in Clients
    PROVE  /\ Wakeup(c) \in [Clients -> SUBSET {"read", "write"}]
           /\ \A d \in Clients : watch[d] = {} => Wakeup(c)[d] = {}
    BY DEF TypeOK, Wakeup

USE ThreadAssumption, NilAssumption DEF records, clients, locks, threads, bounds, Go,
    Callers, Threads, Points, InsideRun, Dialling, Opening, Making

\* What a step of a thread does not change for the other threads that make
\* clients.
Beside(t) ==
    /\ pc' = [pc EXCEPT ![t] = pc'[t]]
    /\ \A u \in Threads \ {t} : hand'[u] = hand[u] /\ record'[u] = record[u]
    /\ listed' = listed
    /\ pc'[Reactor] # "idle" => pc[Reactor] # "idle" /\ upcall' = upcall
    /\ \A u \in Threads \ {t} : pc[u] \in Making =>
        /\ pc[u] \in Dialling => client'[record[u]] = client[record[u]]
        /\ life'[Held(u)] = life[Held(u)] /\ home'[Held(u)] = home[Held(u)]
        /\ watch[Held(u)] = {} => watch'[Held(u)] = {}
        /\ \A i \in Infos : client'[i] = client[i] \/ client'[i] # Held(u)

\* They still make what they made, and so does the thread itself if it makes one
\* that nobody else has.
LEMMA BesidePreserves ==
    ASSUME IInv, ~disturbed, NEW t \in Threads, Beside(t),
           pc'[t] \in Making => KnowsClient(t)',
           pc'[t] \in Making =>
               \A u \in Threads \ {t} : pc[u] \in Making => Held(t)' # Held(u)
    PROVE  MakersKnown' /\ MakersApart'
<1>1. ASSUME NEW u \in Threads, u # t, pc'[u] \in Making
      PROVE  pc[u] \in Making /\ Held(u)' = Held(u) /\ KnowsClient(u)'
    <2>1. /\ pc'[u] = pc[u] /\ pc[u] \in Making /\ hand'[u] = hand[u]
          /\ record'[u] = record[u]
        BY <1>1 DEF Beside, IInv, TypeOK
    <2>2. KnowsClient(u)
        BY <2>1 DEF IInv, MakersKnown
    <2>3. Held(u)' = Held(u)
        BY <1>1, <2>1 DEF Beside, Held
    <2>4. /\ life'[Held(u)] = life[Held(u)] /\ home'[Held(u)] = home[Held(u)]
          /\ watch[Held(u)] = {} => watch'[Held(u)] = {}
          /\ \A i \in Infos : client'[i] = client[i] \/ client'[i] # Held(u)
          /\ listed' = listed
          /\ pc'[Reactor] # "idle" => pc[Reactor] # "idle" /\ upcall' = upcall
        BY <1>1, <2>1 DEF Beside
    <2>5. listed \in [Servers -> Infos \cup {Nil}]
        BY DEF IInv, TypeOK
    <2>6. pc[u] \in Dialling =>
              \A s \in Servers :
                 listed'[s] # Nil /\ client'[listed'[s]] = Held(u) => listed'[s] = record[u]
        BY <2>2, <2>4, <2>5 DEF KnowsClient
    <2> HIDE DEF Held
    <2>7. KnowsClient(u)'
        BY <2>1, <2>2, <2>3, <2>4, <2>6 DEF KnowsClient
    <2> QED BY <2>1, <2>3, <2>7
<1>2. MakersKnown'
    BY <1>1 DEF MakersKnown
<1>3. MakersApart'
    <2> SUFFICES ASSUME NEW u \in Threads, NEW v \in Threads, u # v,
                        pc'[u] \in Making, pc'[v] \in Making
                 PROVE  Held(u)' # Held(v)'
        BY DEF MakersApart
    <2>1. CASE u # t /\ v # t
        BY <1>1, <2>1 DEF IInv, MakersApart
    <2>2. CASE u = t
        BY <1>1, <2>2
    <2>3. CASE v = t
        BY <1>1, <2>3
    <2> QED BY <2>1, <2>2, <2>3
<1> QED BY <1>2, <1>3

\* A call begins: its server is one of the servers.
LEMMA CallPreserves ==
    ASSUME IInv, NEW t \in Callers, NEW o \in Operations, NEW s \in Servers, Call(t, o, s)
    PROVE  IInv'
<1> USE DEF Call
<1>1. TypeOK'
    <2>1. ops' \in 0 .. MaxOps
        BY BoundAssumption DEF IInv, TypeOK
    <2> QED BY <2>1 DEF IInv, TypeOK, ThreadsKnown
<1>2. RecordsKnown'
    BY DEF IInv, TypeOK, RecordsKnown, ThreadsKnown
<1>3. ThreadsKnown'
    BY DEF IInv, TypeOK, RecordsKnown, ThreadsKnown, ReactorKnown
<1>4. ReactorKnown'
    BY DEF IInv, TypeOK, RecordsKnown, ReactorKnown
<1>5. ManagerHeld'
    BY DEF IInv, TypeOK, ManagerHeld
<1>6. Clean'
    <2>1. Quiet(t)
        BY DEF IInv, TypeOK, ReactorKnown, Quiet
    <2> QED BY <2>1, QuietPreserves
<1>7. CallerSafe'
    BY DEF IInv, TypeOK, ThreadsKnown, ManagerHeld, OwnClient, CallerSafe
<1> QED BY <1>1, <1>2, <1>3, <1>4, <1>5, <1>6, <1>7 DEF IInv, Clean

\* A new record is listed for the server of the call, or nothing happens.
LEMMA ConnectPreserves ==
    ASSUME IInv, NEW t \in Callers, Connect(t)
    PROVE  IInv'
<1> USE DEF Connect, Enter, Managing
<1>1. CASE Return(t) /\ UNCHANGED records
    BY <1>1, ReturnPreserves DEF IInv, TypeOK
<1>2. CASE listed[server[t]] = Nil /\ Go(t, "run")
    <2>1. PICK i \in Infos \ used :
              /\ used' = used \cup {i}
              /\ serves' = [serves EXCEPT ![i] = server[t]]
              /\ listed' = [listed EXCEPT ![server[t]] = i]
              /\ record' = [record EXCEPT ![t] = i]
        BY <1>2 DEF Return
    <2>2. /\ pc' = [pc EXCEPT ![t] = "run"] /\ manager' = t
          /\ UNCHANGED <<client, state, disturbed, op, server, hand>>
          /\ UNCHANGED <<clients, owner, upcall, todo, bounds>>
          /\ pc[t] = "enter" /\ manager \in {Nil, t} /\ server[t] \in Servers
        BY <1>2 DEF IInv, ThreadsKnown, Operations, Go, Return
    <2>3. TypeOK'
        BY <2>1, <2>2 DEF IInv, TypeOK
    <2>4. RecordsKnown'
        BY <2>1, <2>2 DEF IInv, TypeOK, RecordsKnown
    <2>5. ThreadsKnown'
        BY <2>1, <2>2 DEF IInv, TypeOK, ThreadsKnown
    <2>6. ReactorKnown'
        BY <2>1, <2>2 DEF IInv, TypeOK, ReactorKnown
    <2>7. ManagerHeld'
        BY <2>1, <2>2 DEF IInv, TypeOK, ManagerHeld
    <2>8. Clean'
        <3>1. Quiet(t)
            <4>1. client[i] = Nil /\ \A s \in Servers : listed'[s] \in {listed[s], i}
                BY <2>1 DEF IInv, TypeOK, RecordsKnown
            <4>2. \A u \in Threads \ {t} : hand'[u] = hand[u] /\ record'[u] = record[u]
                BY <2>1, <2>2 DEF IInv, TypeOK
            <4>3. /\ pc' = [pc EXCEPT ![t] = pc'[t]] /\ pc'[t] \notin Making
                  /\ pc'[Reactor] = "idle" \/ pc[Reactor] # "idle"
                BY <2>2 DEF IInv, TypeOK
            <4> QED BY <2>1, <2>2, <4>1, <4>2, <4>3 DEF Quiet
        <3> QED BY <3>1, QuietPreserves
    <2>9. CallerSafe'
        BY <2>1, <2>2 DEF IInv, TypeOK, CallerSafe
    <2> QED BY <2>3, <2>4, <2>5, <2>6, <2>7, <2>8, <2>9 DEF IInv, Clean
<1> QED BY <1>1, <1>2

\* The client that is fetched is there, because it stands in a listed record.
LEMMA SendDataPreserves ==
    ASSUME IInv, NEW t \in Callers, SendData(t)
    PROVE  IInv'
<1> USE DEF SendData, Enter, Managing
<1> DEFINE i == listed[server[t]]
<1>1. pc[t] = "enter" /\ server[t] \in Servers /\ manager \in {Nil, t}
    BY DEF IInv, ThreadsKnown, Operations
<1>2. CASE Return(t) /\ UNCHANGED records
    BY <1>1, <1>2, ReturnPreserves DEF IInv, TypeOK
<1>3. CASE i # Nil /\ manager' = t /\ Go(t, IF client[i] = Nil THEN "run" ELSE "send")
    <2>1. /\ manager' = t
          /\ record' = [record EXCEPT ![t] = i]
          /\ hand' = [hand EXCEPT ![t] = client[i]]
          /\ pc' = [pc EXCEPT ![t] = IF client[i] = Nil THEN "run" ELSE "send"]
          /\ UNCHANGED <<op, server>>
          /\ UNCHANGED <<records, clients, owner, upcall, todo, bounds>>
        BY <1>3 DEF Go
    <2>2. i \in used /\ i \in Infos /\ (client[i] # Nil /\ ~disturbed => life[client[i]] # "free")
        BY <1>1, <1>3 DEF IInv, TypeOK, RecordsKnown, OwnClient
    <2>3. TypeOK'
        BY <1>1, <2>1, <2>2 DEF IInv, TypeOK
    <2>4. RecordsKnown'
        BY <2>1 DEF IInv, RecordsKnown
    <2>5. ThreadsKnown'
        BY <1>1, <2>1, <2>2 DEF IInv, TypeOK, ThreadsKnown
    <2>6. ReactorKnown'
        BY <1>1, <2>1 DEF IInv, TypeOK, ReactorKnown
    <2>7. ManagerHeld'
        BY <1>1, <2>1 DEF IInv, TypeOK, ManagerHeld
    <2>8. Clean'
        <3>1. Quiet(t)
            BY <1>1, <2>1 DEF IInv, TypeOK, Quiet
        <3> QED BY <3>1, QuietPreserves
    <2>9. CallerSafe'
        BY <1>1, <2>1, <2>2 DEF IInv, TypeOK, CallerSafe
    <2> QED BY <2>3, <2>4, <2>5, <2>6, <2>7, <2>8, <2>9 DEF IInv, Clean
<1> QED BY <1>1, <1>2, <1>3

\* The record that is fetched is listed.
LEMMA ReConnectPreserves ==
    ASSUME IInv, NEW t \in Callers, ReConnect(t)
    PROVE  IInv'
<1> USE DEF ReConnect, Enter, Managing
<1> DEFINE i == listed[server[t]]
<1>1. pc[t] = "enter" /\ server[t] \in Servers /\ manager \in {Nil, t}
    BY DEF IInv, ThreadsKnown, Operations
<1>2. CASE Return(t) /\ UNCHANGED records
    BY <1>1, <1>2, ReturnPreserves DEF IInv, TypeOK
<1>3. CASE i # Nil /\ client[i] = Nil /\ Go(t, "run")
    <2>1. /\ manager' = t
          /\ record' = [record EXCEPT ![t] = i]
          /\ pc' = [pc EXCEPT ![t] = "run"]
          /\ UNCHANGED <<op, server, hand>>
          /\ UNCHANGED <<records, clients, owner, upcall, todo, bounds>>
        BY <1>3 DEF Go
    <2>2. i \in used /\ i \in Infos
        BY <1>1, <1>3 DEF IInv, TypeOK, RecordsKnown, OwnClient
    <2>3. TypeOK'
        BY <1>1, <2>1, <2>2 DEF IInv, TypeOK
    <2>4. RecordsKnown'
        BY <2>1 DEF IInv, RecordsKnown
    <2>5. ThreadsKnown'
        BY <1>1, <2>1, <2>2 DEF IInv, TypeOK, ThreadsKnown
    <2>6. ReactorKnown'
        BY <1>1, <2>1 DEF IInv, TypeOK, ReactorKnown
    <2>7. ManagerHeld'
        BY <1>1, <2>1 DEF IInv, TypeOK, ManagerHeld
    <2>8. Clean'
        <3>1. Quiet(t)
            BY <1>1, <2>1 DEF IInv, TypeOK, Quiet
        <3> QED BY <3>1, QuietPreserves
    <2>9. CallerSafe'
        BY <1>1, <2>1, <2>2 DEF IInv, TypeOK, CallerSafe
    <2> QED BY <2>3, <2>4, <2>5, <2>6, <2>7, <2>8, <2>9 DEF IInv, Clean
<1> QED BY <1>1, <1>2, <1>3

\* The client that is fetched is there; a record that leaves the list breaks nothing.
LEMMA ClosePreserves ==
    ASSUME IInv, NEW t \in Callers, Close(t)
    PROVE  IInv'
<1> USE DEF Close, Enter, Managing
<1> DEFINE i == listed[server[t]]
<1>1. pc[t] = "enter" /\ server[t] \in Servers /\ manager \in {Nil, t}
    BY DEF IInv, ThreadsKnown, Operations
<1>2. CASE Return(t) /\ listed' \in {listed, [listed EXCEPT ![server[t]] = Nil]}
    BY <1>1, <1>2, ReturnPreserves DEF IInv, TypeOK
<1>3. CASE i # Nil /\ client[i] # Nil /\ Go(t, "shut")
    <2>1. /\ manager' = t
          /\ hand' = [hand EXCEPT ![t] = client[i]]
          /\ pc' = [pc EXCEPT ![t] = "shut"]
          /\ UNCHANGED <<listed, op, server, record>>
          /\ UNCHANGED <<records, clients, owner, upcall, todo, bounds>>
        BY <1>3 DEF Go
    <2>2. /\ i \in used /\ i \in Infos /\ client[i] \in Clients
          /\ (~disturbed => life[client[i]] # "free")
        BY <1>1, <1>3 DEF IInv, TypeOK, RecordsKnown, OwnClient
    <2>3. TypeOK'
        BY <1>1, <2>1, <2>2 DEF IInv, TypeOK
    <2>4. RecordsKnown'
        BY <2>1 DEF IInv, RecordsKnown
    <2>5. ThreadsKnown'
        BY <1>1, <2>1, <2>2 DEF IInv, TypeOK, ThreadsKnown
    <2>6. ReactorKnown'
        BY <1>1, <2>1 DEF IInv, TypeOK, ReactorKnown
    <2>7. ManagerHeld'
        BY <1>1, <2>1 DEF IInv, TypeOK, ManagerHeld
    <2>8. Clean'
        <3>1. Quiet(t)
            BY <1>1, <2>1 DEF IInv, TypeOK, Quiet
        <3> QED BY <3>1, QuietPreserves
    <2>9. CallerSafe'
        BY <1>1, <2>1, <2>2 DEF IInv, TypeOK, CallerSafe
    <2> QED BY <2>3, <2>4, <2>5, <2>6, <2>7, <2>8, <2>9 DEF IInv, Clean
<1> QED BY <1>1, <1>2, <1>3

\* A block is put, or refused, and the call returns.
LEMMA PutPreserves ==
    ASSUME IInv, NEW t \in Callers, Put(t)
    PROVE  IInv'
<1> DEFINE c == hand[t]
<1>1. t \in Threads /\ t # Timer /\ c \in Clients /\ manager = t /\ pc[t] = "send"
    BY ThreadAssumption DEF IInv, ThreadsKnown, ManagerHeld, Threads, Callers, Put
<1>2. /\ Return(t)
      /\ UNCHANGED <<records, life, home, closing, owner, upcall, todo, bounds>>
      /\ \/ UNCHANGED <<out, watch>>
         \/ out' = [out EXCEPT ![c] = Append(@, Data)] /\ watch' = Wakeup(c)
    BY DEF Put
<1>3. out' \in [Clients -> Seq({Data, Stop})]
    <2>1. out \in [Clients -> Seq({Data, Stop})] /\ out[c] \in Seq({Data, Stop})
        BY <1>1 DEF IInv, TypeOK
    <2>2. Append(out[c], Data) \in Seq({Data, Stop})
        BY <2>1
    <2> QED BY <1>2, <2>1, <2>2
<1>4. /\ watch' \in [Clients -> SUBSET {"read", "write"}]
      /\ \A d \in Clients : watch[d] = {} => watch'[d] = {}
    <2>1. /\ Wakeup(c) \in [Clients -> SUBSET {"read", "write"}]
          /\ \A d \in Clients : watch[d] = {} => Wakeup(c)[d] = {}
        BY <1>1, WakeupType DEF IInv
    <2> QED BY <1>2, <2>1 DEF IInv, TypeOK
<1> QED BY <1>1, <1>2, <1>3, <1>4, ReturnPreserves DEF IInv, TypeOK, records

\* The stop is put, or refused, and the record leaves the list.
LEMMA ClientClosePreserves ==
    ASSUME IInv, NEW t \in Callers, ClientClose(t)
    PROVE  IInv'
<1> DEFINE c == hand[t]
<1>1. t \in Threads /\ t # Timer /\ c \in Clients /\ manager = t /\ pc[t] = "shut"
    BY ThreadAssumption DEF IInv, ThreadsKnown, ManagerHeld, Threads, Callers, ClientClose
<1>2. /\ Return(t)
      /\ listed' = [listed EXCEPT ![server[t]] = Nil]
      /\ UNCHANGED <<used, serves, client, state, disturbed, life, home, owner, upcall,
                     todo, bounds>>
      /\ \/ UNCHANGED <<out, closing, watch>>
         \/ /\ out' = [out EXCEPT ![c] = Append(@, Stop)]
            /\ closing' = [closing EXCEPT ![c] = TRUE]
            /\ watch' = Wakeup(c)
    BY DEF ClientClose
<1>3. out' \in [Clients -> Seq({Data, Stop})]
    <2>1. out \in [Clients -> Seq({Data, Stop})] /\ out[c] \in Seq({Data, Stop})
        BY <1>1 DEF IInv, TypeOK
    <2>2. Append(out[c], Stop) \in Seq({Data, Stop})
        BY <2>1
    <2> QED BY <1>2, <2>1, <2>2
<1>4. /\ watch' \in [Clients -> SUBSET {"read", "write"}]
      /\ \A d \in Clients : watch[d] = {} => watch'[d] = {}
    <2>1. /\ Wakeup(c) \in [Clients -> SUBSET {"read", "write"}]
          /\ \A d \in Clients : watch[d] = {} => Wakeup(c)[d] = {}
        BY <1>1, WakeupType DEF IInv
    <2> QED BY <1>2, <2>1 DEF IInv, TypeOK
<1>5. closing' \in [Clients -> BOOLEAN]
    BY <1>2 DEF IInv, TypeOK
<1>6. listed' \in [Servers -> Infos \cup {Nil}]
      /\ \A s \in Servers : listed'[s] \in {listed[s], Nil}
    BY <1>2 DEF IInv, TypeOK
<1>7. state' \in [Infos -> {"READY", "OK", "FAIL"}]
    BY <1>2 DEF IInv, TypeOK
<1> QED BY <1>1, <1>2, <1>3, <1>4, <1>5, <1>6, <1>7, ReturnPreserves

\* The call returns, or goes on with Close for the same server.
LEMMA RunRefusedPreserves ==
    ASSUME IInv, NEW t \in Threads, RunRefused(t)
    PROVE  IInv'
<1>1. /\ pc[t] = "run" /\ (t # Timer => manager = t)
      /\ UNCHANGED <<records, clients, owner, upcall, todo, bounds>>
    BY DEF IInv, ManagerHeld, RunRefused
<1>2. CASE Return(t)
    BY <1>1, <1>2, ReturnPreserves DEF IInv, TypeOK
<1>3. CASE op[t] = "Connect" /\ Go(t, "enter")
    <2>1. /\ pc' = [pc EXCEPT ![t] = "enter"] /\ op' = [op EXCEPT ![t] = "Close"]
          /\ UNCHANGED <<manager, server, record, hand>>
        BY <1>3 DEF RunRefused, Go
    <2>2. server[t] \in Servers
        BY <1>3 DEF IInv, ThreadsKnown, Operations
    <2>3. TypeOK'
        BY <1>1, <2>1 DEF IInv, TypeOK, Operations
    <2>4. ThreadsKnown'
        BY <1>1, <2>1, <2>2 DEF IInv, TypeOK, ThreadsKnown
    <2>5. ManagerHeld'
        BY <1>1, <2>1 DEF IInv, TypeOK, ManagerHeld
    <2>6. CallerSafe'
        BY <1>1, <2>1 DEF IInv, TypeOK, CallerSafe
    <2>7. RecordsKnown' /\ ReactorKnown'
        BY <1>1, <2>1 DEF IInv, TypeOK, RecordsKnown, ReactorKnown
    <2>8. Clean'
        <3>1. Quiet(t)
            BY <1>1, <2>1 DEF IInv, TypeOK, Quiet
        <3> QED BY <3>1, QuietPreserves
    <2> QED BY <2>3, <2>4, <2>5, <2>6, <2>7, <2>8 DEF IInv, Clean
<1> QED BY <1>2, <1>3 DEF RunRefused

\* The record has no client.
LEMMA RunPreserves ==
    ASSUME IInv, NEW t \in Threads, Run(t)
    PROVE  IInv'
<1> USE DEF Run
<1>1. TypeOK'
    BY DEF IInv, TypeOK, RecordsKnown, ThreadsKnown, ReactorKnown
<1>2. RecordsKnown'
    BY DEF IInv, TypeOK, RecordsKnown, ThreadsKnown
<1>3. ThreadsKnown'
    BY DEF IInv, TypeOK, RecordsKnown, ThreadsKnown, ReactorKnown
<1>4. ReactorKnown'
    BY DEF IInv, TypeOK, RecordsKnown, ReactorKnown
<1>5. ManagerHeld'
    BY DEF IInv, TypeOK, ManagerHeld
<1>6. Clean'
    <2>1. Quiet(t)
        BY DEF IInv, TypeOK, ReactorKnown, Quiet
    <2> QED BY <2>1, QuietPreserves
<1>7. CallerSafe'
    BY DEF IInv, TypeOK, ThreadsKnown, ManagerHeld, OwnClient, CallerSafe
<1> QED BY <1>1, <1>2, <1>3, <1>4, <1>5, <1>6, <1>7 DEF IInv, Clean

\* The client was free: no listed record points to it and no other thread makes it.
LEMMA NewClientPreserves ==
    ASSUME IInv, NEW t \in Threads, NewClient(t)
    PROVE  IInv'
<1> USE DEF NewClient, Construct, Disturbs
<1>1. TypeOK'
    BY DEF IInv, TypeOK, RecordsKnown, ThreadsKnown, ReactorKnown
<1>2. RecordsKnown'
    BY DEF IInv, TypeOK, RecordsKnown, ThreadsKnown
<1>3. ThreadsKnown'
    BY DEF IInv, TypeOK, RecordsKnown, ThreadsKnown, ReactorKnown
<1>4. ReactorKnown'
    BY DEF IInv, TypeOK, RecordsKnown, ReactorKnown
<1>5. ManagerHeld'
    BY DEF IInv, TypeOK, ManagerHeld
<1>6. Clean'
    <2>0. disturbed => disturbed'
        OBVIOUS
    <2> SUFFICES ASSUME ~disturbed', ~disturbed PROVE Clean'
        BY <2>0 DEF Clean, Alive, MakersKnown, MakersApart, OwnClient
    <2>a. PICK c \in Clients :
              /\ life[c] = "free"
              /\ life' = [life EXCEPT ![c] = "new"]
              /\ home' = [home EXCEPT ![c] = Nil]
              /\ client' = [client EXCEPT ![record[t]] = c]
        OBVIOUS
    <2>b. /\ record[t] \in Infos /\ record' = record /\ hand' = hand /\ listed' = listed
          /\ pc' = [pc EXCEPT ![t] = "number"] /\ watch' = watch /\ upcall' = upcall
          /\ \A u \in Threads \ {t} : pc[u] \in Dialling => record[u] # record[t]
        BY DEF IInv, TypeOK, ThreadsKnown
    <2>c. \A u \in Threads \ {t} : pc[u] \in Making =>
              KnowsClient(u) /\ Held(u) \in Clients /\ life[Held(u)] # "free"
        BY DEF IInv, MakersKnown, KnowsClient
    <2>d. \A s \in Servers : listed[s] # Nil => client[listed[s]] # c
        BY <2>a DEF IInv, TypeOK, OwnClient
    <2> HIDE DEF NewClient, Construct, Disturbs
    <2>1. Alive'
        <3>1. watch[c] = {} /\ (pc[Reactor] # "idle" => upcall # c)
            BY <2>a DEF IInv, TypeOK, Alive
        <3>2. pc'[Reactor] # "idle" => pc[Reactor] # "idle" /\ upcall \in Clients
            BY <2>b DEF IInv, TypeOK, ReactorKnown, NewClient
        <3> QED BY <2>a, <2>b, <3>1, <3>2 DEF IInv, TypeOK, Alive
    <2>2. Beside(t)
        <3>1. \A u \in Threads \ {t} : pc[u] \in Dialling =>
                  client'[record[u]] = client[record[u]]
            BY <2>a, <2>b DEF IInv, TypeOK
        <3>2. \A u \in Threads \ {t} : pc[u] \in Making =>
                  /\ Held(u) # c /\ life'[Held(u)] = life[Held(u)]
                  /\ home'[Held(u)] = home[Held(u)]
            BY <2>a, <2>c DEF IInv, TypeOK
        <3>3. \A i \in Infos : client'[i] \in {client[i], c}
            BY <2>a DEF IInv, TypeOK
        <3>4. pc' = [pc EXCEPT ![t] = pc'[t]]
              /\ (pc'[Reactor] # "idle" => pc[Reactor] # "idle")
            BY <2>b DEF IInv, TypeOK, NewClient
        <3> QED BY <2>b, <3>1, <3>2, <3>3, <3>4 DEF Beside
    <2>3. Held(t)' = c /\ KnowsClient(t)'
        <3>1. pc'[t] = "number" /\ Held(t)' = c /\ life'[c] = "new" /\ record'[t] = record[t]
            BY <2>a, <2>b DEF IInv, TypeOK, Held
        <3>2. \A s \in Servers : listed'[s] # Nil /\ client'[listed'[s]] = c
                  => listed'[s] = record[t]
            BY <2>a, <2>b, <2>d DEF IInv, TypeOK
        <3> QED BY <3>1, <3>2 DEF KnowsClient
    <2>4. MakersKnown' /\ MakersApart'
        BY <2>a, <2>2, <2>3, <2>c, BesidePreserves
    <2>5. OwnClient'
        BY <2>a, <2>b, <2>d DEF IInv, TypeOK, OwnClient
    <2> QED BY <2>1, <2>4, <2>5 DEF Clean
<1>7. CallerSafe'
    BY DEF IInv, TypeOK, ThreadsKnown, ManagerHeld, OwnClient, CallerSafe
<1> QED BY <1>1, <1>2, <1>3, <1>4, <1>5, <1>6, <1>7 DEF IInv, Clean

\* The pointer leads to the client that the thread has made.
LEMMA SetServerIDPreserves ==
    ASSUME IInv, NEW t \in Threads, SetServerID(t)
    PROVE  IInv'
<1> USE DEF SetServerID
<1>1. TypeOK'
    <2>1. record[t] \in Infos /\ client[record[t]] \in Clients \cup {Nil}
        BY DEF IInv, TypeOK, ThreadsKnown
    <2>2. home' \in [Clients -> Servers \cup {Nil}] /\ pc' \in [Threads -> Points]
        <3>1. CASE client[record[t]] = Nil
            BY <3>1 DEF IInv, TypeOK
        <3>2. CASE client[record[t]] # Nil
            <4>1. /\ home' = [home EXCEPT ![client[record[t]]] = serves[record[t]]]
                  /\ pc' = [pc EXCEPT ![t] = "dial"]
                BY <3>2
            <4> QED BY <2>1, <4>1 DEF IInv, TypeOK
        <3> QED BY <3>1, <3>2
    <2> QED BY <2>2 DEF IInv, TypeOK
<1>2. RecordsKnown'
    BY DEF IInv, TypeOK, RecordsKnown, ThreadsKnown
<1>3. ThreadsKnown'
    BY DEF IInv, TypeOK, RecordsKnown, ThreadsKnown, ReactorKnown
<1>4. ReactorKnown'
    BY DEF IInv, TypeOK, RecordsKnown, ReactorKnown
<1>5. ManagerHeld'
    BY DEF IInv, TypeOK, ManagerHeld
<1>6. Clean'
    <2>0. disturbed => disturbed'
        OBVIOUS
    <2> SUFFICES ASSUME ~disturbed', ~disturbed PROVE Clean'
        BY <2>0 DEF Clean, Alive, MakersKnown, MakersApart, OwnClient
    <2>a. /\ pc[t] \in Making /\ KnowsClient(t) /\ Held(t) \in Clients
          /\ \A u \in Threads \ {t} : pc[u] \in Making =>
                KnowsClient(u) /\ Held(u) \in Clients /\ Held(u) # Held(t)
        BY DEF IInv, MakersKnown, MakersApart, KnowsClient
    <2>b. /\ Held(t) = client[record[t]] /\ record[t] \in used /\ serves[record[t]] \in Servers
          /\ Held(t) # Nil
        BY <2>a DEF IInv, RecordsKnown, ThreadsKnown, Held
    <2>c. /\ home' = [home EXCEPT ![Held(t)] = serves[record[t]]]
          /\ pc' = [pc EXCEPT ![t] = "dial"]
          /\ UNCHANGED <<records, life, watch, record, hand, upcall>>
        BY <2>b
    <2>d. life[Held(t)] = "new" /\ \A s \in Servers :
              listed[s] # Nil /\ client[listed[s]] = Held(t) => listed[s] = record[t]
        BY <2>a DEF KnowsClient
    <2> HIDE DEF SetServerID, Held
    <2>1. Alive'
        BY <2>a, <2>b, <2>c, <2>d DEF IInv, TypeOK, ReactorKnown, Alive
    <2>2. Beside(t)
        BY <2>a, <2>c DEF IInv, TypeOK, ThreadsKnown, Beside
    <2>3. Held(t)' = Held(t) /\ KnowsClient(t)'
        <3>1. Held(t)' = Held(t) /\ pc'[t] = "dial" /\ home'[Held(t)] \in Servers
            BY <2>a, <2>b, <2>c DEF IInv, TypeOK, Held
        <3> QED BY <2>a, <2>c, <2>d, <3>1 DEF KnowsClient
    <2>4. MakersKnown' /\ MakersApart'
        BY <2>a, <2>2, <2>3, BesidePreserves
    <2>5. OwnClient'
        BY <2>a, <2>b, <2>c, <2>d DEF IInv, TypeOK, RecordsKnown, OwnClient
    <2> QED BY <2>1, <2>4, <2>5 DEF Clean
<1>7. CallerSafe'
    BY DEF IInv, TypeOK, ThreadsKnown, ManagerHeld, OwnClient, CallerSafe
<1> QED BY <1>1, <1>2, <1>3, <1>4, <1>5, <1>6, <1>7 DEF IInv, Clean

\* The pointer is not NULL, or the Run has been disturbed.
LEMMA MakeHandlerPreserves ==
    ASSUME IInv, NEW t \in Threads, MakeHandler(t)
    PROVE  IInv'
<1> USE DEF MakeHandler, Construct, Disturbs
<1>1. TypeOK'
    <2>1. CASE client[record[t]] # Nil
        <3>1. pc' = [pc EXCEPT ![t] = "connect"]
              /\ UNCHANGED <<records, clients, locks, op, server, record, hand, upcall, todo, bounds>>
            BY <2>1
        <3> QED BY <3>1 DEF IInv, TypeOK
    <2>2. CASE client[record[t]] = Nil
        <3>1. PICK c \in Clients :
                  /\ life' = [life EXCEPT ![c] = "new"] /\ home' = [home EXCEPT ![c] = Nil]
                  /\ closing' = [closing EXCEPT ![c] = FALSE]
                  /\ out' = [out EXCEPT ![c] = << >>] /\ owner' = [owner EXCEPT ![c] = Nil]
                  /\ client' = [client EXCEPT ![record[t]] = c]
            BY <2>2
        <3>2. disturbed' \in BOOLEAN /\ pc' = [pc EXCEPT ![t] = "connect"]
            BY <2>2
        <3>3. out' \in [Clients -> Seq({Data, Stop})]
            BY <3>1 DEF IInv, TypeOK
        <3>4. /\ life' \in [Clients -> {"free", "new", "open", "deaf"}]
              /\ home' \in [Clients -> Servers \cup {Nil}]
              /\ closing' \in [Clients -> BOOLEAN]
            BY <3>1 DEF IInv, TypeOK
        <3>5. /\ owner' \in [Clients -> Threads \cup {Nil}]
              /\ client' \in [Infos -> Clients \cup {Nil}]
            BY <3>1 DEF IInv, TypeOK
        <3>6. pc' \in [Threads -> Points]
            BY <3>2 DEF IInv, TypeOK
        <3>7. UNCHANGED <<listed, used, serves, state, watch, manager, op, server, record,
                          hand, upcall, todo, bounds>>
            OBVIOUS
        <3> HIDE DEF MakeHandler, Construct, Disturbs
        <3> QED BY <3>2, <3>3, <3>4, <3>5, <3>6, <3>7 DEF IInv, TypeOK
    <2> QED BY <2>1, <2>2
<1>2. RecordsKnown'
    BY DEF IInv, TypeOK, RecordsKnown, ThreadsKnown
<1>3. ThreadsKnown'
    BY DEF IInv, TypeOK, RecordsKnown, ThreadsKnown, ReactorKnown
<1>4. ReactorKnown'
    BY DEF IInv, TypeOK, RecordsKnown, ReactorKnown
<1>5. ManagerHeld'
    BY DEF IInv, TypeOK, ManagerHeld
<1>6. Clean'
    <2>0. disturbed => disturbed'
        OBVIOUS
    <2> SUFFICES ASSUME ~disturbed', ~disturbed PROVE Clean'
        BY <2>0 DEF Clean, Alive, MakersKnown, MakersApart, OwnClient
    <2>a. /\ pc[t] \in Making /\ KnowsClient(t) /\ Held(t) \in Clients
          /\ \A u \in Threads \ {t} : pc[u] \in Making =>
                KnowsClient(u) /\ Held(u) \in Clients /\ Held(u) # Held(t)
        BY DEF IInv, MakersKnown, MakersApart, KnowsClient
    <2>b. client[record[t]] # Nil
        BY <2>a DEF Held
    <2>c. /\ pc' = [pc EXCEPT ![t] = "connect"] /\ pc[t] = "dial"
          /\ UNCHANGED <<records, clients, record, hand, upcall>>
        BY <2>b
    <2> HIDE DEF MakeHandler, Construct, Disturbs
    <2>1. Alive'
        BY <2>c DEF IInv, TypeOK, ReactorKnown, Alive
    <2>2. Beside(t)
        BY <2>a, <2>c DEF IInv, TypeOK, ThreadsKnown, Beside
    <2>3. Held(t)' = Held(t) /\ KnowsClient(t)'
        <3>1. Held(t)' = Held(t) /\ pc'[t] = "connect"
            BY <2>c DEF IInv, TypeOK, Held
        <3> HIDE DEF Held
        <3> QED BY <2>a, <2>c, <3>1 DEF KnowsClient
    <2>4. MakersKnown' /\ MakersApart'
        BY <2>a, <2>2, <2>3, BesidePreserves
    <2>5. OwnClient'
        BY <2>c DEF IInv, OwnClient
    <2> QED BY <2>1, <2>4, <2>5 DEF Clean
<1>7. CallerSafe'
    BY DEF IInv, TypeOK, ThreadsKnown, ManagerHeld, OwnClient, CallerSafe
<1> QED BY <1>1, <1>2, <1>3, <1>4, <1>5, <1>6, <1>7 DEF IInv, Clean

\* The client that is fetched is the one the thread has made.
LEMMA ConnectedPreserves ==
    ASSUME IInv, NEW t \in Threads, Connected(t)
    PROVE  IInv'
<1> USE DEF Connected
<1>1. TypeOK'
    <2>1. record[t] \in Infos /\ client[record[t]] \in Clients \cup {Nil}
        BY DEF IInv, TypeOK, ThreadsKnown
    <2>2. hand' \in [Threads -> Clients \cup {Nil}]
        BY <2>1 DEF IInv, TypeOK
    <2>3. pc' \in [Threads -> Points]
        <3>1. pc' = [pc EXCEPT ![t] = pc'[t]] /\ pc'[t] \in {"crash", "open", "failed", "refused"}
            BY DEF IInv, TypeOK
        <3> QED BY <3>1 DEF IInv, TypeOK
    <2> QED BY <2>2, <2>3 DEF IInv, TypeOK
<1>2. RecordsKnown'
    BY DEF IInv, TypeOK, RecordsKnown, ThreadsKnown
<1>3. ThreadsKnown'
    BY DEF IInv, TypeOK, RecordsKnown, ThreadsKnown, ReactorKnown
<1>4. ReactorKnown'
    BY DEF IInv, TypeOK, RecordsKnown, ReactorKnown
<1>5. ManagerHeld'
    BY DEF IInv, TypeOK, ManagerHeld
<1>6. Clean'
    <2>0. disturbed => disturbed'
        OBVIOUS
    <2> SUFFICES ASSUME ~disturbed', ~disturbed PROVE Clean'
        BY <2>0 DEF Clean, Alive, MakersKnown, MakersApart, OwnClient
    <2>a. /\ pc[t] \in Making /\ KnowsClient(t) /\ Held(t) \in Clients
          /\ \A u \in Threads \ {t} : pc[u] \in Making =>
                KnowsClient(u) /\ Held(u) \in Clients /\ Held(u) # Held(t)
        BY DEF IInv, MakersKnown, MakersApart, KnowsClient
    <2>b. client[record[t]] # Nil /\ Held(t) = client[record[t]]
        BY <2>a DEF Held
    <2>c. /\ pc[t] = "connect"
          /\ pc' = [pc EXCEPT ![t] = pc'[t]] /\ pc'[t] \in {"open"}
          /\ hand' = [hand EXCEPT ![t] = Held(t)]
          /\ UNCHANGED <<records, clients, record, upcall>>
        BY <2>b DEF IInv, TypeOK
    <2> HIDE DEF Connected, Held
    <2>1. Alive'
        BY <2>c DEF IInv, TypeOK, ReactorKnown, Alive
    <2>2. Beside(t)
        BY <2>a, <2>c DEF IInv, TypeOK, ThreadsKnown, Beside
    <2>3. Held(t)' = Held(t) /\ KnowsClient(t)'
        <3>1. Held(t)' = Held(t)
            BY <2>c DEF IInv, TypeOK, Held
        <3> QED BY <2>a, <2>c, <3>1 DEF KnowsClient
    <2>4. MakersKnown' /\ MakersApart'
        BY <2>a, <2>2, <2>3, BesidePreserves
    <2>5. OwnClient'
        BY <2>c DEF IInv, OwnClient
    <2> QED BY <2>1, <2>4, <2>5 DEF Clean
<1>7. CallerSafe'
    BY DEF IInv, TypeOK, ThreadsKnown, ManagerHeld, OwnClient, CallerSafe
<1> QED BY <1>1, <1>2, <1>3, <1>4, <1>5, <1>6, <1>7 DEF IInv, Clean

LEMMA ConnectFailsPreserves ==
    ASSUME IInv, NEW t \in Threads, ConnectFails(t)
    PROVE  IInv'
<1> USE DEF ConnectFails
<1>1. TypeOK'
    <2>1. record[t] \in Infos /\ client[record[t]] \in Clients \cup {Nil}
        BY DEF IInv, TypeOK, ThreadsKnown
    <2>2. hand' \in [Threads -> Clients \cup {Nil}]
        BY <2>1 DEF IInv, TypeOK
    <2>3. pc' \in [Threads -> Points]
        <3>1. pc' = [pc EXCEPT ![t] = pc'[t]] /\ pc'[t] \in {"crash", "open", "failed", "refused"}
            BY DEF IInv, TypeOK
        <3> QED BY <3>1 DEF IInv, TypeOK
    <2>4. refusals' \in 0 .. MaxRefusals
        BY BoundAssumption DEF IInv, TypeOK
    <2> QED BY <2>2, <2>3, <2>4 DEF IInv, TypeOK
<1>2. RecordsKnown'
    BY DEF IInv, TypeOK, RecordsKnown, ThreadsKnown
<1>3. ThreadsKnown'
    BY DEF IInv, TypeOK, RecordsKnown, ThreadsKnown, ReactorKnown
<1>4. ReactorKnown'
    BY DEF IInv, TypeOK, RecordsKnown, ReactorKnown
<1>5. ManagerHeld'
    BY DEF IInv, TypeOK, ManagerHeld
<1>6. Clean'
    <2>0. disturbed => disturbed'
        OBVIOUS
    <2> SUFFICES ASSUME ~disturbed', ~disturbed PROVE Clean'
        BY <2>0 DEF Clean, Alive, MakersKnown, MakersApart, OwnClient
    <2>a. /\ pc[t] \in Making /\ KnowsClient(t) /\ Held(t) \in Clients
          /\ \A u \in Threads \ {t} : pc[u] \in Making =>
                KnowsClient(u) /\ Held(u) \in Clients /\ Held(u) # Held(t)
        BY DEF IInv, MakersKnown, MakersApart, KnowsClient
    <2>b. client[record[t]] # Nil /\ Held(t) = client[record[t]]
        BY <2>a DEF Held
    <2>c. /\ pc[t] = "connect"
          /\ pc' = [pc EXCEPT ![t] = pc'[t]] /\ pc'[t] \in {"refused"}
          /\ hand' = [hand EXCEPT ![t] = Held(t)]
          /\ UNCHANGED <<records, clients, record, upcall>>
        BY <2>b DEF IInv, TypeOK
    <2> HIDE DEF ConnectFails, Held
    <2>1. Alive'
        BY <2>c DEF IInv, TypeOK, ReactorKnown, Alive
    <2>2. Beside(t)
        BY <2>a, <2>c DEF IInv, TypeOK, ThreadsKnown, Beside
    <2>3. Held(t)' = Held(t) /\ KnowsClient(t)'
        <3>1. Held(t)' = Held(t)
            BY <2>c DEF IInv, TypeOK, Held
        <3> QED BY <2>a, <2>c, <3>1 DEF KnowsClient
    <2>4. MakersKnown' /\ MakersApart'
        BY <2>a, <2>2, <2>3, BesidePreserves
    <2>5. OwnClient'
        BY <2>c DEF IInv, OwnClient
    <2> QED BY <2>1, <2>4, <2>5 DEF Clean
<1>7. CallerSafe'
    BY DEF IInv, TypeOK, ThreadsKnown, ManagerHeld, OwnClient, CallerSafe
<1> QED BY <1>1, <1>2, <1>3, <1>4, <1>5, <1>6, <1>7 DEF IInv, Clean

\* The client goes, and with it the pointer of the listed record of its number; no
\* caller waits for it, since that caller would hold the manager's lock.
LEMMA RefusedPreserves ==
    ASSUME IInv, NEW t \in Threads, Refused(t)
    PROVE  IInv'
<1> USE DEF Refused, Vanish, Record, Disturbs, Owning, Managing
<1>1. TypeOK'
    BY DEF IInv, TypeOK, RecordsKnown, ThreadsKnown, ReactorKnown
<1>2. RecordsKnown'
    BY DEF IInv, TypeOK, RecordsKnown, ThreadsKnown
<1>3. ThreadsKnown'
    BY DEF IInv, TypeOK, RecordsKnown, ThreadsKnown, ReactorKnown
<1>4. ReactorKnown'
    BY DEF IInv, TypeOK, RecordsKnown, ReactorKnown
<1>5. ManagerHeld'
    BY DEF IInv, TypeOK, ManagerHeld
<1>6. Clean'
    <2>0. disturbed => disturbed'
        OBVIOUS
    <2> SUFFICES ASSUME ~disturbed', ~disturbed PROVE Clean'
        BY <2>0 DEF Clean, Alive, MakersKnown, MakersApart, OwnClient
    <2>a. /\ pc[t] \in Making /\ KnowsClient(t) /\ Held(t) \in Clients
          /\ \A u \in Threads \ {t} : pc[u] \in Making =>
                KnowsClient(u) /\ Held(u) \in Clients /\ Held(u) # Held(t)
        BY DEF IInv, MakersKnown, MakersApart, KnowsClient
    <2>b. /\ hand[t] = Held(t) /\ home[hand[t]] \in Servers /\ life[hand[t]] = "new"
          /\ pc[t] = "refused" /\ pc' = [pc EXCEPT ![t] = "failed"]
          /\ UNCHANGED <<listed, serves, home, record, hand, upcall>>
        BY <2>a DEF KnowsClient, Held
    <2>c. /\ life' = [life EXCEPT ![hand[t]] = "free"]
          /\ watch' = [watch EXCEPT ![hand[t]] = {}]
          /\ client' = IF listed[home[hand[t]]] = Nil THEN client
                       ELSE [client EXCEPT ![listed[home[hand[t]]]] = Nil]
          /\ \A u \in Threads \ {t} : pc[u] \in Dialling => record[u] # listed[home[hand[t]]]
        BY <2>b
    <2> HIDE DEF Refused, Vanish, Record, Disturbs, Held
    <2>1. Alive'
        BY <2>a, <2>b, <2>c DEF IInv, TypeOK, ReactorKnown, Alive
    <2>2. Beside(t)
        <3>1. \A u \in Threads \ {t} : pc[u] \in Dialling =>
                  client'[record[u]] = client[record[u]]
            BY <2>a, <2>b, <2>c DEF IInv, TypeOK, ThreadsKnown
        <3>2. \A u \in Threads \ {t} : pc[u] \in Making =>
                  /\ life'[Held(u)] = life[Held(u)]
                  /\ watch[Held(u)] = {} => watch'[Held(u)] = {}
            BY <2>a, <2>b, <2>c DEF IInv, TypeOK
        <3>3. \A u \in Threads \ {t} : pc[u] \in Making =>
                  \A i \in Infos : client'[i] = client[i] \/ client'[i] # Held(u)
            BY <2>a, <2>b, <2>c DEF IInv, TypeOK
        <3>4. /\ pc' = [pc EXCEPT ![t] = pc'[t]]
              /\ pc'[Reactor] # "idle" => pc[Reactor] # "idle"
            BY <2>b DEF IInv, TypeOK
        <3> QED BY <2>b, <3>1, <3>2, <3>3, <3>4 DEF Beside
    <2>3. pc'[t] \notin Making
        BY <2>b DEF IInv, TypeOK
    <2>4. MakersKnown' /\ MakersApart'
        BY <2>a, <2>2, <2>3, BesidePreserves
    <2>5. OwnClient'
        BY <2>b, <2>c DEF IInv, TypeOK, RecordsKnown, OwnClient
    <2> QED BY <2>1, <2>4, <2>5 DEF Clean
<1>7. CallerSafe'
    BY DEF IInv, TypeOK, ThreadsKnown, ManagerHeld, OwnClient, CallerSafe
<1> QED BY <1>1, <1>2, <1>3, <1>4, <1>5, <1>6, <1>7 DEF IInv, Clean

\* SetHandler points the listed record of the client's number to the client.
LEMMA OpenPreserves ==
    ASSUME IInv, NEW t \in Threads, Open(t)
    PROVE  IInv'
<1> USE DEF Open, Become, Record, Disturbs, Owning
<1>1. TypeOK'
    BY DEF IInv, TypeOK, RecordsKnown, ThreadsKnown, ReactorKnown
<1>2. RecordsKnown'
    BY DEF IInv, TypeOK, RecordsKnown, ThreadsKnown
<1>3. ThreadsKnown'
    BY DEF IInv, TypeOK, RecordsKnown, ThreadsKnown, ReactorKnown
<1>4. ReactorKnown'
    BY DEF IInv, TypeOK, RecordsKnown, ReactorKnown
<1>5. ManagerHeld'
    BY DEF IInv, TypeOK, ManagerHeld
<1>6. Clean'
    <2>0. disturbed => disturbed'
        OBVIOUS
    <2> SUFFICES ASSUME ~disturbed', ~disturbed PROVE Clean'
        BY <2>0 DEF Clean, Alive, MakersKnown, MakersApart, OwnClient
    <2>a. /\ pc[t] \in Making /\ KnowsClient(t) /\ Held(t) \in Clients
          /\ \A u \in Threads \ {t} : pc[u] \in Making =>
                KnowsClient(u) /\ Held(u) \in Clients /\ Held(u) # Held(t)
        BY DEF IInv, MakersKnown, MakersApart, KnowsClient
    <2>b. /\ hand[t] = Held(t) /\ home[hand[t]] \in Servers /\ life[hand[t]] = "new"
          /\ pc' = [pc EXCEPT ![t] = "message"]
          /\ UNCHANGED <<listed, serves, home, watch, record, hand, upcall>>
        BY <2>a DEF KnowsClient, Held
    <2>c. /\ life' = [life EXCEPT ![hand[t]] = "open"]
          /\ client' = IF listed[home[hand[t]]] = Nil THEN client
                       ELSE [client EXCEPT ![listed[home[hand[t]]]] = hand[t]]
          /\ \A u \in Threads \ {t} : pc[u] \in Dialling => record[u] # listed[home[hand[t]]]
        BY <2>b
    <2> HIDE DEF Open, Become, Record, Disturbs, Held
    <2>1. Alive'
        BY <2>a, <2>b, <2>c DEF IInv, TypeOK, ReactorKnown, Alive
    <2>2. Beside(t)
        BY <2>a, <2>b, <2>c DEF IInv, TypeOK, ThreadsKnown, Beside
    <2>3. Held(t)' = Held(t) /\ KnowsClient(t)'
        <3>1. Held(t)' = Held(t) /\ pc'[t] = "message"
            BY <2>b DEF IInv, TypeOK, Held
        <3>2. watch[Held(t)] = {} /\ (pc'[Reactor] # "idle" => pc[Reactor] # "idle" /\ upcall # Held(t))
            BY <2>a, <2>b DEF IInv, TypeOK, Alive
        <3>3. life'[Held(t)] = "open"
            BY <2>a, <2>b, <2>c DEF IInv, TypeOK
        <3> QED BY <2>a, <2>b, <2>c, <3>1, <3>2, <3>3 DEF KnowsClient
    <2>4. MakersKnown' /\ MakersApart'
        BY <2>a, <2>2, <2>3, BesidePreserves
    <2>5. OwnClient'
        BY <2>a, <2>b, <2>c DEF IInv, TypeOK, RecordsKnown, OwnClient
    <2> QED BY <2>1, <2>4, <2>5 DEF Clean
<1>7. CallerSafe'
    BY DEF IInv, TypeOK, ThreadsKnown, ManagerHeld, OwnClient, CallerSafe
<1> QED BY <1>1, <1>2, <1>3, <1>4, <1>5, <1>6, <1>7 DEF IInv, Clean

LEMMA GetClientMessagePreserves ==
    ASSUME IInv, NEW t \in Threads, GetClientMessage(t)
    PROVE  IInv'
<1> USE DEF GetClientMessage, Become, Record
<1>1. TypeOK'
    BY DEF IInv, TypeOK, RecordsKnown, ThreadsKnown, ReactorKnown
<1>2. RecordsKnown'
    BY DEF IInv, TypeOK, RecordsKnown, ThreadsKnown
<1>3. ThreadsKnown'
    BY DEF IInv, TypeOK, RecordsKnown, ThreadsKnown, ReactorKnown
<1>4. ReactorKnown'
    BY DEF IInv, TypeOK, RecordsKnown, ReactorKnown
<1>5. ManagerHeld'
    BY DEF IInv, TypeOK, ManagerHeld
<1>6. Clean'
    <2>0. disturbed => disturbed'
        OBVIOUS
    <2> SUFFICES ASSUME ~disturbed', ~disturbed PROVE Clean'
        BY <2>0 DEF Clean, Alive, MakersKnown, MakersApart, OwnClient
    <2>a. /\ pc[t] \in Making /\ KnowsClient(t) /\ Held(t) \in Clients
          /\ \A u \in Threads \ {t} : pc[u] \in Making =>
                KnowsClient(u) /\ Held(u) \in Clients /\ Held(u) # Held(t)
        BY DEF IInv, MakersKnown, MakersApart, KnowsClient
    <2>b. /\ hand[t] = Held(t) /\ home[hand[t]] \in Servers
          /\ life[hand[t]] \in {"open", "deaf"} /\ watch[hand[t]] = {}
          /\ pc[Reactor] # "idle" => upcall # hand[t]
          /\ pc[t] = "message" /\ pc' = [pc EXCEPT ![t] = "register"]
          /\ UNCHANGED <<listed, client, serves, home, watch, record, hand, upcall>>
        BY <2>a DEF KnowsClient, Held
    <2>c. life' = life \/ life' = [life EXCEPT ![hand[t]] = "deaf"]
        OBVIOUS
    <2> HIDE DEF GetClientMessage, Become, Record, Held
    <2>1. Alive'
        BY <2>a, <2>b, <2>c DEF IInv, TypeOK, ReactorKnown, Alive
    <2>2. Beside(t)
        <3>1. \A u \in Threads \ {t} : pc[u] \in Dialling =>
                  client'[record[u]] = client[record[u]]
            BY <2>a, <2>b, <2>c DEF IInv, TypeOK, ThreadsKnown
        <3>2. \A u \in Threads \ {t} : pc[u] \in Making =>
                  /\ life'[Held(u)] = life[Held(u)]
                  /\ watch[Held(u)] = {} => watch'[Held(u)] = {}
            BY <2>a, <2>b, <2>c DEF IInv, TypeOK
        <3>3. \A u \in Threads \ {t} : pc[u] \in Making =>
                  \A i \in Infos : client'[i] = client[i] \/ client'[i] # Held(u)
            BY <2>a, <2>b, <2>c DEF IInv, TypeOK
        <3>4. /\ pc' = [pc EXCEPT ![t] = pc'[t]]
              /\ pc'[Reactor] # "idle" => pc[Reactor] # "idle"
            BY <2>b DEF IInv, TypeOK
        <3> QED BY <2>b, <3>1, <3>2, <3>3, <3>4 DEF Beside
    <2>3. Held(t)' = Held(t) /\ KnowsClient(t)'
        <3>1. Held(t)' = Held(t) /\ pc'[t] = "register"
            BY <2>b DEF IInv, TypeOK, Held
        <3>2. life'[Held(t)] \in {"open", "deaf"}
            BY <2>a, <2>b, <2>c DEF IInv, TypeOK
        <3>3. pc'[Reactor] # "idle" => pc[Reactor] # "idle" \/ t = Reactor
            BY <2>b DEF IInv, TypeOK
        <3>4. t = Reactor => pc[Reactor] # "idle"
            BY DEF GetClientMessage
        <3> QED BY <2>a, <2>b, <3>1, <3>2, <3>3, <3>4 DEF KnowsClient
    <2>4. MakersKnown' /\ MakersApart'
        BY <2>a, <2>2, <2>3, BesidePreserves
    <2>5. OwnClient'
        BY <2>a, <2>b, <2>c DEF IInv, TypeOK, OwnClient
    <2> QED BY <2>1, <2>4, <2>5 DEF Clean
<1>7. CallerSafe'
    BY DEF IInv, TypeOK, ThreadsKnown, ManagerHeld, OwnClient, CallerSafe
<1> QED BY <1>1, <1>2, <1>3, <1>4, <1>5, <1>6, <1>7 DEF IInv, Clean

\* The reactor gets a client that was opened.
LEMMA RegisterPreserves ==
    ASSUME IInv, NEW t \in Threads, Register(t)
    PROVE  IInv'
<1> USE DEF Register
<1>1. TypeOK'
    BY DEF IInv, TypeOK, RecordsKnown, ThreadsKnown, ReactorKnown
<1>2. RecordsKnown'
    BY DEF IInv, TypeOK, RecordsKnown, ThreadsKnown
<1>3. ThreadsKnown'
    BY DEF IInv, TypeOK, RecordsKnown, ThreadsKnown, ReactorKnown
<1>4. ReactorKnown'
    BY DEF IInv, TypeOK, RecordsKnown, ReactorKnown
<1>5. ManagerHeld'
    BY DEF IInv, TypeOK, ManagerHeld
<1>6. Clean'
    <2>0. disturbed => disturbed'
        OBVIOUS
    <2> SUFFICES ASSUME ~disturbed', ~disturbed PROVE Clean'
        BY <2>0 DEF Clean, Alive, MakersKnown, MakersApart, OwnClient
    <2>a. /\ pc[t] \in Making /\ KnowsClient(t) /\ Held(t) \in Clients
          /\ \A u \in Threads \ {t} : pc[u] \in Making =>
                KnowsClient(u) /\ Held(u) \in Clients /\ Held(u) # Held(t)
        BY DEF IInv, MakersKnown, MakersApart, KnowsClient
    <2>b. /\ hand[t] = Held(t) /\ life[hand[t]] \in {"open", "deaf"}
          /\ pc' = [pc EXCEPT ![t] = "cancel"]
          /\ watch' = [watch EXCEPT ![hand[t]] = {"read", "write"}]
          /\ UNCHANGED <<listed, client, serves, life, home, record, hand, upcall, disturbed>>
        BY <2>a DEF KnowsClient, Held
    <2> HIDE DEF Register, Held
    <2>1. Alive'
        BY <2>a, <2>b DEF IInv, TypeOK, ReactorKnown, Alive, Register
    <2>2. Beside(t)
        BY <2>a, <2>b DEF IInv, TypeOK, ThreadsKnown, Beside
    <2>3. pc'[t] \notin Making
        BY <2>b DEF IInv, TypeOK
    <2>4. MakersKnown' /\ MakersApart'
        BY <2>a, <2>2, <2>3, BesidePreserves
    <2>5. OwnClient'
        BY <2>b DEF IInv, TypeOK, OwnClient
    <2> QED BY <2>1, <2>4, <2>5 DEF Clean
<1>7. CallerSafe'
    BY DEF IInv, TypeOK, ThreadsKnown, ManagerHeld, OwnClient, CallerSafe
<1> QED BY <1>1, <1>2, <1>3, <1>4, <1>5, <1>6, <1>7 DEF IInv, Clean

LEMMA CancelWakeupPreserves ==
    ASSUME IInv, NEW t \in Threads, CancelWakeup(t)
    PROVE  IInv'
<1> USE DEF CancelWakeup
<1>1. TypeOK'
    BY DEF IInv, TypeOK, RecordsKnown, ThreadsKnown, ReactorKnown
<1>2. RecordsKnown'
    BY DEF IInv, TypeOK, RecordsKnown, ThreadsKnown
<1>3. ThreadsKnown'
    BY DEF IInv, TypeOK, RecordsKnown, ThreadsKnown, ReactorKnown
<1>4. ReactorKnown'
    BY DEF IInv, TypeOK, RecordsKnown, ReactorKnown
<1>5. ManagerHeld'
    BY DEF IInv, TypeOK, ManagerHeld
<1>6. Clean'
    <2>1. Quiet(t)
        BY DEF IInv, TypeOK, ReactorKnown, Quiet
    <2> QED BY <2>1, QuietPreserves
<1>7. CallerSafe'
    BY DEF IInv, TypeOK, ThreadsKnown, ManagerHeld, OwnClient, CallerSafe
<1> QED BY <1>1, <1>2, <1>3, <1>4, <1>5, <1>6, <1>7 DEF IInv, Clean

\* The record says how the connect went, and the call returns.
LEMMA EndRunPreserves ==
    ASSUME IInv, NEW t \in Threads, EndRun(t)
    PROVE  IInv'
<1>1. /\ pc[t] \in {"failed", "opened"} /\ (t # Timer => manager = t)
      /\ Return(t)
      /\ UNCHANGED <<listed, used, serves, client, disturbed, clients, owner, upcall, todo,
                     bounds>>
    BY DEF IInv, ManagerHeld, EndRun, Threads
<1>2. state' \in [Infos -> {"READY", "OK", "FAIL"}]
    BY DEF IInv, TypeOK, EndRun
<1> QED BY <1>1, <1>2, ReturnPreserves DEF IInv, TypeOK, clients

\* Listed records were made.
LEMMA TickBeginPreserves ==
    ASSUME IInv, TickBegin
    PROVE  IInv'
<1> USE DEF TickBegin
<1>1. TypeOK'
    BY DEF IInv, TypeOK, RecordsKnown, ThreadsKnown, ReactorKnown
<1>2. RecordsKnown'
    BY DEF IInv, TypeOK, RecordsKnown, ThreadsKnown
<1>3. ThreadsKnown'
    BY DEF IInv, TypeOK, RecordsKnown, ThreadsKnown, ReactorKnown
<1>4. ReactorKnown'
    BY DEF IInv, TypeOK, RecordsKnown, ReactorKnown
<1>5. ManagerHeld'
    BY DEF IInv, TypeOK, ManagerHeld
<1>6. Clean'
    <2>1. Quiet(Timer)
        BY DEF IInv, TypeOK, ReactorKnown, Quiet
    <2> QED BY <2>1, QuietPreserves
<1>7. CallerSafe'
    BY DEF IInv, TypeOK, ThreadsKnown, ManagerHeld, OwnClient, CallerSafe
<1> QED BY <1>1, <1>2, <1>3, <1>4, <1>5, <1>6, <1>7 DEF IInv, Clean

LEMMA TickOnePreserves ==
    ASSUME IInv, NEW i \in todo, TickOne(i)
    PROVE  IInv'
<1> USE DEF TickOne
<1>1. TypeOK'
    BY DEF IInv, TypeOK, RecordsKnown, ThreadsKnown, ReactorKnown
<1>2. RecordsKnown'
    BY DEF IInv, TypeOK, RecordsKnown, ThreadsKnown
<1>3. ThreadsKnown'
    BY DEF IInv, TypeOK, RecordsKnown, ThreadsKnown, ReactorKnown
<1>4. ReactorKnown'
    BY DEF IInv, TypeOK, RecordsKnown, ReactorKnown
<1>5. ManagerHeld'
    BY DEF IInv, TypeOK, ManagerHeld
<1>6. Clean'
    <2>1. Quiet(Timer)
        BY DEF IInv, TypeOK, ReactorKnown, Quiet
    <2> QED BY <2>1, QuietPreserves
<1>7. CallerSafe'
    BY DEF IInv, TypeOK, ThreadsKnown, ManagerHeld, OwnClient, CallerSafe
<1> QED BY <1>1, <1>2, <1>3, <1>4, <1>5, <1>6, <1>7 DEF IInv, Clean

LEMMA TickEndPreserves ==
    ASSUME IInv, TickEnd
    PROVE  IInv'
<1> USE DEF TickEnd
<1>1. TypeOK'
    BY DEF IInv, TypeOK, RecordsKnown, ThreadsKnown, ReactorKnown
<1>2. RecordsKnown'
    BY DEF IInv, TypeOK, RecordsKnown, ThreadsKnown
<1>3. ThreadsKnown'
    BY DEF IInv, TypeOK, RecordsKnown, ThreadsKnown, ReactorKnown
<1>4. ReactorKnown'
    BY DEF IInv, TypeOK, RecordsKnown, ReactorKnown
<1>5. ManagerHeld'
    BY DEF IInv, TypeOK, ManagerHeld
<1>6. Clean'
    <2>1. Quiet(Timer)
        BY DEF IInv, TypeOK, ReactorKnown, Quiet
    <2> QED BY <2>1, QuietPreserves
<1>7. CallerSafe'
    BY DEF IInv, TypeOK, ThreadsKnown, ManagerHeld, OwnClient, CallerSafe
<1> QED BY <1>1, <1>2, <1>3, <1>4, <1>5, <1>6, <1>7 DEF IInv, Clean

\* The client of an upcall is watched.
LEMMA InputPreserves ==
    ASSUME IInv, NEW c \in Clients, Input(c)
    PROVE  IInv'
<1> USE DEF Input, Upcall
<1>1. TypeOK'
    BY DEF IInv, TypeOK, RecordsKnown, ThreadsKnown, ReactorKnown
<1>2. RecordsKnown'
    BY DEF IInv, TypeOK, RecordsKnown, ThreadsKnown
<1>3. ThreadsKnown'
    BY DEF IInv, TypeOK, RecordsKnown, ThreadsKnown, ReactorKnown
<1>4. ReactorKnown'
    BY DEF IInv, TypeOK, RecordsKnown, ReactorKnown
<1>5. ManagerHeld'
    BY DEF IInv, TypeOK, ManagerHeld
<1>6. Clean'
    <2>1. Quiet(Reactor)
        BY DEF IInv, TypeOK, ReactorKnown, Quiet
    <2> QED BY <2>1, QuietPreserves
<1>7. CallerSafe'
    BY DEF IInv, TypeOK, ThreadsKnown, ManagerHeld, OwnClient, CallerSafe
<1> QED BY <1>1, <1>2, <1>3, <1>4, <1>5, <1>6, <1>7 DEF IInv, Clean

LEMMA InputEndPreserves ==
    ASSUME IInv, InputEnd
    PROVE  IInv'
<1> USE DEF InputEnd
<1>1. TypeOK'
    BY DEF IInv, TypeOK, RecordsKnown, ThreadsKnown, ReactorKnown
<1>2. RecordsKnown'
    BY DEF IInv, TypeOK, RecordsKnown, ThreadsKnown
<1>3. ThreadsKnown'
    BY DEF IInv, TypeOK, RecordsKnown, ThreadsKnown, ReactorKnown
<1>4. ReactorKnown'
    BY DEF IInv, TypeOK, RecordsKnown, ReactorKnown
<1>5. ManagerHeld'
    BY DEF IInv, TypeOK, ManagerHeld
<1>6. Clean'
    <2>1. Quiet(Reactor)
        BY DEF IInv, TypeOK, ReactorKnown, Quiet
    <2> QED BY <2>1, QuietPreserves
<1>7. CallerSafe'
    BY DEF IInv, TypeOK, ThreadsKnown, ManagerHeld, OwnClient, CallerSafe
<1> QED BY <1>1, <1>2, <1>3, <1>4, <1>5, <1>6, <1>7 DEF IInv, Clean

LEMMA DropPreserves ==
    ASSUME IInv, NEW c \in Clients, Drop(c)
    PROVE  IInv'
<1> USE DEF Drop, Upcall
<1>1. TypeOK'
    <2>1. drops' \in 0 .. MaxDrops
        BY BoundAssumption DEF IInv, TypeOK
    <2> QED BY <2>1 DEF IInv, TypeOK, ThreadsKnown
<1>2. RecordsKnown'
    BY DEF IInv, TypeOK, RecordsKnown, ThreadsKnown
<1>3. ThreadsKnown'
    BY DEF IInv, TypeOK, RecordsKnown, ThreadsKnown, ReactorKnown
<1>4. ReactorKnown'
    BY DEF IInv, TypeOK, RecordsKnown, ReactorKnown
<1>5. ManagerHeld'
    BY DEF IInv, TypeOK, ManagerHeld
<1>6. Clean'
    <2>1. Quiet(Reactor)
        BY DEF IInv, TypeOK, ReactorKnown, Quiet
    <2> QED BY <2>1, QuietPreserves
<1>7. CallerSafe'
    BY DEF IInv, TypeOK, ThreadsKnown, ManagerHeld, OwnClient, CallerSafe
<1> QED BY <1>1, <1>2, <1>3, <1>4, <1>5, <1>6, <1>7 DEF IInv, Clean

LEMMA OutputPreserves ==
    ASSUME IInv, NEW c \in Clients, Output(c)
    PROVE  IInv'
<1> USE DEF Output, Upcall
<1>1. TypeOK'
    BY DEF IInv, TypeOK, RecordsKnown, ThreadsKnown, ReactorKnown
<1>2. RecordsKnown'
    BY DEF IInv, TypeOK, RecordsKnown, ThreadsKnown
<1>3. ThreadsKnown'
    BY DEF IInv, TypeOK, RecordsKnown, ThreadsKnown, ReactorKnown
<1>4. ReactorKnown'
    BY DEF IInv, TypeOK, RecordsKnown, ReactorKnown
<1>5. ManagerHeld'
    BY DEF IInv, TypeOK, ManagerHeld
<1>6. Clean'
    <2>1. Quiet(Reactor)
        BY DEF IInv, TypeOK, ReactorKnown, Quiet
    <2> QED BY <2>1, QuietPreserves
<1>7. CallerSafe'
    BY DEF IInv, TypeOK, ThreadsKnown, ManagerHeld, OwnClient, CallerSafe
<1> QED BY <1>1, <1>2, <1>3, <1>4, <1>5, <1>6, <1>7 DEF IInv, Clean

LEMMA SendOnePreserves ==
    ASSUME IInv, SendOne
    PROVE  IInv'
<1>0. out' \in [Clients -> Seq({Data, Stop})]
    BY SendTakes
<1> USE DEF SendOne
<1>1. TypeOK'
    <2>1. /\ watch' \in [Clients -> SUBSET {"read", "write"}]
          /\ pc' = [pc EXCEPT ![Reactor] = pc'[Reactor]]
          /\ pc'[Reactor] \in {"close", "output"}
        BY DEF IInv, TypeOK
    <2> QED BY <1>0, <2>1 DEF IInv, TypeOK
<1>2. RecordsKnown'
    BY DEF IInv, TypeOK, RecordsKnown, ThreadsKnown
<1>3. ThreadsKnown'
    BY DEF IInv, TypeOK, RecordsKnown, ThreadsKnown, ReactorKnown
<1>4. ReactorKnown'
    BY DEF IInv, TypeOK, RecordsKnown, ReactorKnown
<1>5. ManagerHeld'
    BY DEF IInv, TypeOK, ManagerHeld
<1>6. Clean'
    <2>1. Quiet(Reactor)
        BY DEF IInv, TypeOK, ReactorKnown, Quiet
    <2> QED BY <2>1, QuietPreserves
<1>7. CallerSafe'
    BY DEF IInv, TypeOK, ThreadsKnown, ManagerHeld, OwnClient, CallerSafe
<1> QED BY <1>1, <1>2, <1>3, <1>4, <1>5, <1>6, <1>7 DEF IInv, Clean

LEMMA SendFailsPreserves ==
    ASSUME IInv, SendFails
    PROVE  IInv'
<1>0. out' \in [Clients -> Seq({Data, Stop})]
    BY SendTakes
<1> USE DEF SendFails
<1>1. TypeOK'
    <2>1. drops' \in 0 .. MaxDrops
        BY BoundAssumption DEF IInv, TypeOK
    <2> QED BY <1>0, <2>1 DEF IInv, TypeOK, ThreadsKnown
<1>2. RecordsKnown'
    BY DEF IInv, TypeOK, RecordsKnown, ThreadsKnown
<1>3. ThreadsKnown'
    BY DEF IInv, TypeOK, RecordsKnown, ThreadsKnown, ReactorKnown
<1>4. ReactorKnown'
    BY DEF IInv, TypeOK, RecordsKnown, ReactorKnown
<1>5. ManagerHeld'
    BY DEF IInv, TypeOK, ManagerHeld
<1>6. Clean'
    <2>1. Quiet(Reactor)
        BY DEF IInv, TypeOK, ReactorKnown, Quiet
    <2> QED BY <2>1, QuietPreserves
<1>7. CallerSafe'
    BY DEF IInv, TypeOK, ThreadsKnown, ManagerHeld, OwnClient, CallerSafe
<1> QED BY <1>1, <1>2, <1>3, <1>4, <1>5, <1>6, <1>7 DEF IInv, Clean

LEMMA OutputEmptyPreserves ==
    ASSUME IInv, OutputEmpty
    PROVE  IInv'
<1> USE DEF OutputEmpty
<1>1. TypeOK'
    BY DEF IInv, TypeOK, RecordsKnown, ThreadsKnown, ReactorKnown
<1>2. RecordsKnown'
    BY DEF IInv, TypeOK, RecordsKnown, ThreadsKnown
<1>3. ThreadsKnown'
    BY DEF IInv, TypeOK, RecordsKnown, ThreadsKnown, ReactorKnown
<1>4. ReactorKnown'
    BY DEF IInv, TypeOK, RecordsKnown, ReactorKnown
<1>5. ManagerHeld'
    BY DEF IInv, TypeOK, ManagerHeld
<1>6. Clean'
    <2>1. Quiet(Reactor)
        BY DEF IInv, TypeOK, ReactorKnown, Quiet
    <2> QED BY <2>1, QuietPreserves
<1>7. CallerSafe'
    BY DEF IInv, TypeOK, ThreadsKnown, ManagerHeld, OwnClient, CallerSafe
<1> QED BY <1>1, <1>2, <1>3, <1>4, <1>5, <1>6, <1>7 DEF IInv, Clean

LEMMA OutputEndPreserves ==
    ASSUME IInv, OutputEnd
    PROVE  IInv'
<1> USE DEF OutputEnd
<1>1. TypeOK'
    BY DEF IInv, TypeOK, RecordsKnown, ThreadsKnown, ReactorKnown
<1>2. RecordsKnown'
    BY DEF IInv, TypeOK, RecordsKnown, ThreadsKnown
<1>3. ThreadsKnown'
    BY DEF IInv, TypeOK, RecordsKnown, ThreadsKnown, ReactorKnown
<1>4. ReactorKnown'
    BY DEF IInv, TypeOK, RecordsKnown, ReactorKnown
<1>5. ManagerHeld'
    BY DEF IInv, TypeOK, ManagerHeld
<1>6. Clean'
    <2>1. Quiet(Reactor)
        BY DEF IInv, TypeOK, ReactorKnown, Quiet
    <2> QED BY <2>1, QuietPreserves
<1>7. CallerSafe'
    BY DEF IInv, TypeOK, ThreadsKnown, ManagerHeld, OwnClient, CallerSafe
<1> QED BY <1>1, <1>2, <1>3, <1>4, <1>5, <1>6, <1>7 DEF IInv, Clean

\* As for a connect that fails.
LEMMA HandleClosePreserves ==
    ASSUME IInv, HandleClose
    PROVE  IInv'
<1> USE DEF HandleClose, Vanish, Record, Disturbs, Owning, Managing
<1>1. TypeOK'
    BY DEF IInv, TypeOK, RecordsKnown, ThreadsKnown, ReactorKnown
<1>2. RecordsKnown'
    BY DEF IInv, TypeOK, RecordsKnown, ThreadsKnown
<1>3. ThreadsKnown'
    BY DEF IInv, TypeOK, RecordsKnown, ThreadsKnown, ReactorKnown
<1>4. ReactorKnown'
    BY DEF IInv, TypeOK, RecordsKnown, ReactorKnown
<1>5. ManagerHeld'
    BY DEF IInv, TypeOK, ManagerHeld
<1>6. Clean'
    <2>0. disturbed => disturbed'
        OBVIOUS
    <2> SUFFICES ASSUME ~disturbed', ~disturbed PROVE Clean'
        BY <2>0 DEF Clean, Alive, MakersKnown, MakersApart, OwnClient
    <2>b. /\ upcall \in Clients /\ life[upcall] \in {"open", "deaf"}
          /\ home[upcall] \in Servers /\ upcall' = Nil
          /\ pc[Reactor] = "close" /\ pc' = [pc EXCEPT ![Reactor] = "idle"]
          /\ UNCHANGED <<listed, serves, home, record, hand>>
        BY DEF IInv, ReactorKnown, Alive
    <2>c. /\ life' = [life EXCEPT ![upcall] = "free"]
          /\ watch' = [watch EXCEPT ![upcall] = {}]
          /\ client' = IF listed[home[upcall]] = Nil THEN client
                       ELSE [client EXCEPT ![listed[home[upcall]]] = Nil]
          /\ \A u \in Threads \ {Reactor} : pc[u] \in Dialling => record[u] # listed[home[upcall]]
        BY <2>b
    <2>a. \A u \in Threads \ {Reactor} : pc[u] \in Making =>
              KnowsClient(u) /\ Held(u) \in Clients /\ Held(u) # upcall
        BY <2>b DEF IInv, MakersKnown, KnowsClient
    <2> HIDE DEF HandleClose, Vanish, Record, Disturbs, Held
    <2>1. Alive'
        BY <2>b, <2>c DEF IInv, TypeOK, Alive
    <2>2. Beside(Reactor)
        BY <2>a, <2>b, <2>c DEF IInv, TypeOK, ThreadsKnown, Beside
    <2>3. pc'[Reactor] \notin Making
        BY <2>b DEF IInv, TypeOK
    <2>4. MakersKnown' /\ MakersApart'
        BY <2>a, <2>2, <2>3, BesidePreserves
    <2>5. OwnClient'
        BY <2>b, <2>c DEF IInv, TypeOK, RecordsKnown, OwnClient
    <2> QED BY <2>1, <2>4, <2>5 DEF Clean
<1>7. CallerSafe'
    BY DEF IInv, TypeOK, ThreadsKnown, ManagerHeld, OwnClient, CallerSafe
<1> QED BY <1>1, <1>2, <1>3, <1>4, <1>5, <1>6, <1>7 DEF IInv, Clean

LEMMA InitIInv == Init => IInv
<1> SUFFICES ASSUME Init PROVE IInv
    OBVIOUS
<1> USE NilAssumption DEF Init
<1>1. TypeOK
    <2>1. ops \in 0 .. MaxOps /\ refusals \in 0 .. MaxRefusals /\ drops \in 0 .. MaxDrops
        BY BoundAssumption
    <2>2. pc \in [Threads -> Points]
        OBVIOUS
    <2>3. out \in [Clients -> Seq({Data, Stop})]
        OBVIOUS
    <2> QED BY <2>1, <2>2, <2>3 DEF TypeOK
<1>2. RecordsKnown /\ ThreadsKnown /\ ReactorKnown /\ ManagerHeld
    BY DEF RecordsKnown, ThreadsKnown, ReactorKnown, ManagerHeld, Threads, Callers
<1>3. OwnClient /\ CallerSafe /\ Alive /\ MakersKnown /\ MakersApart
    BY DEF OwnClient, CallerSafe, Alive, MakersKnown, MakersApart
<1> QED BY <1>1, <1>2, <1>3 DEF IInv

LEMMA StutterPreserves == IInv /\ UNCHANGED vars => IInv'
<1> SUFFICES ASSUME IInv, UNCHANGED vars PROVE IInv'
    OBVIOUS
<1> USE DEF vars, records, clients, locks, threads, bounds
<1>1. TypeOK'
    BY DEF IInv, TypeOK
<1>2. RecordsKnown' /\ ThreadsKnown' /\ ReactorKnown' /\ ManagerHeld'
    BY DEF IInv, RecordsKnown, ThreadsKnown, ReactorKnown, ManagerHeld
<1>3. OwnClient' /\ CallerSafe'
    BY DEF IInv, OwnClient, CallerSafe
<1>4. Alive' /\ MakersKnown' /\ MakersApart'
    BY DEF IInv, Alive, MakersKnown, MakersApart, KnowsClient, Held
<1> QED BY <1>1, <1>2, <1>3, <1>4 DEF IInv

LEMMA NextPreserves == IInv /\ Next => IInv'
<1> SUFFICES ASSUME IInv, Next PROVE IInv'
    OBVIOUS
<1>1. ASSUME NEW t \in Callers, NEW o \in Operations, NEW s \in Servers, Call(t, o, s)
      PROVE  IInv'
    BY <1>1, CallPreserves
<1>2. ASSUME NEW t \in Callers, InManager(t)
      PROVE  IInv'
    BY <1>2, ConnectPreserves, SendDataPreserves, ReConnectPreserves, ClosePreserves,
       PutPreserves, ClientClosePreserves DEF InManager
<1>3. ASSUME NEW t \in Threads, InRun(t) \/ ConnectFails(t)
      PROVE  IInv'
    BY <1>3, RunRefusedPreserves, RunPreserves, NewClientPreserves,
       SetServerIDPreserves, MakeHandlerPreserves, ConnectedPreserves, RefusedPreserves,
       OpenPreserves,
       GetClientMessagePreserves, RegisterPreserves, CancelWakeupPreserves,
       EndRunPreserves, ConnectFailsPreserves DEF InRun
<1>4. CASE TimerStep
    BY <1>4, TickBeginPreserves, TickOnePreserves, TickEndPreserves DEF TimerStep
<1>5. CASE ReactorStep \/ SendFails
    BY <1>5, InputEndPreserves, SendOnePreserves, OutputEmptyPreserves,
       OutputEndPreserves, HandleClosePreserves, OutputPreserves, SendFailsPreserves
       DEF ReactorStep
<1>6. ASSUME NEW c \in Clients, Input(c) \/ Drop(c)
      PROVE  IInv'
    BY <1>6, InputPreserves, DropPreserves
<1> QED BY <1>1, <1>2, <1>3, <1>4, <1>5, <1>6 DEF Next

LEMMA Invariance == Spec => []IInv
<1>1. Init => IInv
    BY InitIInv
<1>2. IInv /\ [Next]_vars => IInv'
    BY NextPreserves, StutterPreserves
<1> QED BY <1>1, <1>2, PTL DEF Spec

\* Every variable keeps its type, for any servers, records, clients, modules and
\* bounds: among the rest, the record and the client a thread goes on with are
\* there, and the timer goes through records only.
THEOREM TypeCorrect == Spec => []TypeOK
<1>1. IInv => TypeOK
    BY DEF IInv
<1> QED BY <1>1, Invariance, PTL

\* A thread whose pointer another thread changes is the timer, or is met by the
\* timer: two callers, or a caller and the reactor, would both have to hold the
\* manager's lock.
LEMMA TimerMeets ==
    ASSUME IInv, NEW t \in Threads, NEW i, Disturbs(t, i),
           pc[t] \in InsideRun \/ manager \in {Nil, t}
    PROVE  pc[Timer] \in InsideRun
<1>1. PICK u \in Threads \ {t} : pc[u] \in Dialling
    BY DEF Disturbs
<1>2. CASE u = Timer \/ (t = Timer /\ pc[t] \in InsideRun)
    BY <1>1, <1>2
<1>3. CASE u # Timer /\ (t # Timer \/ pc[t] \notin InsideRun)
    <2>1. manager = u
        BY <1>1, <1>3 DEF IInv, ManagerHeld
    <2>2. manager \in {Nil, t}
        BY <1>3 DEF IInv, ManagerHeld
    <2> QED BY <1>1, <2>1, <2>2
<1> QED BY <1>2, <1>3

LEMMA TimerDisturbs == IInv /\ [Next]_vars => (disturbed' # disturbed => pc[Timer] \in InsideRun)
<1> SUFFICES ASSUME IInv, Next, disturbed' # disturbed PROVE pc[Timer] \in InsideRun
    BY DEF vars
<1>1. CASE \E t \in Callers, o \in Operations, s \in Servers : Call(t, o, s)
    BY <1>1 DEF Call
<1>2. ASSUME NEW t \in Callers, InManager(t)
      PROVE  disturbed' = disturbed
    BY <1>2 DEF InManager, Connect, SendData, ReConnect, Close, Put, ClientClose
<1>3. ASSUME NEW t \in Threads, InRun(t) \/ ConnectFails(t)
      PROVE  pc[Timer] \in InsideRun
    <2>1. CASE \/ RunRefused(t) \/ Run(t) \/ SetServerID(t) \/ Connected(t)
               \/ GetClientMessage(t) \/ Register(t) \/ CancelWakeup(t) \/ EndRun(t)
               \/ ConnectFails(t)
        BY <2>1 DEF RunRefused, Run, SetServerID, Connected, GetClientMessage, Register,
           CancelWakeup, EndRun, ConnectFails
    <2>2. CASE NewClient(t) \/ MakeHandler(t)
        <3>1. pc[t] \in InsideRun /\ Disturbs(t, record[t])
            BY <2>2 DEF IInv, TypeOK, NewClient, MakeHandler, Construct
        <3> QED BY <3>1, TimerMeets
    <2>3. CASE Refused(t)
        <3>1. pc[t] \in InsideRun /\ Disturbs(t, Record(hand[t]))
            BY <2>3 DEF IInv, TypeOK, Refused, Vanish
        <3> QED BY <3>1, TimerMeets
    <2>4. CASE Open(t)
        <3>1. pc[t] \in InsideRun /\ Disturbs(t, Record(hand[t]))
            BY <2>4 DEF IInv, TypeOK, Open
        <3> QED BY <3>1, TimerMeets
    <2> QED BY <1>3, <2>1, <2>2, <2>3, <2>4 DEF InRun
<1>4. CASE TimerStep
    BY <1>4 DEF TimerStep, TickBegin, TickEnd, TickOne
<1>5. CASE ReactorStep \/ SendFails
    <2>1. CASE HandleClose
        <3>1. manager \in {Nil, Reactor} /\ Disturbs(Reactor, Record(upcall))
            BY <2>1 DEF IInv, TypeOK, HandleClose, Vanish, Managing
        <3> QED BY <3>1, TimerMeets
    <2> QED BY <1>5, <2>1 DEF ReactorStep, InputEnd, SendOne, OutputEmpty, OutputEnd, Output,
            Upcall, SendFails
<1>6. CASE \E c \in Clients : Input(c) \/ Drop(c)
    BY <1>6 DEF Input, Drop
<1> QED BY <1>1, <1>2, <1>3, <1>4, <1>5, <1>6 DEF Next

\* The pointer of a record is changed under a thread in Run only while the timer
\* is in Run too, for any number of modules, servers and records.
THEOREM OnlyTimerDisturbsHolds == Spec => OnlyTimerDisturbs
<1>1. IInv /\ [Next]_vars => [disturbed' # disturbed => pc[Timer] \in InsideRun]_vars
    BY TimerDisturbs
<1> QED BY <1>1, Invariance, PTL DEF Spec, OnlyTimerDisturbs

\* Until a Run has been disturbed, the pointer of a listed record never leads to a
\* client that is gone or that has the number of another server.
THEOREM OwnClientHolds == Spec => []OwnClient
<1>1. IInv => OwnClient
    BY DEF IInv
<1> QED BY <1>1, Invariance, PTL

\* Until then, a caller that waits for a client's lock never waits for a deleted
\* client.
THEOREM CallerSafeHolds == Spec => []CallerSafe
<1>1. IInv => CallerSafe
    BY DEF IInv
<1> QED BY <1>1, Invariance, PTL
=============================================================================
