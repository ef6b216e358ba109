------------------------- MODULE ConnectHandler_proofs -------------------------
(***************************************************************************)
(* Proofs about ConnectHandler, for any number of handlers, connections    *)
(* and requests, and queues of any length.  Life says where a handler can  *)
(* be between its pool, the acceptor and its reactor, and what the workers *)
(* have been told by then.  Order says that requests keep their numbers'   *)
(* order all the way from the manager's queue to the peers, and that a     *)
(* handler whose MB_STOP block is gone is on its way to the pool.          *)
(***************************************************************************)
EXTENDS ConnectHandler, TLAPS

\* Upcalls from which a handler only goes back to the pool.
Closing == {"drain", "close", "unlist", "recycle"}

Stage(h) ==
    /\ h \in pool => /\ opening[h] \in {"no", "cancel"} /\ upcall[h] = "none"
                     /\ watch[h] = "none" /\ id[h] = 0
    /\ opening[h] = "open" => /\ h \notin pool /\ upcall[h] = "none"
                              /\ watch[h] = "none" /\ id[h] = 0
    /\ opening[h] \in {"tell", "state", "register"} =>
           upcall[h] = "none" /\ watch[h] = "none" /\ id[h] # 0
    /\ opening[h] = "failed" => upcall[h] \in Closing /\ watch[h] = "none"
    /\ watch[h] # "none" => /\ opening[h] \in {"no", "cancel"} /\ id[h] # 0
                            /\ upcall[h] \notin {"unlist", "recycle"}
    /\ upcall[h] \in {"output", "cancel"} =>
           opening[h] \in {"no", "cancel"} /\ id[h] # 0
    /\ upcall[h] \in Closing => opening[h] \in {"no", "cancel", "failed"}

Stages == \A h \in Handlers : Stage(h)

\* A connect id has one handler.
Distinct == \A g, h \in Handlers : id[g] # 0 /\ id[g] = id[h] => g = h

Listing ==
    /\ \A i \in Connections : list[i] # Nil => id[list[i]] = i
    /\ \A h \in Handlers : upcall[h] = "recycle" =>
           \A i \in Connections : list[i] # h

\* What the workers know of the connection a handler carries.
Informed(h) ==
    id[h] # 0 =>
        /\ id[h] <= last
        /\ opening[h] = "tell" <=> events[id[h]] = << >>
        /\ upcall[h] \notin {"unlist", "recycle"} =>
               \A k \in DOMAIN events[id[h]] : events[id[h]][k] # "disconnect"

Told ==
    /\ \A h \in Handlers : Informed(h)
    /\ \A i \in Connections : i > last => events[i] = << >> /\ sent[i] = << >>

Life == Stages /\ Distinct /\ Listing /\ Told /\ EventsInOrder

\* The send thread has what it needs, and its handler is the one that carries
\* the connection of its request, if any does.
SenderKnown ==
    pc # "idle" =>
        /\ job \in Requests /\ target \in Handlers
        /\ pc \in {"stop", "mark"} => job.kind = "close"
        /\ job.id <= last
        /\ \A h \in Handlers : id[h] = job.id => h = target

Increasing(s) == \A j, k \in DOMAIN s : j < k => s[j].n < s[k].n

\* A request with this number has left the hands of the send thread.
Past(n) ==
    /\ n <= posts
    /\ \A k \in DOMAIN sendq : n < sendq[k].n
    /\ pc \in {"check", "put", "stop"} => n < job.n

Posting ==
    /\ Increasing(sendq)
    /\ \A k \in DOMAIN sendq : sendq[k].n <= posts /\ sendq[k].id <= last
    /\ pc # "idle" => job.n <= posts /\ \A k \in DOMAIN sendq : job.n < sendq[k].n

Queued ==
    \A h \in Handlers :
        /\ Increasing(queue[h])
        /\ \A k \in DOMAIN queue[h] : Past(queue[h][k].n)
        /\ id[h] # 0 => \A j \in DOMAIN sent[id[h]], k \in DOMAIN queue[h] :
                            sent[id[h]][j].n < queue[h][k].n

SentPast ==
    \A i \in Connections :
        Increasing(sent[i]) /\ \A k \in DOMAIN sent[i] : Past(sent[i][k].n)

\* The MB_STOP block of a connection waits in the queue of its handler, or has
\* been taken out and the handler closes.
StopsHold ==
    \A c \in stopped :
        /\ c.kind = "close" /\ c.id <= last /\ Past(c.n)
        /\ \A h \in Handlers : id[h] = c.id =>
               \/ \E k \in DOMAIN queue[h] : queue[h][k] = c
               \/ upcall[h] \in Closing

Order == SenderKnown /\ Posting /\ Queued /\ SentPast /\ StopsHold /\ NothingAfterStop

IInv == TypeOK /\ Life /\ Order

-----------------------------------------------------------------------------
(* Sequences. *)

LEMMA ElementOf ==
    ASSUME NEW S, NEW s \in Seq(S), NEW k \in DOMAIN s PROVE s[k] \in S
    OBVIOUS

LEMMA AppendAt ==
    ASSUME NEW S, NEW s \in Seq(S), NEW e \in S
    PROVE  /\ Append(s, e) \in Seq(S) /\ Len(Append(s, e)) = Len(s) + 1
           /\ Len(s) \in Nat /\ DOMAIN s = 1 .. Len(s)
           /\ DOMAIN Append(s, e) = 1 .. Len(s) + 1
           /\ \A k \in DOMAIN s : Append(s, e)[k] = s[k]
           /\ Append(s, e)[Len(s) + 1] = e
    OBVIOUS

LEMMA TailAt ==
    ASSUME NEW S, NEW s \in Seq(S), s # << >>
    PROVE  /\ Tail(s) \in Seq(S) /\ Len(Tail(s)) = Len(s) - 1
           /\ Len(s) \in Nat \ {0} /\ DOMAIN s = 1 .. Len(s)
           /\ DOMAIN Tail(s) = 1 .. Len(s) - 1
           /\ \A k \in DOMAIN Tail(s) : Tail(s)[k] = s[k + 1] /\ k + 1 \in DOMAIN s
           /\ Head(s) = s[1] /\ Head(s) \in S
    OBVIOUS

LEMMA IncreasingAppend ==
    ASSUME NEW s \in Seq(Requests), NEW e \in Requests, Increasing(s),
           \A k \in DOMAIN s : s[k].n < e.n
    PROVE  Increasing(Append(s, e))
    BY AppendAt DEF Increasing

LEMMA IncreasingTail ==
    ASSUME NEW s \in Seq(Requests), s # << >>, Increasing(s)
    PROVE  /\ Increasing(Tail(s))
           /\ \A k \in DOMAIN Tail(s) : Head(s).n < Tail(s)[k].n
<1>1. \A k \in DOMAIN Tail(s) : k \in Nat /\ k >= 1
    BY TailAt
<1> QED BY <1>1, TailAt DEF Increasing


-----------------------------------------------------------------------------
(* What one step on one handler leaves of Life. *)

\* The rest of the handlers stay where they are.
LEMMA OneStage ==
    ASSUME Stages, NEW h \in Handlers,
           id' = [id EXCEPT ![h] = id'[h]], watch' = [watch EXCEPT ![h] = watch'[h]],
           opening' = [opening EXCEPT ![h] = opening'[h]],
           upcall' = [upcall EXCEPT ![h] = upcall'[h]],
           pool' \ {h} = pool \ {h}, TypeOK, Stage(h)'
    PROVE  Stages'
<1>1. ASSUME NEW g \in Handlers, g # h
      PROVE  /\ id'[g] = id[g] /\ watch'[g] = watch[g] /\ opening'[g] = opening[g]
             /\ upcall'[g] = upcall[g] /\ (g \in pool' <=> g \in pool)
    BY <1>1 DEF TypeOK
<1>2. ASSUME NEW g \in Handlers, g # h PROVE Stage(g)'
    BY <1>1, <1>2 DEF Stages, Stage
<1> QED BY <1>2 DEF Stages

\* And the workers know of their connections what they knew.
LEMMA OneInformed ==
    ASSUME TypeOK, Told, Distinct', NEW h \in Handlers,
           id' = [id EXCEPT ![h] = id'[h]],
           opening' = [opening EXCEPT ![h] = opening'[h]],
           upcall' = [upcall EXCEPT ![h] = upcall'[h]],
           last' \in 0 .. MaxConnects, last <= last',
           \A i \in Connections : i # id'[h] => events'[i] = events[i],
           Informed(h)'
    PROVE  \A g \in Handlers : Informed(g)'
<1>1. ASSUME NEW g \in Handlers, g # h
      PROVE  id'[g] = id[g] /\ opening'[g] = opening[g] /\ upcall'[g] = upcall[g]
    BY <1>1 DEF TypeOK
<1>2. ASSUME NEW g \in Handlers, g # h, id[g] # 0 PROVE events'[id[g]] = events[id[g]]
    <2>1. id[g] \in Connections
        BY <1>2, NumberAssumption DEF TypeOK, Connections
    <2>2. id[g] # id'[h]
        BY <1>1, <1>2 DEF Distinct
    <2> QED BY <2>1, <2>2
<1>3. ASSUME NEW g \in Handlers, g # h PROVE Informed(g)'
    <2>1. id[g] \in Nat /\ last \in Nat /\ last' \in Nat
        BY NumberAssumption DEF TypeOK
    <2> QED BY <1>1, <1>2, <1>3, <2>1 DEF Told, Informed
<1> QED BY <1>3

\* A step of the acceptor or of a reactor that moves h and says nothing.
LEMMA LifeMove ==
    ASSUME TypeOK, Life, NEW h \in Handlers,
           UNCHANGED <<id, list, last, events, sent>>,
           watch' = [watch EXCEPT ![h] = watch'[h]],
           opening' = [opening EXCEPT ![h] = opening'[h]],
           upcall' = [upcall EXCEPT ![h] = upcall'[h]],
           pool' \ {h} = pool \ {h}, Stage(h)',
           opening'[h] = "tell" <=> opening[h] = "tell",
           upcall[h] \in {"unlist", "recycle"} <=> upcall'[h] \in {"unlist", "recycle"},
           upcall'[h] = "recycle" => upcall[h] = "recycle"
    PROVE  Life'
<1>1. id' = [id EXCEPT ![h] = id'[h]] /\ Distinct'
    BY DEF TypeOK, Life, Distinct
<1>2. Stages'
    BY <1>1, OneStage DEF Life
<1>3. Listing'
    BY DEF Life, Listing, TypeOK
<1>4. Informed(h)'
    BY DEF Life, Told, Informed
<1>5. last' \in 0 .. MaxConnects /\ last <= last'
    BY NumberAssumption DEF TypeOK
<1>6. \A g \in Handlers : Informed(g)'
    BY <1>1, <1>4, <1>5, OneInformed DEF Life
<1>7. Told' /\ EventsInOrder'
    BY <1>6 DEF Life, Told, EventsInOrder
<1> QED BY <1>1, <1>2, <1>3, <1>7 DEF Life

\* A step that leaves the handlers and the histories of Life alone.
LEMMA LifeSame ==
    ASSUME Life, UNCHANGED <<pool, id, watch, opening, upcall, list, last, events, sent>>
    PROVE  Life'
<1>1. Stages' /\ Distinct' /\ Listing'
    BY DEF Life, Stages, Stage, Distinct, Listing
<1>2. Told' /\ EventsInOrder'
    BY DEF Life, Told, Informed, EventsInOrder
<1> QED BY <1>1, <1>2 DEF Life

-----------------------------------------------------------------------------
(* What is left of Order. *)

\* A step that moves no request: handlers may be given new connect ids or lose
\* theirs, and a handler that closes goes on to do so.
LEMMA OrderQuiet ==
    ASSUME TypeOK, Order, UNCHANGED <<queue, sendq, sender, posts, sent, stopped>>,
           last' \in 0 .. MaxConnects, last <= last',
           \A h \in Handlers :
               /\ \/ id'[h] = id[h] /\ (upcall[h] \in Closing => upcall'[h] \in Closing)
                  \/ id'[h] = 0
                  \/ id'[h] \in Connections /\ id'[h] > last /\ sent[id'[h]] = << >>
    PROVE  Order'
<1>1. last \in Nat /\ last' \in Nat
    BY NumberAssumption DEF TypeOK
<1>2. UNCHANGED <<pc, job, target>>
    BY DEF sender
<1>3. \A r \in Requests : r.id \in Nat \ {0}
    BY DEF Requests, Connections
<1>4. SenderKnown'
    BY <1>1, <1>2, <1>3 DEF Order, SenderKnown, Connections
<1>5. \A n : Past(n)' <=> Past(n)
    BY <1>2 DEF Past
<1>6. Posting' /\ SentPast'
    <2>1. \A k \in DOMAIN sendq : sendq[k].id \in Nat
        BY <1>3, ElementOf DEF TypeOK
    <2> QED BY <1>1, <1>2, <1>5, <2>1 DEF Order, Posting, SentPast
<1>7. Queued'
    BY <1>5 DEF Order, Queued
<1>8. StopsHold'
    <2>1. \A c \in stopped : c.id \in Nat \ {0}
        BY <1>3 DEF TypeOK
    <2> QED BY <1>1, <1>5, <2>1 DEF Order, StopsHold, Connections
<1>9. NothingAfterStop'
    BY DEF Order, NothingAfterStop
<1> QED BY <1>4, <1>6, <1>7, <1>8, <1>9 DEF Order

-----------------------------------------------------------------------------
(* The acceptor. *)

LEMMA AcceptPreserves ==
    ASSUME IInv, NEW h \in Handlers, Accept(h) PROVE IInv'
<1>1. TypeOK /\ Life /\ Order
    BY DEF IInv
<1>2. /\ h \in pool /\ opening[h] = "no" /\ pool' = pool \ {h}
      /\ opening' = [opening EXCEPT ![h] = "open"]
      /\ UNCHANGED <<id, state, queue, watch, upcall, list, last, sendq, pc, job,
                     target, posts, events, sent, stopped>>
    BY DEF Accept, Open, manager, sender, history
<1>3. TypeOK'
    BY <1>1, <1>2 DEF TypeOK
<1>4. upcall[h] = "none" /\ watch[h] = "none" /\ id[h] = 0 /\ opening'[h] = "open"
    BY <1>1, <1>2 DEF Life, Stages, Stage, TypeOK
<1>5. Stage(h)'
    BY <1>2, <1>4 DEF Stage, Closing
<1>6. Life'
    BY <1>1, <1>2, <1>4, <1>5, LifeMove DEF TypeOK
<1>7. Order'
    BY <1>1, <1>2, NumberAssumption, OrderQuiet DEF TypeOK, sender
<1> QED BY <1>3, <1>6, <1>7 DEF IInv

LEMMA OpenFailsPreserves ==
    ASSUME IInv, NEW h \in Handlers, OpenFails(h) PROVE IInv'
<1>1. TypeOK /\ Life /\ Order
    BY DEF IInv
<1>2. /\ opening[h] = "open" /\ opening' = [opening EXCEPT ![h] = "failed"]
      /\ upcall[h] = "none" /\ upcall' = [upcall EXCEPT ![h] = "drain"]
      /\ UNCHANGED <<pool, id, state, queue, watch, list, last, sendq, pc, job,
                     target, posts, events, sent, stopped>>
    BY DEF OpenFails, Open, Upcall, manager, sender, history
<1>3. TypeOK'
    BY <1>1, <1>2 DEF TypeOK
<1>4. /\ h \notin pool /\ watch[h] = "none" /\ id[h] = 0
      /\ opening'[h] = "failed" /\ upcall'[h] = "drain"
    BY <1>1, <1>2 DEF Life, Stages, Stage, TypeOK
<1>5. Stage(h)'
    BY <1>2, <1>4 DEF Stage, Closing
<1>6. Life'
    BY <1>1, <1>2, <1>4, <1>5, LifeMove DEF TypeOK
<1>7. Order'
    BY <1>1, <1>2, NumberAssumption, OrderQuiet DEF TypeOK, sender, Closing
<1> QED BY <1>3, <1>6, <1>7 DEF IInv

\* A handler without a connection is listed for one.
LEMMA ListingGrows ==
    ASSUME TypeOK, Listing, NEW h \in Handlers, NEW i \in Connections,
           list' = [list EXCEPT ![i] = h], id' = [id EXCEPT ![h] = i],
           upcall' = upcall, upcall[h] = "none", id[h] \notin Connections
    PROVE  Listing'
<1>1. /\ list \in [Connections -> Handlers \cup {Nil}]
      /\ \A g \in Handlers : id'[g] = IF g = h THEN i ELSE id[g]
    BY DEF TypeOK
<1>2. \A j \in Connections : list'[j] = IF j = i THEN h ELSE list[j]
    BY <1>1
<1>3. ASSUME NEW j \in Connections, list'[j] # Nil PROVE id'[list'[j]] = j
    <2>1. CASE j = i
        BY <1>1, <1>2, <2>1
    <2>2. CASE j # i
        <3>1. list[j] \in Handlers /\ id[list[j]] = j
            BY <1>1, <1>2, <1>3, <2>2 DEF Listing
        <3> QED BY <1>1, <1>2, <2>2, <3>1
    <2> QED BY <2>1, <2>2
<1>4. ASSUME NEW g \in Handlers, upcall'[g] = "recycle", NEW j \in Connections
      PROVE  list'[j] # g
    BY <1>2, <1>4 DEF Listing
<1> QED BY <1>3, <1>4 DEF Listing

\* The connect id is a new one, so no request and no event is about it yet.
LEMMA AddConnectPreserves ==
    ASSUME IInv, NEW h \in Handlers, AddConnect(h) PROVE IInv'
<1>1. TypeOK /\ Life /\ Order
    BY DEF IInv
<1>2. PICK i \in Connections :
          /\ i = last + 1 /\ last' = i /\ last \in Nat /\ i \in 1 .. MaxConnects
          /\ opening[h] = "open" /\ opening' = [opening EXCEPT ![h] = "tell"]
          /\ id' = [id EXCEPT ![h] = i] /\ list' = [list EXCEPT ![i] = h]
          /\ UNCHANGED <<pool, state, queue, watch, upcall, sendq, pc, job,
                         target, posts, events, sent, stopped>>
    <2>1. last \in Nat /\ last + 1 \in 1 .. MaxConnects
        BY <1>1, NumberAssumption DEF TypeOK, AddConnect
    <2>2. last + 1 \in Connections
        BY <2>1 DEF Connections
    <2>3. /\ last' = last + 1
          /\ opening[h] = "open" /\ opening' = [opening EXCEPT ![h] = "tell"]
          /\ id' = [id EXCEPT ![h] = last + 1] /\ list' = [list EXCEPT ![last + 1] = h]
          /\ UNCHANGED <<pool, state, queue, watch, upcall, sendq, pc, job,
                         target, posts, events, sent, stopped>>
        BY DEF AddConnect, Open, GetGroupIndex, sender, history
    <2> QED BY <2>1, <2>2, <2>3
<1>3. TypeOK'
    BY <1>1, <1>2 DEF TypeOK
<1>4. /\ h \notin pool /\ watch[h] = "none" /\ upcall[h] = "none"
      /\ opening'[h] = "tell" /\ id'[h] = i /\ i # 0
    BY <1>1, <1>2 DEF Life, Stages, Stage, TypeOK
<1>5. Stages'
    <2>1. Stage(h)'
        BY <1>2, <1>4 DEF Stage, Closing
    <2> QED BY <1>1, <1>2, <1>4, <2>1, OneStage DEF Life, TypeOK
<1>6. \A g \in Handlers : id[g] # i
    BY <1>1, <1>2, <1>4 DEF Life, Told, Informed
<1>7. Distinct'
    BY <1>1, <1>2, <1>4, <1>6 DEF Life, Distinct, TypeOK
<1>8. Listing'
    <2>1. id[h] \notin Connections
        BY <1>1, <1>2 DEF Life, Stages, Stage, Connections
    <2> QED BY <1>1, <1>2, <1>4, <2>1, ListingGrows DEF Life
<1>9. Told'
    <2>1. events[i] = << >>
        BY <1>1, <1>2 DEF Life, Told
    <2>2. Informed(h)'
        BY <1>2, <1>4, <2>1 DEF Informed
    <2>3. \A g \in Handlers : Informed(g)'
        <3>1. last' \in 0 .. MaxConnects /\ last <= last'
            BY <1>2
        <3>2. Told /\ \A j \in Connections : j # id'[h] => events'[j] = events[j]
            BY <1>1, <1>2 DEF Life
        <3>3. upcall' = [upcall EXCEPT ![h] = upcall'[h]]
            BY <1>1, <1>2 DEF TypeOK
        <3> QED BY <1>1, <1>2, <1>4, <1>7, <2>2, <3>1, <3>2, <3>3, OneInformed
    <2>4. \A j \in Connections : j > last' => j > last
        BY <1>2 DEF Connections
    <2> QED BY <1>1, <1>2, <2>3, <2>4 DEF Life, Told
<1>10. Life'
    BY <1>1, <1>2, <1>5, <1>7, <1>8, <1>9 DEF Life, EventsInOrder
<1>11. Order'
    <2>1. sent[i] = << >>
        BY <1>1, <1>2 DEF Life, Told
    <2>2. last' \in 0 .. MaxConnects /\ last <= last'
        BY <1>2
    <2>3. \A g \in Handlers : g # h => id'[g] = id[g]
        BY <1>1, <1>2 DEF TypeOK
    <2> QED BY <1>1, <1>2, <1>4, <2>1, <2>2, <2>3, OrderQuiet DEF sender
<1> QED BY <1>3, <1>10, <1>11 DEF IInv

\* The acceptor raises the first event of the connection.
LEMMA TellConnectPreserves ==
    ASSUME IInv, NEW h \in Handlers, TellConnect(h) PROVE IInv'
<1>1. TypeOK /\ Life /\ Order
    BY DEF IInv
<1>2. /\ opening[h] = "tell" /\ opening' = [opening EXCEPT ![h] = "state"]
      /\ events' = [events EXCEPT ![id[h]] = Append(@, "connect")]
      /\ UNCHANGED <<pool, id, state, queue, watch, upcall, list, last, sendq, pc,
                     job, target, posts, sent, stopped>>
    BY DEF TellConnect, Open, Raise, manager, sender
<1>3. /\ upcall[h] = "none" /\ watch[h] = "none" /\ id[h] # 0 /\ h \notin pool
      /\ id[h] \in Connections /\ id[h] <= last /\ events[id[h]] = << >>
    BY <1>1, <1>2, NumberAssumption
    DEF Life, Stages, Stage, Told, Informed, TypeOK, Connections
<1>4. events' = [events EXCEPT ![id[h]] = <<"connect">>]
    BY <1>2, <1>3
<1>5. TypeOK'
    BY <1>1, <1>2, <1>3, <1>4 DEF TypeOK
<1>6. Stages'
    <2>1. opening'[h] = "state"
        BY <1>1, <1>2 DEF TypeOK
    <2>2. Stage(h)'
        BY <1>2, <1>3, <2>1 DEF Stage, Closing
    <2> QED BY <1>1, <1>2, <2>1, <2>2, OneStage DEF Life, TypeOK
<1>7. Distinct' /\ Listing'
    BY <1>1, <1>2 DEF Life, Distinct, Listing
<1>8. Told'
    <2>1. events'[id[h]] = <<"connect">> /\ opening'[h] = "state"
        BY <1>1, <1>2, <1>3, <1>4 DEF TypeOK
    <2>2. Informed(h)'
        BY <1>2, <1>3, <2>1 DEF Informed
    <2>3. \A i \in Connections : i # id'[h] => events'[i] = events[i]
        BY <1>1, <1>2, <1>4 DEF TypeOK
    <2>4. last' \in 0 .. MaxConnects /\ last <= last'
        BY <1>1, <1>2, NumberAssumption DEF TypeOK
    <2>5. \A g \in Handlers : Informed(g)'
        BY <1>1, <1>2, <1>7, <2>1, <2>2, <2>3, <2>4, OneInformed DEF TypeOK, Life
    <2>6. \A i \in Connections : i > last => i # id'[h]
        <3>1. last \in Nat
            BY <1>1, NumberAssumption DEF TypeOK
        <3> QED BY <1>2, <1>3, <3>1 DEF Connections
    <2> QED BY <1>1, <1>2, <2>3, <2>5, <2>6 DEF Life, Told
<1>9. EventsInOrder'
    <2>1. events'[id[h]] = <<"connect">>
          /\ \A i \in Connections : i # id[h] => events'[i] = events[i]
        BY <1>1, <1>3, <1>4 DEF TypeOK
    <2> QED BY <1>1, <2>1 DEF Life, EventsInOrder
<1>10. Order'
    BY <1>1, <1>2, NumberAssumption, OrderQuiet DEF TypeOK, sender
<1> QED BY <1>1, <1>5, <1>6, <1>7, <1>8, <1>9, <1>10 DEF IInv, Life

LEMMA SetOpenPreserves ==
    ASSUME IInv, NEW h \in Handlers, SetOpen(h) PROVE IInv'
<1>1. TypeOK /\ Life /\ Order
    BY DEF IInv
<1>2. /\ opening[h] = "state" /\ opening' = [opening EXCEPT ![h] = "register"]
      /\ state' = [state EXCEPT ![h] = "open"]
      /\ UNCHANGED <<pool, id, queue, watch, upcall, list, last, sendq, pc,
                     job, target, posts, events, sent, stopped>>
    BY DEF SetOpen, Open, manager, sender, history
<1>3. TypeOK'
    BY <1>1, <1>2 DEF TypeOK
<1>4. /\ upcall[h] = "none" /\ watch[h] = "none" /\ id[h] # 0 /\ h \notin pool
      /\ opening'[h] = "register"
    BY <1>1, <1>2 DEF Life, Stages, Stage, TypeOK
<1>5. Stage(h)'
    BY <1>2, <1>4 DEF Stage, Closing
<1>6. Life'
    BY <1>1, <1>2, <1>4, <1>5, LifeMove DEF TypeOK
<1>7. Order'
    BY <1>1, <1>2, NumberAssumption, OrderQuiet DEF TypeOK, sender
<1> QED BY <1>3, <1>6, <1>7 DEF IInv

LEMMA RegisterPreserves ==
    ASSUME IInv, NEW h \in Handlers, Register(h) PROVE IInv'
<1>1. TypeOK /\ Life /\ Order
    BY DEF IInv
<1>2. /\ opening[h] = "register"
      /\ \/ /\ opening' = [opening EXCEPT ![h] = "cancel"]
            /\ watch' = [watch EXCEPT ![h] = "both"]
            /\ upcall' = upcall
         \/ /\ opening' = [opening EXCEPT ![h] = "failed"]
            /\ upcall' = [upcall EXCEPT ![h] = "drain"]
            /\ watch' = watch
      /\ UNCHANGED <<pool, id, state, queue, list, last, sendq, pc,
                     job, target, posts, events, sent, stopped>>
    BY DEF Register, Open, Upcall, manager, sender, history
<1>3. TypeOK'
    BY <1>1, <1>2 DEF TypeOK
<1>4. upcall[h] = "none" /\ watch[h] = "none" /\ id[h] # 0 /\ h \notin pool
    BY <1>1, <1>2 DEF Life, Stages, Stage, TypeOK
<1>5. \/ opening'[h] = "cancel" /\ watch'[h] = "both" /\ upcall'[h] = "none"
      \/ opening'[h] = "failed" /\ watch'[h] = "none" /\ upcall'[h] = "drain"
    BY <1>1, <1>2, <1>4 DEF TypeOK
<1>6. Stage(h)'
    BY <1>2, <1>4, <1>5 DEF Stage, Closing
<1>7. /\ watch' = [watch EXCEPT ![h] = watch'[h]]
      /\ upcall' = [upcall EXCEPT ![h] = upcall'[h]]
      /\ opening' = [opening EXCEPT ![h] = opening'[h]]
    BY <1>1, <1>2 DEF TypeOK
<1>8. Life'
    BY <1>1, <1>2, <1>4, <1>5, <1>6, <1>7, LifeMove
<1>9. Order'
    <2>1. \A g \in Handlers : upcall[g] \in Closing => upcall'[g] \in Closing
        BY <1>1, <1>2 DEF TypeOK, Closing
    <2> QED BY <1>1, <1>2, <2>1, NumberAssumption, OrderQuiet DEF TypeOK, sender
<1> QED BY <1>3, <1>8, <1>9 DEF IInv

LEMMA OpenCancelPreserves ==
    ASSUME IInv, NEW h \in Handlers, OpenCancel(h) PROVE IInv'
<1>1. TypeOK /\ Life /\ Order
    BY DEF IInv
<1>2. /\ opening[h] = "cancel" /\ opening' = [opening EXCEPT ![h] = "no"]
      /\ watch' = [watch EXCEPT ![h] = IF @ = "both" THEN "read" ELSE @]
      /\ UNCHANGED <<pool, id, state, queue, upcall, list, last, sendq, pc,
                     job, target, posts, events, sent, stopped>>
    BY DEF OpenCancel, CancelWrite, Open, manager, sender, history
<1>3. TypeOK'
    BY <1>1, <1>2 DEF TypeOK
<1>4. opening'[h] = "no" /\ (watch'[h] = "none" <=> watch[h] = "none")
    BY <1>1, <1>2 DEF TypeOK
<1>5. Stage(h)'
    BY <1>1, <1>2, <1>4 DEF Life, Stages, Stage, Closing
<1>6. Life'
    BY <1>1, <1>2, <1>4, <1>5, LifeMove DEF TypeOK
<1>7. Order'
    BY <1>1, <1>2, NumberAssumption, OrderQuiet DEF TypeOK, sender
<1> QED BY <1>3, <1>6, <1>7 DEF IInv

-----------------------------------------------------------------------------
(* The reactors. *)

\* An event after the first, while the connection is up.
LEMMA Raised ==
    ASSUME TypeOK, Told, EventsInOrder, NEW h \in Handlers,
           id[h] # 0, opening[h] # "tell", upcall[h] \notin {"unlist", "recycle"},
           NEW e \in {"packet", "sendok", "senderror", "disconnect"},
           Raise(id[h], e)
    PROVE  /\ id[h] \in Connections /\ id[h] <= last
           /\ events' \in [Connections -> Seq({"connect", "packet", "sendok",
                                               "senderror", "disconnect"})]
           /\ events'[id[h]] # << >>
           /\ e # "disconnect" =>
                  \A k \in DOMAIN events'[id[h]] : events'[id[h]][k] # "disconnect"
           /\ \A i \in Connections : i # id[h] => events'[i] = events[i]
           /\ EventsInOrder'
<1> DEFINE E == {"connect", "packet", "sendok", "senderror", "disconnect"}
<1>1. id[h] \in Connections /\ id[h] <= last
    BY NumberAssumption DEF TypeOK, Told, Informed, Connections
<1>2. PICK s \in Seq(E) :
          /\ s = events[id[h]] /\ s # << >>
          /\ \A k \in DOMAIN s : /\ s[k] # "disconnect"
                                 /\ s[k] = "connect" <=> k = 1
    BY <1>1 DEF TypeOK, Told, Informed, EventsInOrder
<1>3. PICK t \in Seq(E) :
          /\ t = Append(s, e) /\ Len(s) \in Nat \ {0}
          /\ Len(t) = Len(s) + 1 /\ DOMAIN t = 1 .. Len(s) + 1
          /\ DOMAIN s = 1 .. Len(s)
          /\ \A k \in DOMAIN s : t[k] = s[k]
          /\ t[Len(s) + 1] = e
    <2>1. e \in E /\ Len(s) # 0
        BY <1>2
    <2>2. /\ Append(s, e) \in Seq(E) /\ Len(Append(s, e)) = Len(s) + 1
          /\ Len(s) \in Nat /\ DOMAIN s = 1 .. Len(s)
          /\ DOMAIN Append(s, e) = 1 .. Len(s) + 1
          /\ \A k \in DOMAIN s : Append(s, e)[k] = s[k]
          /\ Append(s, e)[Len(s) + 1] = e
        BY <2>1, AppendAt
    <2> QED BY <2>1, <2>2
<1>4. events' = [events EXCEPT ![id[h]] = t] /\ events \in [Connections -> Seq(E)]
    BY <1>2, <1>3 DEF Raise, TypeOK
<1>5. /\ events' \in [Connections -> Seq(E)] /\ events'[id[h]] = t
      /\ \A i \in Connections : i # id[h] => events'[i] = events[i]
    BY <1>1, <1>4
<1>6. \A k \in DOMAIN t : /\ t[k] = "connect" <=> k = 1
                          /\ t[k] = "disconnect" => k = Len(t) /\ e = "disconnect"
    BY <1>2, <1>3
<1>7. t # << >>
    BY <1>3
<1>8. EventsInOrder'
    BY <1>5, <1>6 DEF EventsInOrder
<1> QED BY <1>1, <1>5, <1>6, <1>7, <1>8

\* A step of a reactor that tells the workers something, or sends.
LEMMA LifeSay ==
    ASSUME TypeOK, Life, NEW h \in Handlers, UNCHANGED <<pool, id, opening, list, last>>,
           watch' = [watch EXCEPT ![h] = watch'[h]],
           upcall' = [upcall EXCEPT ![h] = upcall'[h]],
           upcall'[h] # "recycle", id[h] # 0,
           \A i \in Connections : i # id[h] => events'[i] = events[i] /\ sent'[i] = sent[i],
           Stage(h)', Informed(h)', EventsInOrder'
    PROVE  Life'
<1>1. /\ id' = [id EXCEPT ![h] = id'[h]]
      /\ opening' = [opening EXCEPT ![h] = opening'[h]]
      /\ id'[h] = id[h]
    BY DEF TypeOK
<1>2. Distinct' /\ Stages'
    BY <1>1, OneStage DEF Life, Distinct
<1>3. Listing'
    BY DEF Life, Listing, TypeOK
<1>4. last' \in 0 .. MaxConnects /\ last <= last' /\ last \in Nat /\ id[h] <= last
    BY NumberAssumption DEF TypeOK, Life, Told, Informed
<1>5. \A g \in Handlers : Informed(g)'
    BY <1>1, <1>2, <1>4, OneInformed DEF Life
<1>6. \A i \in Connections : i > last' => events'[i] = << >> /\ sent'[i] = << >>
    BY <1>4 DEF Life, Told, Connections
<1> QED BY <1>2, <1>3, <1>5, <1>6 DEF Life, Told

LEMMA InputPreserves ==
    ASSUME IInv, NEW h \in Handlers, Input(h) PROVE IInv'
<1>1. TypeOK /\ Life /\ Order
    BY DEF IInv
<1>2. /\ upcall[h] = "none" /\ watch[h] # "none" /\ Raise(id[h], "packet")
      /\ UNCHANGED <<pool, id, state, queue, watch, opening, upcall, list, last,
                     sendq, pc, job, target, posts, sent, stopped>>
    BY DEF Input, handler, manager, sender
<1>3. opening[h] \in {"no", "cancel"} /\ id[h] # 0
    BY <1>1, <1>2 DEF Life, Stages, Stage
<1>4. /\ id[h] \in Connections /\ id[h] <= last /\ events'[id[h]] # << >>
      /\ events' \in [Connections -> Seq({"connect", "packet", "sendok",
                                          "senderror", "disconnect"})]
      /\ \A k \in DOMAIN events'[id[h]] : events'[id[h]][k] # "disconnect"
      /\ \A i \in Connections : i # id[h] => events'[i] = events[i]
      /\ EventsInOrder'
    BY <1>1, <1>2, <1>3, Raised DEF Life
<1>5. TypeOK'
    BY <1>1, <1>2, <1>4 DEF TypeOK
<1>6. Stage(h)'
    BY <1>1, <1>2 DEF Life, Stages, Stage
<1>7. Informed(h)'
    BY <1>2, <1>3, <1>4 DEF Informed
<1>8. watch' = [watch EXCEPT ![h] = watch'[h]] /\ upcall' = [upcall EXCEPT ![h] = upcall'[h]]
    BY <1>1, <1>2 DEF TypeOK
<1>9. Life'
    BY <1>1, <1>2, <1>3, <1>4, <1>6, <1>7, <1>8, LifeSay
<1>10. Order'
    BY <1>1, <1>2, NumberAssumption, OrderQuiet DEF TypeOK, sender
<1> QED BY <1>5, <1>9, <1>10 DEF IInv

\* A step that only moves the upcall of h, not out of the closing.
LEMMA UpcallPreserves ==
    ASSUME IInv, NEW h \in Handlers,
           NEW to \in {"none", "output", "cancel", "drain"},
           upcall' = [upcall EXCEPT ![h] = to],
           upcall[h] \in {"none", "output", "cancel"},
           watch[h] # "none" \/ upcall[h] # "none",
           watch' = watch \/ CancelWrite(h),
           UNCHANGED <<pool, id, state, queue, opening, manager, sendq, sender,
                       posts, history>>
    PROVE  IInv'
<1>1. TypeOK /\ Life /\ Order
    BY DEF IInv
<1>2. /\ watch' = [watch EXCEPT ![h] = watch'[h]]
      /\ watch' \in [Handlers -> {"none", "read", "both"}]
      /\ watch'[h] = "none" <=> watch[h] = "none"
    BY <1>1 DEF TypeOK, CancelWrite
<1>3. TypeOK'
    BY <1>1, <1>2 DEF TypeOK, manager, sender, history
<1>4. upcall'[h] = to /\ opening[h] \in {"no", "cancel"} /\ id[h] # 0 /\ h \notin pool
    BY <1>1 DEF Life, Stages, Stage, TypeOK
<1>5. Stage(h)'
    BY <1>2, <1>4 DEF Stage, Closing
<1>6. opening' = [opening EXCEPT ![h] = opening'[h]] /\ upcall' = [upcall EXCEPT ![h] = upcall'[h]]
    BY <1>1, <1>4 DEF TypeOK
<1>7. Life'
    BY <1>1, <1>2, <1>4, <1>5, <1>6, LifeMove DEF manager, history
<1>8. Order'
    <2>1. \A g \in Handlers : upcall[g] \in Closing => upcall'[g] \in Closing
        BY <1>1 DEF TypeOK, Closing
    <2> QED BY <1>1, <2>1, NumberAssumption, OrderQuiet DEF TypeOK, manager, history
<1> QED BY <1>3, <1>7, <1>8 DEF IInv

\* InputFails, Output, SendEmpty and OutputCancel are such steps.
LEMMA MovePreserves ==
    ASSUME IInv, NEW h \in Handlers,
           InputFails(h) \/ Output(h) \/ SendEmpty(h) \/ OutputCancel(h)
    PROVE  IInv'
<1>1. CASE InputFails(h)
    BY <1>1, UpcallPreserves DEF InputFails, Upcall
<1>2. CASE Output(h)
    BY <1>2, UpcallPreserves DEF Output, Upcall
<1>3. CASE SendEmpty(h)
    BY <1>3, UpcallPreserves DEF SendEmpty, Upcall
<1>4. CASE OutputCancel(h)
    BY <1>4, UpcallPreserves DEF OutputCancel, Upcall
<1> QED BY <1>1, <1>2, <1>3, <1>4

LEMMA HandleClosePreserves ==
    ASSUME IInv, NEW h \in Handlers, HandleClose(h) PROVE IInv'
<1>1. TypeOK /\ Life /\ Order
    BY DEF IInv
<1>2. /\ upcall[h] = "drain" /\ upcall' = [upcall EXCEPT ![h] = "close"]
      /\ state' = [state EXCEPT ![h] = IF @ = "server" THEN @ ELSE "client"]
      /\ queue' = [queue EXCEPT ![h] = << >>]
      /\ UNCHANGED <<pool, id, watch, opening, list, last, sendq, pc, job,
                     target, posts, events, sent, stopped>>
    BY DEF HandleClose, Upcall, manager, sender, history
<1>3. /\ upcall'[h] = "close" /\ queue'[h] = << >>
      /\ \A g \in Handlers : g # h => queue'[g] = queue[g] /\ upcall'[g] = upcall[g]
    BY <1>1, <1>2 DEF TypeOK
<1>4. TypeOK'
    <2>1. Len(<< >>) = 0 /\ << >> \in Seq(Requests) /\ QueueSize \in Nat
        BY NumberAssumption
    <2>2. queue' \in [Handlers -> Seq(Requests)]
        BY <1>1, <1>2, <2>1 DEF TypeOK
    <2>3. \A g \in Handlers : Len(queue'[g]) <= QueueSize
        <3>1. Len(queue'[h]) <= QueueSize
            BY <1>3, <2>1
        <3> QED BY <1>1, <1>3, <3>1 DEF TypeOK
    <2> QED BY <1>1, <1>2, <2>2, <2>3 DEF TypeOK
<1>5. Life'
    <2>1. Stage(h)'
        BY <1>1, <1>2, <1>3 DEF Life, Stages, Stage, Closing
    <2>2. /\ opening' = [opening EXCEPT ![h] = opening'[h]]
          /\ watch' = [watch EXCEPT ![h] = watch'[h]]
        BY <1>1, <1>2 DEF TypeOK
    <2> QED BY <1>1, <1>2, <1>3, <2>1, <2>2, LifeMove
<1>6. Order'
    <2>1. SenderKnown' /\ Posting' /\ SentPast' /\ NothingAfterStop'
        BY <1>1, <1>2 DEF Order, SenderKnown, Posting, SentPast, Past, NothingAfterStop
    <2>2. Queued'
        <3>1. Increasing(<< >>) /\ DOMAIN << >> = {}
            BY DEF Increasing
        <3> QED BY <1>1, <1>2, <1>3, <3>1 DEF Order, Queued, Past
    <2>3. StopsHold'
        BY <1>1, <1>2, <1>3 DEF Order, StopsHold, Past, Closing
    <2> QED BY <2>1, <2>2, <2>3 DEF Order
<1> QED BY <1>4, <1>5, <1>6 DEF IInv

LEMMA CloseConnectionPreserves ==
    ASSUME IInv, NEW h \in Handlers, CloseConnection(h) PROVE IInv'
<1>1. TypeOK /\ Life /\ Order
    BY DEF IInv
<1>2. /\ upcall[h] = "close" /\ upcall' = [upcall EXCEPT ![h] = "unlist"]
      /\ \/ id[h] # 0 /\ Raise(id[h], "disconnect")
         \/ id[h] = 0 /\ events' = events
      /\ watch' = [watch EXCEPT ![h] = "none"]
      /\ UNCHANGED <<pool, id, state, queue, opening, list, last, sendq, pc, job,
                     target, posts, sent, stopped>>
    BY DEF CloseConnection, Upcall, manager, sender
<1>3. /\ upcall'[h] = "unlist" /\ watch'[h] = "none" /\ h \notin pool
      /\ opening[h] \in {"no", "cancel", "failed"}
    BY <1>1, <1>2 DEF Life, Stages, Stage, Closing, TypeOK
<1>4. Stage(h)'
    BY <1>2, <1>3 DEF Stage, Closing
<1>5. Order'
    <2>1. \A g \in Handlers : upcall[g] \in Closing => upcall'[g] \in Closing
        BY <1>1, <1>2 DEF TypeOK, Closing
    <2> QED BY <1>1, <1>2, <2>1, NumberAssumption, OrderQuiet DEF TypeOK, sender
<1>6. CASE id[h] = 0
    <2>1. TypeOK'
        BY <1>1, <1>2, <1>6 DEF TypeOK
    <2>2. /\ id' = [id EXCEPT ![h] = id'[h]] /\ Distinct'
          /\ opening' = [opening EXCEPT ![h] = opening'[h]]
        BY <1>1, <1>2 DEF TypeOK, Life, Distinct
    <2>3. Stages'
        BY <1>1, <1>2, <1>3, <1>4, <2>2, OneStage DEF Life
    <2>4. Listing'
        BY <1>1, <1>2, <1>3 DEF Life, Listing, TypeOK
    <2>5. \A g \in Handlers : Informed(g)'
        <3>1. Informed(h)'
            BY <1>2, <1>6 DEF Informed
        <3>2. last' \in 0 .. MaxConnects /\ last <= last'
            BY <1>1, <1>2, NumberAssumption DEF TypeOK
        <3> QED BY <1>1, <1>2, <1>3, <1>6, <2>2, <3>1, <3>2, OneInformed DEF Life
    <2>6. Told' /\ EventsInOrder'
        BY <1>1, <1>2, <1>6, <2>5 DEF Life, Told, EventsInOrder
    <2> QED BY <1>5, <2>1, <2>2, <2>3, <2>4, <2>6 DEF IInv, Life
<1>7. CASE id[h] # 0
    <2>1. /\ id[h] \in Connections /\ id[h] <= last /\ events'[id[h]] # << >>
          /\ events' \in [Connections -> Seq({"connect", "packet", "sendok",
                                              "senderror", "disconnect"})]
          /\ \A i \in Connections : i # id[h] => events'[i] = events[i]
          /\ EventsInOrder'
        BY <1>1, <1>2, <1>3, <1>7, Raised DEF Life
    <2>2. TypeOK'
        BY <1>1, <1>2, <2>1 DEF TypeOK
    <2>3. Informed(h)'
        BY <1>2, <1>3, <2>1 DEF Informed
    <2>4. watch' = [watch EXCEPT ![h] = watch'[h]] /\ upcall' = [upcall EXCEPT ![h] = upcall'[h]]
        BY <1>1, <1>2, <1>3 DEF TypeOK
    <2>5. Life'
        BY <1>1, <1>2, <1>3, <1>4, <1>7, <2>1, <2>3, <2>4, LifeSay
    <2> QED BY <1>5, <2>2, <2>5 DEF IInv
<1> QED BY <1>6, <1>7

LEMMA UnlistPreserves ==
    ASSUME IInv, NEW h \in Handlers, Unlist(h) PROVE IInv'
<1>1. TypeOK /\ Life /\ Order
    BY DEF IInv
<1>2. /\ upcall[h] = "unlist" /\ upcall' = [upcall EXCEPT ![h] = "recycle"]
      /\ list' = [i \in Connections |-> IF i = id[h] THEN Nil ELSE list[i]]
      /\ UNCHANGED <<pool, id, state, queue, watch, opening, last, sendq, pc, job,
                     target, posts, events, sent, stopped>>
    BY DEF Unlist, Upcall, sender, history
<1>3. TypeOK'
    BY <1>1, <1>2 DEF TypeOK
<1>4. /\ upcall'[h] = "recycle" /\ watch[h] = "none" /\ h \notin pool
      /\ opening[h] \in {"no", "cancel", "failed"}
    BY <1>1, <1>2 DEF Life, Stages, Stage, Closing, TypeOK
<1>5. /\ id' = [id EXCEPT ![h] = id'[h]] /\ Distinct'
      /\ opening' = [opening EXCEPT ![h] = opening'[h]]
      /\ watch' = [watch EXCEPT ![h] = watch'[h]]
      /\ upcall' = [upcall EXCEPT ![h] = upcall'[h]]
    BY <1>1, <1>2, <1>4 DEF TypeOK, Life, Distinct
<1>6. Stages'
    <2>1. Stage(h)'
        BY <1>2, <1>4 DEF Stage, Closing
    <2> QED BY <1>1, <1>2, <1>5, <2>1, OneStage DEF Life
<1>7. Listing'
    BY <1>1, <1>2, <1>4, HandlerAssumption DEF Life, Listing, TypeOK
<1>8. Told' /\ EventsInOrder'
    <2>1. Informed(h)'
        BY <1>1, <1>2, <1>4 DEF Life, Told, Informed
    <2>2. last' \in 0 .. MaxConnects /\ last <= last'
        BY <1>1, <1>2, NumberAssumption DEF TypeOK
    <2>3. \A g \in Handlers : Informed(g)'
        BY <1>1, <1>2, <1>5, <2>1, <2>2, OneInformed DEF Life
    <2> QED BY <1>1, <1>2, <2>3 DEF Life, Told, EventsInOrder
<1>9. Order'
    <2>1. \A g \in Handlers : upcall[g] \in Closing => upcall'[g] \in Closing
        BY <1>1, <1>2 DEF TypeOK, Closing
    <2> QED BY <1>1, <1>2, <2>1, NumberAssumption, OrderQuiet DEF TypeOK, sender
<1> QED BY <1>3, <1>5, <1>6, <1>7, <1>8, <1>9 DEF IInv, Life

\* The last step of a handler on its way to the pool.
LEMMA RecyclePreserves ==
    ASSUME IInv, NEW h \in Handlers, Recycle(h) PROVE IInv'
<1>1. TypeOK /\ Life /\ Order
    BY DEF IInv
<1>2. /\ upcall[h] = "recycle" /\ upcall' = [upcall EXCEPT ![h] = "none"]
      /\ id' = [id EXCEPT ![h] = 0] /\ pool' = pool \cup {h}
      /\ opening' = [opening EXCEPT ![h] = IF @ = "failed" THEN "no" ELSE @]
      /\ UNCHANGED <<state, queue, watch, list, last, sendq, pc, job,
                     target, posts, events, sent, stopped>>
    BY DEF Recycle, Upcall, manager, sender, history
<1>3. TypeOK'
    BY <1>1, <1>2, NumberAssumption DEF TypeOK
<1>4. /\ upcall'[h] = "none" /\ watch[h] = "none" /\ id'[h] = 0 /\ h \notin pool
      /\ opening'[h] \in {"no", "cancel"}
      /\ \A g \in Handlers : g # h => id'[g] = id[g] /\ upcall'[g] = upcall[g]
    BY <1>1, <1>2 DEF Life, Stages, Stage, Closing, TypeOK
<1>5. /\ id' = [id EXCEPT ![h] = id'[h]]
      /\ opening' = [opening EXCEPT ![h] = opening'[h]]
      /\ watch' = [watch EXCEPT ![h] = watch'[h]]
      /\ upcall' = [upcall EXCEPT ![h] = upcall'[h]]
    BY <1>1, <1>2, <1>4 DEF TypeOK
<1>6. Stages'
    <2>1. Stage(h)'
        BY <1>2, <1>4 DEF Stage, Closing
    <2> QED BY <1>1, <1>2, <1>5, <2>1, OneStage DEF Life
<1>7. Distinct'
    BY <1>1, <1>4 DEF Life, Distinct
<1>8. Listing'
    BY <1>1, <1>2, <1>4 DEF Life, Listing, TypeOK
<1>9. Told' /\ EventsInOrder'
    <2>1. Informed(h)'
        BY <1>4 DEF Informed
    <2>2. last' \in 0 .. MaxConnects /\ last <= last'
        BY <1>1, <1>2, NumberAssumption DEF TypeOK
    <2>3. \A g \in Handlers : Informed(g)'
        BY <1>1, <1>2, <1>5, <1>7, <2>1, <2>2, OneInformed DEF Life
    <2> QED BY <1>1, <1>2, <2>3 DEF Life, Told, EventsInOrder
<1>10. Order'
    <2>1. last' \in 0 .. MaxConnects /\ last <= last'
        BY <1>1, <1>2, NumberAssumption DEF TypeOK
    <2> QED BY <1>1, <1>2, <1>4, <2>1, OrderQuiet DEF sender
<1> QED BY <1>3, <1>6, <1>7, <1>8, <1>9, <1>10 DEF IInv, Life

-----------------------------------------------------------------------------
(* Requests on their way. *)

LEMMA Numbers ==
    ASSUME TypeOK
    PROVE  /\ \A r \in Requests : r.n \in Nat /\ r.id \in Nat \ {0} /\ r.id \in Connections
           /\ \A h \in Handlers : \A k \in DOMAIN queue[h] : queue[h][k] \in Requests
           /\ \A i \in Connections : \A k \in DOMAIN sent[i] : sent[i][k] \in Requests
           /\ \A k \in DOMAIN sendq : sendq[k] \in Requests
           /\ posts \in Nat /\ last \in Nat
<1>1. \A r \in Requests : r.n \in Nat /\ r.id \in Nat \ {0} /\ r.id \in Connections
    BY DEF Requests, Connections
<1>2. posts \in Nat /\ last \in Nat
    BY NumberAssumption DEF TypeOK
<1>3. \A h \in Handlers : \A k \in DOMAIN queue[h] : queue[h][k] \in Requests
    <2>1. \A h \in Handlers : queue[h] \in Seq(Requests)
        BY DEF TypeOK
    <2> QED BY <2>1, ElementOf
<1>4. \A i \in Connections : \A k \in DOMAIN sent[i] : sent[i][k] \in Requests
    <2>1. \A i \in Connections : sent[i] \in Seq(Requests)
        BY DEF TypeOK
    <2> QED BY <2>1, ElementOf
<1>5. \A k \in DOMAIN sendq : sendq[k] \in Requests
    BY ElementOf DEF TypeOK
<1> QED BY <1>1, <1>2, <1>3, <1>4, <1>5

\* A step of those that post or of the send thread that puts nothing into the
\* queue of a handler.
LEMMA OrderSender ==
    ASSUME TypeOK, Order, UNCHANGED <<id, queue, upcall, last, sent, stopped>>,
           \A n \in Nat : Past(n) => Past(n)',
           SenderKnown', Posting'
    PROVE  Order'
<1>1. Queued' /\ SentPast'
    BY Numbers DEF Order, Queued, SentPast
<1>2. StopsHold'
    <2>1. \A c \in stopped : c.n \in Nat
        BY Numbers DEF TypeOK
    <2> QED BY <2>1 DEF Order, StopsHold
<1>3. NothingAfterStop'
    BY DEF Order, NothingAfterStop
<1> QED BY <1>1, <1>2, <1>3 DEF Order

LEMMA PostedPreserves ==
    ASSUME IInv, NEW i \in Connections, NEW kind \in {"data", "close"}, Posted(i, kind)
    PROVE  IInv'
<1>1. TypeOK /\ Life /\ Order
    BY DEF IInv
<1>2. PICK r :
          /\ r = [id |-> i, kind |-> kind, n |-> posts + 1]
          /\ posts < MaxPosts /\ events[i] # << >> /\ Len(sendq) < SendQueue
          /\ posts' = posts + 1 /\ sendq' = Append(sendq, r)
          /\ UNCHANGED <<pool, id, state, queue, watch, opening, upcall, list, last,
                         pc, job, target, events, sent, stopped>>
    BY DEF Posted, handler, manager, sender, history
<1>3. /\ r \in Requests /\ r.id = i /\ r.n = posts + 1 /\ posts \in Nat
      /\ posts' \in 0 .. MaxPosts
    BY <1>1, <1>2, NumberAssumption DEF TypeOK, Requests
<1>4. i <= last /\ last \in Nat
    BY <1>1, <1>2, Numbers DEF Life, Told, Connections
<1>5. /\ sendq' \in Seq(Requests) /\ Len(sendq') = Len(sendq) + 1 /\ Len(sendq) \in Nat
      /\ DOMAIN sendq = 1 .. Len(sendq) /\ DOMAIN sendq' = 1 .. Len(sendq) + 1
      /\ \A k \in DOMAIN sendq : sendq'[k] = sendq[k]
      /\ sendq'[Len(sendq) + 1] = r
    BY <1>1, <1>2, <1>3, AppendAt DEF TypeOK
<1>6. Len(sendq') <= SendQueue
    BY <1>2, <1>5, NumberAssumption
<1>7. TypeOK'
    BY <1>1, <1>2, <1>3, <1>5, <1>6 DEF TypeOK
<1>8. Life'
    BY <1>1, <1>2, LifeSame
<1>9. Order'
    <2>1. \A n \in Nat : Past(n) => Past(n)'
        BY <1>2, <1>3, <1>5 DEF Past
    <2>2. SenderKnown'
        BY <1>1, <1>2 DEF Order, SenderKnown
    <2>3. Posting'
        <3>1. \A k \in DOMAIN sendq : sendq[k].n \in Nat /\ sendq[k].n <= posts
            BY <1>1, Numbers DEF Order, Posting
        <3>2. Increasing(sendq')
            <4>1. \A k \in DOMAIN sendq : sendq[k].n < r.n
                BY <1>3, <3>1
            <4> QED BY <1>1, <1>2, <1>3, <4>1, IncreasingAppend DEF TypeOK, Order, Posting
        <3>3. pc # "idle" => job.n \in Nat /\ job.n <= posts
            BY <1>1, Numbers DEF Order, SenderKnown, Posting
        <3> QED BY <1>1, <1>2, <1>3, <1>4, <1>5, <3>1, <3>2, <3>3 DEF Order, Posting
    <2> QED BY <1>1, <1>2, <2>1, <2>2, <2>3, OrderSender
<1> QED BY <1>7, <1>8, <1>9 DEF IInv

-----------------------------------------------------------------------------
(* The send thread. *)

LEMMA TakePreserves ==
    ASSUME IInv, Take PROVE IInv'
<1>1. TypeOK /\ Life /\ Order
    BY DEF IInv
<1>2. PICK r :
          /\ r = Head(sendq) /\ pc = "idle" /\ sendq # << >> /\ sendq' = Tail(sendq)
          /\ \/ pc' = "idle" /\ job' = Nil /\ target' = Nil
             \/ /\ list[r.id] # Nil /\ job' = r /\ target' = list[r.id]
                /\ \/ pc' = "check"
                   \/ pc' = "stop" /\ r.kind = "close"
          /\ UNCHANGED <<pool, id, state, queue, watch, opening, upcall, list, last,
                         posts, events, sent, stopped>>
    BY DEF Take, SendMessage, CloseConnect, Lookup, Idle, handler, manager, history
<1>3. /\ sendq' \in Seq(Requests) /\ Len(sendq') = Len(sendq) - 1
      /\ Len(sendq) \in Nat \ {0} /\ DOMAIN sendq = 1 .. Len(sendq)
      /\ DOMAIN sendq' = 1 .. Len(sendq) - 1
      /\ \A k \in DOMAIN sendq' : sendq'[k] = sendq[k + 1] /\ k + 1 \in DOMAIN sendq
      /\ r = sendq[1] /\ r \in Requests
    BY <1>1, <1>2, TailAt DEF TypeOK
<1>4. r.n \in Nat /\ r.id \in Connections /\ r.id # 0
    BY <1>1, <1>3, Numbers
<1>5. list[r.id] \in Handlers \cup {Nil}
    BY <1>1, <1>4 DEF TypeOK
<1>6. TypeOK'
    <2>1. Len(sendq') <= SendQueue
        BY <1>1, <1>3, NumberAssumption DEF TypeOK
    <2> QED BY <1>1, <1>2, <1>3, <1>5, <2>1 DEF TypeOK
<1>7. Life'
    BY <1>1, <1>2, LifeSame
<1>8. Order'
    <2>1. 1 \in DOMAIN sendq
        BY <1>3
    <2>2. \A n \in Nat : Past(n) => Past(n)'
        BY <1>2, <1>3, <2>1 DEF Past
    <2>3. SenderKnown'
        <3>1. ASSUME list[r.id] # Nil
              PROVE  list[r.id] \in Handlers /\ \A h \in Handlers : id[h] = r.id => h = list[r.id]
            BY <1>1, <1>4, <1>5, <3>1 DEF Life, Listing, Distinct
        <3>2. r.id <= last
            BY <1>1, <1>3, <2>1 DEF Order, Posting
        <3> QED BY <1>2, <1>3, <3>1, <3>2 DEF SenderKnown
    <2>4. Posting'
        <3>1. Increasing(sendq') /\ \A k \in DOMAIN sendq' : r.n < sendq'[k].n
            BY <1>1, <1>2, IncreasingTail DEF TypeOK, Order, Posting
        <3>2. \A k \in DOMAIN sendq' : sendq'[k].n <= posts /\ sendq'[k].id <= last
            BY <1>1, <1>3 DEF Order, Posting
        <3>3. r.n <= posts
            BY <1>1, <1>3, <2>1 DEF Order, Posting
        <3> QED BY <1>2, <3>1, <3>2, <3>3 DEF Posting
    <2> QED BY <1>1, <1>2, <2>2, <2>3, <2>4, OrderSender
<1> QED BY <1>6, <1>7, <1>8 DEF IInv

LEMMA CheckPreserves ==
    ASSUME IInv, Check PROVE IInv'
<1>1. TypeOK /\ Life /\ Order
    BY DEF IInv
<1>2. /\ pc = "check"
      /\ \/ pc' = "idle" /\ job' = Nil /\ target' = Nil
         \/ pc' = "put" /\ job' = job /\ target' = target
      /\ UNCHANGED <<pool, id, state, queue, watch, opening, upcall, list, last,
                     sendq, posts, events, sent, stopped>>
    BY DEF Check, Idle, handler, manager, history
<1>3. TypeOK'
    BY <1>1, <1>2 DEF TypeOK
<1>4. Life'
    BY <1>1, <1>2, LifeSame
<1>5. (\A n \in Nat : Past(n) => Past(n)') /\ SenderKnown' /\ Posting'
    BY <1>1, <1>2 DEF Order, Past, SenderKnown, Posting
<1>6. Order'
    BY <1>1, <1>2, <1>5, OrderSender
<1> QED BY <1>3, <1>4, <1>6 DEF IInv

LEMMA MarkPreserves ==
    ASSUME IInv, Mark PROVE IInv'
<1>1. TypeOK /\ Life /\ Order
    BY DEF IInv
<1>2. /\ pc = "mark" /\ state' = [state EXCEPT ![target] = "server"] /\ pc' = "wakeup"
      /\ UNCHANGED <<pool, id, queue, watch, opening, upcall, list, last,
                     sendq, job, target, posts, events, sent, stopped>>
    BY DEF Mark, manager, history
<1>3. TypeOK'
    BY <1>1, <1>2 DEF TypeOK
<1>4. Life'
    BY <1>1, <1>2, LifeSame
<1>5. (\A n \in Nat : Past(n) => Past(n)') /\ SenderKnown' /\ Posting'
    BY <1>1, <1>2 DEF Order, Past, SenderKnown, Posting
<1>6. Order'
    BY <1>1, <1>2, <1>5, OrderSender
<1> QED BY <1>3, <1>4, <1>6 DEF IInv

LEMMA WakeupPreserves ==
    ASSUME IInv, Wakeup PROVE IInv'
<1>1. TypeOK /\ Life /\ Order
    BY DEF IInv
<1>2. /\ pc = "wakeup" /\ pc' = "idle" /\ job' = Nil /\ target' = Nil
      /\ watch' = [watch EXCEPT ![target] = IF @ = "none" THEN @ ELSE "both"]
      /\ UNCHANGED <<pool, id, state, queue, opening, upcall, list, last,
                     sendq, posts, events, sent, stopped>>
    BY DEF Wakeup, Idle, manager, history
<1>3. target \in Handlers
    BY <1>1, <1>2 DEF Order, SenderKnown
<1>4. TypeOK'
    BY <1>1, <1>2, <1>3 DEF TypeOK
<1>5. watch'[target] = "none" <=> watch[target] = "none"
    BY <1>1, <1>2, <1>3 DEF TypeOK
<1>6. Life'
    <2>1. PICK h \in Handlers : h = target
        BY <1>3
    <2>2. /\ watch' = [watch EXCEPT ![h] = watch'[h]]
          /\ opening' = [opening EXCEPT ![h] = opening'[h]]
          /\ upcall' = [upcall EXCEPT ![h] = upcall'[h]]
        BY <1>1, <1>2, <2>1 DEF TypeOK
    <2>3. Stage(h)'
        BY <1>1, <1>2, <1>5, <2>1 DEF Life, Stages, Stage
    <2> QED BY <1>1, <1>2, <2>2, <2>3, LifeMove
<1>7. (\A n \in Nat : Past(n) => Past(n)') /\ SenderKnown' /\ Posting'
    BY <1>1, <1>2 DEF Order, Past, SenderKnown, Posting
<1>8. Order'
    BY <1>1, <1>2, <1>7, OrderSender
<1> QED BY <1>4, <1>6, <1>8 DEF IInv

\* The request of the send thread becomes the last block of its handler.
LEMMA OrderPut ==
    ASSUME TypeOK, Order, pc \in {"put", "stop"}, pc' \in {"mark", "wakeup"},
           pc' = "mark" => job.kind = "close",
           queue' = [queue EXCEPT ![target] = Append(@, job)],
           stopped' = stopped \/ (job.kind = "close" /\ stopped' = stopped \cup {job}),
           UNCHANGED <<id, upcall, last, sendq, job, target, posts, sent>>
    PROVE  Order'
<1>1. /\ job \in Requests /\ target \in Handlers /\ job.id <= last
      /\ job.n \in Nat /\ posts \in Nat /\ job.n <= posts
      /\ \A h \in Handlers : id[h] = job.id => h = target
      /\ \A k \in DOMAIN sendq : job.n < sendq[k].n
    BY Numbers DEF Order, SenderKnown, Posting
<1>2. PICK s \in Seq(Requests) : s = queue[target] /\ queue'[target] = Append(s, job)
    BY <1>1 DEF TypeOK
<1>3. PICK t \in Seq(Requests) :
          /\ queue'[target] = t /\ t = Append(s, job)
          /\ Len(s) \in Nat /\ DOMAIN s = 1 .. Len(s) /\ DOMAIN t = 1 .. Len(s) + 1
          /\ \A k \in DOMAIN s : t[k] = s[k]
          /\ t[Len(s) + 1] = job
    BY <1>1, <1>2, AppendAt
<1>4. \A h \in Handlers : h # target => queue'[h] = queue[h]
    BY <1>1 DEF TypeOK
<1>5. \A n \in Nat : Past(n) => Past(n)' /\ n < job.n
    BY DEF Past
<1>6. Past(job.n)'
    BY <1>1 DEF Past
<1>7. SenderKnown' /\ Posting'
    BY DEF Order, SenderKnown, Posting
<1>8. SentPast'
    BY <1>5, Numbers DEF Order, SentPast
<1>9. Queued'
    <2>1. \A k \in DOMAIN s : s[k].n \in Nat /\ Past(s[k].n) /\ s[k].n < job.n
        BY <1>1, <1>2, <1>5, Numbers DEF Order, Queued
    <2>2. Increasing(t) /\ \A k \in DOMAIN t : Past(t[k].n)'
        <3>1. Increasing(s)
            BY <1>1, <1>2 DEF Order, Queued
        <3>2. Increasing(t)
            BY <1>1, <1>3, <2>1, <3>1, IncreasingAppend
        <3> QED BY <1>3, <1>5, <1>6, <2>1, <3>2
    <2>3. ASSUME NEW h \in Handlers, id[h] # 0
          PROVE  \A j \in DOMAIN sent[id[h]], k \in DOMAIN queue'[h] :
                     sent[id[h]][j].n < queue'[h][k].n
        <3>1. id[h] \in Connections
            BY <2>3, NumberAssumption DEF TypeOK, Connections
        <3>2. \A j \in DOMAIN sent[id[h]] : sent[id[h]][j].n < job.n
            BY <1>5, <3>1, Numbers DEF Order, SentPast
        <3>3. \A j \in DOMAIN sent[id[h]], k \in DOMAIN queue[h] :
                  sent[id[h]][j].n < queue[h][k].n
            BY <2>3 DEF Order, Queued
        <3> QED BY <1>2, <1>3, <1>4, <3>2, <3>3
    <2>4. ASSUME NEW h \in Handlers, h # target
          PROVE  (Increasing(queue[h]) /\ \A k \in DOMAIN queue[h] : Past(queue[h][k].n))'
        <3>1. PICK q : q = queue[h] /\ queue'[h] = q
            BY <1>4, <2>4
        <3>2. \A k \in DOMAIN q : Past(q[k].n)'
            BY <1>5, <3>1, Numbers DEF Order, Queued
        <3> QED BY <3>1, <3>2 DEF Order, Queued
    <2> QED BY <1>3, <2>2, <2>3, <2>4 DEF Queued
<1>10. StopsHold'
    <2>1. ASSUME NEW c \in stopped
          PROVE  /\ c.kind = "close" /\ c.id <= last /\ Past(c.n)'
                 /\ \A h \in Handlers : id[h] = c.id =>
                        \/ \E k \in DOMAIN queue'[h] : queue'[h][k] = c
                        \/ upcall[h] \in Closing
        <3>1. c.n \in Nat
            BY <2>1, Numbers DEF TypeOK
        <3>2. \A h \in Handlers : \A k \in DOMAIN queue[h] :
                  k \in DOMAIN queue'[h] /\ queue'[h][k] = queue[h][k]
            BY <1>2, <1>3, <1>4
        <3> QED BY <1>5, <2>1, <3>1, <3>2 DEF Order, StopsHold
    <2>2. \A h \in Handlers : id[h] = job.id =>
              \E k \in DOMAIN queue'[h] : queue'[h][k] = job
        BY <1>1, <1>3
    <2> QED BY <1>1, <1>6, <2>1, <2>2 DEF StopsHold
<1>11. NothingAfterStop'
    <2>1. \A i \in Connections : \A k \in DOMAIN sent[i] : sent[i][k].n < job.n
        BY <1>5, Numbers DEF Order, SentPast
    <2> QED BY <2>1 DEF Order, NothingAfterStop
<1> QED BY <1>7, <1>8, <1>9, <1>10, <1>11 DEF Order

\* The typed part of a put into a queue with room.
LEMMA PutType ==
    ASSUME TypeOK, job \in Requests, target \in Handlers, ~Full(target),
           queue' = [queue EXCEPT ![target] = Append(@, job)]
    PROVE  /\ queue' \in [Handlers -> Seq(Requests)]
           /\ \A h \in Handlers : Len(queue'[h]) <= QueueSize
<1>1. /\ queue[target] \in Seq(Requests) /\ Append(queue[target], job) \in Seq(Requests)
      /\ Len(Append(queue[target], job)) = Len(queue[target]) + 1
      /\ Len(queue[target]) \in Nat
    BY AppendAt DEF TypeOK
<1>2. Len(queue[target]) + 1 <= QueueSize
    BY <1>1, NumberAssumption DEF Full
<1> QED BY <1>1, <1>2 DEF TypeOK

LEMMA PutPreserves ==
    ASSUME IInv, Put PROVE IInv'
<1>1. TypeOK /\ Life /\ Order
    BY DEF IInv
<1>2. /\ pc = "put" /\ job \in Requests /\ target \in Handlers
      /\ \/ pc' = "idle" /\ job' = Nil /\ target' = Nil /\ queue' = queue
         \/ /\ ~Full(target) /\ queue' = [queue EXCEPT ![target] = Append(@, job)]
            /\ pc' = "wakeup" /\ job' = job /\ target' = target
      /\ UNCHANGED <<pool, id, state, watch, opening, upcall, list, last,
                     sendq, posts, events, sent, stopped>>
    BY <1>1 DEF Order, SenderKnown, Put, Idle, manager, history
<1>3. Life'
    BY <1>1, <1>2, LifeSame
<1>4. CASE queue' = queue /\ pc' = "idle" /\ job' = Nil /\ target' = Nil
    <2>1. TypeOK'
        BY <1>1, <1>2, <1>4 DEF TypeOK
    <2>2. (\A n \in Nat : Past(n) => Past(n)') /\ SenderKnown' /\ Posting'
        BY <1>1, <1>2, <1>4 DEF Order, Past, SenderKnown, Posting
    <2> QED BY <1>1, <1>2, <1>3, <1>4, <2>1, <2>2, OrderSender DEF IInv
<1>5. CASE /\ ~Full(target) /\ queue' = [queue EXCEPT ![target] = Append(@, job)]
           /\ pc' = "wakeup" /\ job' = job /\ target' = target
    <2>1. TypeOK'
        BY <1>1, <1>2, <1>5, PutType DEF TypeOK
    <2>2. Order'
        BY <1>1, <1>2, <1>5, OrderPut
    <2> QED BY <1>3, <2>1, <2>2 DEF IInv
<1> QED BY <1>2, <1>4, <1>5

LEMMA PutStopPreserves ==
    ASSUME IInv, PutStop PROVE IInv'
<1>1. TypeOK /\ Life /\ Order
    BY DEF IInv
<1>2. /\ pc = "stop" /\ job \in Requests /\ target \in Handlers /\ job.kind = "close"
      /\ \/ /\ pc' = "idle" /\ job' = Nil /\ target' = Nil /\ queue' = queue
            /\ stopped' = stopped
         \/ /\ ~Full(target) /\ queue' = [queue EXCEPT ![target] = Append(@, job)]
            /\ stopped' = stopped \cup {job}
            /\ pc' = "mark" /\ job' = job /\ target' = target
      /\ UNCHANGED <<pool, id, state, watch, opening, upcall, list, last,
                     sendq, posts, events, sent>>
    BY <1>1 DEF Order, SenderKnown, PutStop, Idle, manager
<1>3. Life'
    BY <1>1, <1>2, LifeSame
<1>4. CASE /\ queue' = queue /\ pc' = "idle" /\ job' = Nil /\ target' = Nil
           /\ stopped' = stopped
    <2>1. TypeOK'
        BY <1>1, <1>2, <1>4 DEF TypeOK
    <2>2. (\A n \in Nat : Past(n) => Past(n)') /\ SenderKnown' /\ Posting'
        BY <1>1, <1>2, <1>4 DEF Order, Past, SenderKnown, Posting
    <2> QED BY <1>1, <1>2, <1>3, <1>4, <2>1, <2>2, OrderSender DEF IInv
<1>5. CASE /\ ~Full(target) /\ queue' = [queue EXCEPT ![target] = Append(@, job)]
           /\ stopped' = stopped \cup {job}
           /\ pc' = "mark" /\ job' = job /\ target' = target
    <2>1. TypeOK'
        BY <1>1, <1>2, <1>5, PutType DEF TypeOK
    <2>2. Order'
        BY <1>1, <1>2, <1>5, OrderPut
    <2> QED BY <1>3, <2>1, <2>2 DEF IInv
<1> QED BY <1>2, <1>4, <1>5

-----------------------------------------------------------------------------
(* A block goes out. *)

\* The first block of the queue of h leaves it, to the peer or into nothing; in
\* the second case the handler closes.
LEMMA OrderSend ==
    ASSUME TypeOK, Order, NEW h \in Handlers, upcall[h] = "output", id[h] # 0,
           queue[h] # << >>, queue' = [queue EXCEPT ![h] = Tail(@)],
           \/ /\ Head(queue[h]).kind = "data" /\ upcall' = upcall
              /\ sent' = [sent EXCEPT ![id[h]] = Append(@, Head(queue[h]))]
           \/ upcall' = [upcall EXCEPT ![h] = "drain"] /\ sent' = sent,
           \A g \in Handlers : id[g] # 0 /\ id[g] = id[h] => g = h,
           UNCHANGED <<id, last, sendq, sender, posts, stopped>>
    PROVE  Order'
<1>1. PICK i \in Connections : i = id[h]
    BY NumberAssumption DEF TypeOK, Connections
<1>2. PICK s \in Seq(Requests) : s = queue[h] /\ s # << >> /\ queue'[h] = Tail(s)
    BY DEF TypeOK
<1>3. PICK t \in Seq(Requests), r \in Requests :
          /\ queue'[h] = t /\ t = Tail(s) /\ r = Head(s)
          /\ Len(s) \in Nat \ {0} /\ DOMAIN s = 1 .. Len(s) /\ DOMAIN t = 1 .. Len(s) - 1
          /\ \A k \in DOMAIN t : t[k] = s[k + 1] /\ k + 1 \in DOMAIN s
          /\ r = s[1]
    <2>1. /\ Tail(s) \in Seq(Requests) /\ Head(s) \in Requests
          /\ Len(s) \in Nat \ {0} /\ DOMAIN s = 1 .. Len(s) /\ DOMAIN Tail(s) = 1 .. Len(s) - 1
          /\ \A k \in DOMAIN Tail(s) : Tail(s)[k] = s[k + 1] /\ k + 1 \in DOMAIN s
          /\ Head(s) = s[1]
        BY <1>2, TailAt
    <2> QED BY <1>2, <2>1
<1>4. 1 \in DOMAIN s
    BY <1>3
<1>5. \A g \in Handlers : g # h => queue'[g] = queue[g] /\ upcall'[g] = upcall[g]
    BY DEF TypeOK
<1>6. \A n : Past(n)' <=> Past(n)
    BY DEF Past, sender
<1>7. SenderKnown' /\ Posting'
    BY DEF Order, SenderKnown, Posting, sender
<1>8. /\ Increasing(s) /\ Increasing(t) /\ \A k \in DOMAIN t : r.n < t[k].n
      /\ \A k \in DOMAIN s : Past(s[k].n)
      /\ \A j \in DOMAIN sent[i], k \in DOMAIN s : sent[i][j].n < s[k].n
    BY <1>1, <1>2, <1>3, IncreasingTail DEF Order, Queued
<1>9. PICK u \in Seq(Requests) : u = sent[i]
    BY DEF TypeOK
<1>10. /\ Append(u, r) \in Seq(Requests) /\ Len(u) \in Nat /\ DOMAIN u = 1 .. Len(u)
       /\ DOMAIN Append(u, r) = 1 .. Len(u) + 1
       /\ \A k \in DOMAIN u : Append(u, r)[k] = u[k]
       /\ Append(u, r)[Len(u) + 1] = r
    BY AppendAt
<1>11. \/ /\ r.kind = "data" /\ upcall'[h] = "output" /\ sent'[i] = Append(u, r)
          /\ \A j \in Connections : j # i => sent'[j] = sent[j]
       \/ upcall'[h] = "drain" /\ sent' = sent
    BY <1>1, <1>2, <1>3, <1>9 DEF TypeOK
<1>12. \A j \in Connections : \A k \in DOMAIN sent'[j] :
           \/ k \in DOMAIN sent[j] /\ sent'[j][k] = sent[j][k]
           \/ j = i /\ sent'[j][k] = r /\ r.kind = "data" /\ upcall'[h] = "output"
    <2>1. CASE sent' = sent
        BY <2>1
    <2>2. CASE /\ r.kind = "data" /\ upcall'[h] = "output" /\ sent'[i] = Append(u, r)
               /\ \A j \in Connections : j # i => sent'[j] = sent[j]
        <3>1. \A k \in DOMAIN sent'[i] :
                  \/ k \in DOMAIN u /\ sent'[i][k] = u[k]
                  \/ sent'[i][k] = r
            BY <1>10, <2>2
        <3>2. ASSUME NEW j \in Connections, j # i PROVE sent'[j] = sent[j]
            BY <2>2, <3>2
        <3> QED BY <1>9, <2>2, <3>1, <3>2
    <2> QED BY <1>11, <2>1, <2>2
<1>13. SentPast'
    <2>1. Increasing(Append(u, r))
        <3>1. \A k \in DOMAIN u : u[k].n < r.n
            BY <1>3, <1>4, <1>8, <1>9
        <3> QED BY <1>9, <3>1, IncreasingAppend DEF Order, SentPast
    <2>2. \A j \in Connections : Increasing(sent'[j])
        BY <1>11, <2>1 DEF Order, SentPast
    <2>3. Past(r.n)
        BY <1>3, <1>4, <1>8
    <2> QED BY <1>6, <1>12, <2>2, <2>3 DEF Order, SentPast
<1>14. Queued'
    <2>1. Increasing(t) /\ \A k \in DOMAIN t : Past(t[k].n)
        BY <1>3, <1>8
    <2>2. \A j \in DOMAIN sent'[i], k \in DOMAIN t : sent'[i][j].n < t[k].n
        BY <1>3, <1>8, <1>12
    <2>3. ASSUME NEW g \in Handlers, g # h, id[g] # 0
          PROVE  sent'[id[g]] = sent[id[g]]
        <3>1. id[g] \in Connections /\ id[g] # i
            BY <1>1, <2>3, NumberAssumption DEF TypeOK, Connections
        <3> QED BY <1>11, <3>1
    <2>4. ASSUME NEW g \in Handlers, g # h
          PROVE  (/\ Increasing(queue[g])
                  /\ \A k \in DOMAIN queue[g] : Past(queue[g][k].n)
                  /\ id[g] # 0 => \A j \in DOMAIN sent[id[g]], k \in DOMAIN queue[g] :
                                      sent[id[g]][j].n < queue[g][k].n)'
        <3>1. PICK q : q = queue[g] /\ queue'[g] = q
            BY <1>5, <2>4
        <3>2. \A k \in DOMAIN q : Past(q[k].n)'
            BY <1>6, <3>1 DEF Order, Queued
        <3> QED BY <2>3, <2>4, <3>1, <3>2 DEF Order, Queued
    <2> QED BY <1>1, <1>3, <1>6, <2>1, <2>2, <2>4 DEF Queued
<1>15. StopsHold'
    <2>1. ASSUME NEW c \in stopped, NEW g \in Handlers, id[g] = c.id
          PROVE  \/ \E k \in DOMAIN queue'[g] : queue'[g][k] = c
                 \/ upcall'[g] \in Closing
        <3>1. CASE g # h
            BY <1>5, <2>1, <3>1 DEF Order, StopsHold
        <3>2. CASE g = h /\ upcall'[h] = "drain"
            BY <3>2 DEF Closing
        <3>3. CASE g = h /\ r.kind = "data"
            <4>1. c.kind = "close" /\ "output" \notin Closing
                BY <2>1 DEF Order, StopsHold, Closing
            <4>2. PICK k \in DOMAIN s : s[k] = c
                BY <1>2, <2>1, <3>3, <4>1 DEF Order, StopsHold
            <4>3. k - 1 \in DOMAIN t /\ t[k - 1] = c
                BY <1>3, <3>3, <4>1, <4>2
            <4> QED BY <1>3, <3>3, <4>3
        <3> QED BY <1>11, <3>1, <3>2, <3>3
    <2> QED BY <1>6, <2>1 DEF Order, StopsHold
<1>16. NothingAfterStop'
    <2>1. ASSUME NEW c \in stopped, c.id = i, r.kind = "data" PROVE r.n < c.n
        <3>1. c.kind = "close" /\ "output" \notin Closing
            BY <2>1 DEF Order, StopsHold, Closing
        <3>2. PICK k \in DOMAIN s : s[k] = c
            BY <1>1, <1>2, <2>1, <3>1 DEF Order, StopsHold
        <3>3. k - 1 \in DOMAIN t /\ t[k - 1] = c
            BY <1>3, <2>1, <3>1, <3>2
        <3> QED BY <1>8, <3>3
    <2> QED BY <1>12, <2>1 DEF Order, NothingAfterStop
<1> QED BY <1>7, <1>13, <1>14, <1>15, <1>16 DEF Order

LEMMA SendPreserves ==
    ASSUME IInv, NEW h \in Handlers, Send(h) PROVE IInv'
<1>1. TypeOK /\ Life /\ Order
    BY DEF IInv
<1>2. /\ upcall[h] = "output" /\ queue[h] # << >>
      /\ queue' = [queue EXCEPT ![h] = Tail(@)]
      /\ \/ /\ Head(queue[h]).kind = "data" /\ upcall' = upcall
            /\ sent' = [sent EXCEPT ![id[h]] = Append(@, Head(queue[h]))]
         \/ upcall' = [upcall EXCEPT ![h] = "drain"] /\ sent' = sent
      /\ \/ events' = events
         \/ Raise(id[h], "sendok")
         \/ Raise(id[h], "senderror")
      /\ UNCHANGED <<pool, id, state, watch, opening, list, last, sendq, pc, job,
                     target, posts, stopped>>
    BY DEF Send, PutSendPacket, manager, sender
<1>3. /\ opening[h] \in {"no", "cancel"} /\ id[h] # 0 /\ h \notin pool
      /\ upcall'[h] \in {"output", "drain"}
      /\ upcall' = [upcall EXCEPT ![h] = upcall'[h]]
    BY <1>1, <1>2 DEF Life, Stages, Stage, TypeOK
<1>4. /\ id[h] \in Connections /\ events'[id[h]] # << >> /\ id[h] <= last
      /\ events' \in [Connections -> Seq({"connect", "packet", "sendok",
                                          "senderror", "disconnect"})]
      /\ \A k \in DOMAIN events'[id[h]] : events'[id[h]][k] # "disconnect"
      /\ \A i \in Connections : i # id[h] => events'[i] = events[i]
      /\ EventsInOrder'
    <2>1. CASE events' = events
        <3>1. id[h] \in Connections
            BY <1>1, <1>3, NumberAssumption DEF TypeOK, Connections
        <3>2. Informed(h) /\ EventsInOrder'
            BY <1>1, <2>1 DEF Life, Told, EventsInOrder
        <3> QED BY <1>1, <1>2, <1>3, <2>1, <3>1, <3>2 DEF Informed, TypeOK
    <2>2. CASE Raise(id[h], "sendok")
        BY <1>1, <1>2, <1>3, <2>2, Raised DEF Life
    <2>3. CASE Raise(id[h], "senderror")
        BY <1>1, <1>2, <1>3, <2>3, Raised DEF Life
    <2> QED BY <1>2, <2>1, <2>2, <2>3
<1>5. PICK s \in Seq(Requests) :
          /\ s = queue[h] /\ Tail(s) \in Seq(Requests) /\ Head(s) \in Requests
          /\ Len(Tail(s)) = Len(s) - 1 /\ Len(s) \in Nat /\ Len(s) <= QueueSize
    BY <1>1, <1>2, TailAt DEF TypeOK
<1>6. TypeOK'
    <2>1. queue' \in [Handlers -> Seq(Requests)]
        BY <1>1, <1>2, <1>5 DEF TypeOK
    <2>2. \A g \in Handlers : Len(queue'[g]) <= QueueSize
        <3>1. Len(queue'[h]) <= QueueSize
            BY <1>1, <1>2, <1>5, NumberAssumption DEF TypeOK
        <3> QED BY <1>1, <1>2, <3>1 DEF TypeOK
    <2>3. sent' \in [Connections -> Seq(Requests)]
        <3>1. Append(sent[id[h]], Head(s)) \in Seq(Requests)
            BY <1>1, <1>4, <1>5, AppendAt DEF TypeOK
        <3> QED BY <1>1, <1>2, <1>4, <1>5, <3>1 DEF TypeOK
    <2>4. upcall' \in [Handlers -> {"none", "output", "cancel", "drain", "close",
                                    "unlist", "recycle"}]
        BY <1>1, <1>2 DEF TypeOK
    <2> QED BY <1>1, <1>2, <1>4, <2>1, <2>2, <2>3, <2>4 DEF TypeOK
<1>7. Life'
    <2>1. Stage(h)'
        BY <1>1, <1>2, <1>3 DEF Life, Stages, Stage, Closing
    <2>2. Informed(h)'
        BY <1>2, <1>3, <1>4 DEF Informed
    <2>3. watch' = [watch EXCEPT ![h] = watch'[h]]
        BY <1>1, <1>2 DEF TypeOK
    <2>4. \A i \in Connections : i # id[h] => sent'[i] = sent[i]
        BY <1>1, <1>2 DEF TypeOK
    <2> QED BY <1>1, <1>2, <1>3, <1>4, <2>1, <2>2, <2>3, <2>4, LifeSay
<1>8. Order'
    <2>1. \A g \in Handlers : id[g] # 0 /\ id[g] = id[h] => g = h
        BY <1>1 DEF Life, Distinct
    <2> QED BY <1>1, <1>2, <1>3, <2>1, OrderSend DEF sender
<1> QED BY <1>6, <1>7, <1>8 DEF IInv

-----------------------------------------------------------------------------
(* All steps. *)

LEMMA InitIInv == ASSUME Init PROVE IInv
<1>1. /\ Increasing(<< >>) /\ DOMAIN << >> = {} /\ Len(<< >>) = 0
      /\ << >> \in Seq(Requests)
    BY DEF Increasing
<1>2. TypeOK
    BY <1>1, NumberAssumption DEF Init, TypeOK
<1>3. Life
    BY HandlerAssumption
    DEF Init, Life, Stages, Stage, Distinct, Listing, Told, Informed, EventsInOrder, Closing
<1>4. Order
    BY <1>1 DEF Init, Order, SenderKnown, Posting, Queued, SentPast, StopsHold, NothingAfterStop
<1> QED BY <1>2, <1>3, <1>4 DEF IInv

LEMMA StutterPreserves == ASSUME IInv, UNCHANGED vars PROVE IInv'
<1>1. TypeOK /\ Life /\ Order
    BY DEF IInv
<1>2. UNCHANGED <<pool, id, state, queue, watch, opening, upcall, list, last, sendq,
                  pc, job, target, posts, events, sent, stopped>>
    BY DEF vars, handler, manager, sender, history
<1>3. TypeOK'
    BY <1>1, <1>2 DEF TypeOK
<1>4. Life'
    BY <1>1, <1>2, LifeSame
<1>5. (\A n \in Nat : Past(n) => Past(n)') /\ SenderKnown' /\ Posting'
    BY <1>1, <1>2 DEF Order, Past, SenderKnown, Posting
<1>6. Order'
    BY <1>1, <1>2, <1>5, OrderSender
<1> QED BY <1>3, <1>4, <1>6 DEF IInv

LEMMA AcceptorPreserves ==
    ASSUME IInv, NEW h \in Handlers, Acceptor(h) PROVE IInv'
    BY OpenFailsPreserves, AddConnectPreserves, TellConnectPreserves, SetOpenPreserves,
       RegisterPreserves, OpenCancelPreserves DEF Acceptor

LEMMA ReactorPreserves ==
    ASSUME IInv, NEW h \in Handlers, Reactor(h) PROVE IInv'
    BY MovePreserves, SendPreserves, HandleClosePreserves, CloseConnectionPreserves,
       UnlistPreserves, RecyclePreserves DEF Reactor

LEMMA NextPreserves == ASSUME IInv, Next PROVE IInv'
<1>1. ASSUME NEW h \in Handlers,
             Accept(h) \/ Input(h) \/ InputFails(h) \/ Acceptor(h) \/ Reactor(h)
      PROVE  IInv'
    BY <1>1, AcceptPreserves, InputPreserves, MovePreserves, AcceptorPreserves, ReactorPreserves
<1>2. ASSUME NEW i \in Connections, PostMessage(i) \/ CloseConnect_By_Queue(i)
      PROVE  IInv'
    BY <1>2, PostedPreserves DEF PostMessage, CloseConnect_By_Queue
<1>3. CASE SendThread
    BY <1>3, TakePreserves, CheckPreserves, PutPreserves, PutStopPreserves, MarkPreserves,
       WakeupPreserves DEF SendThread
<1> QED BY <1>1, <1>2, <1>3 DEF Next

LEMMA Invariance == Spec => []IInv
<1>1. Init => IInv
    BY InitIInv
<1>2. IInv /\ [Next]_vars => IInv'
    BY NextPreserves, StutterPreserves
<1> QED BY <1>1, <1>2, PTL DEF Spec

\* Every reachable state is well typed: a new connect id, a block of a queue and
\* a request always fit where they are put.
THEOREM TypeCorrect == Spec => []TypeOK
<1>1. IInv => TypeOK
    BY DEF IInv
<1> QED BY <1>1, Invariance, PTL

\* CConnectHandlerPool::Delete: a handler in the pool is nobody's, although the
\* acceptor may still be in the open that began its last life.
THEOREM HandlersOwned == Spec => []HandlerOwned
<1>1. IInv => HandlerOwned
    <2> SUFFICES ASSUME IInv PROVE HandlerOwned
        OBVIOUS
    <2>1. pool \subseteq Handlers /\ \A i \in Connections : i # 0
        BY DEF IInv, TypeOK, Connections
    <2>2. \A i \in Connections : list[i] # Nil => id[list[i]] = i
        BY DEF IInv, Life, Listing
    <2>3. \A h \in pool : id[h] = 0 /\ watch[h] = "none" /\ upcall[h] = "none"
        BY <2>1 DEF IInv, Life, Stages, Stage
    <2>4. \A h \in pool : \A i \in Connections : list[i] # h
        BY <2>1, <2>2, <2>3, HandlerAssumption
    <2> QED BY <2>2, <2>3, <2>4 DEF HandlerOwned
<1> QED BY <1>1, Invariance, PTL

\* The workers hear of a connection in the order connect, packets and answers,
\* disconnect, whichever threads raise these.
THEOREM EventsOrdered == Spec => []EventsInOrder
<1>1. IInv => EventsInOrder
    BY DEF IInv, Life
<1> QED BY <1>1, Invariance, PTL

\* Data posted for a connection goes out in the order it was posted, through two
\* queues and whatever closes come between.
THEOREM DataInOrder == Spec => []SendOrder
<1>1. IInv => SendOrder
    BY DEF IInv, Order, SentPast, Increasing, SendOrder
<1> QED BY <1>1, Invariance, PTL

\* SendCloseMessage: no data that was posted after a close goes out behind it,
\* even when open has overwritten the state the close set.
THEOREM NothingGoesAfterStop == Spec => []NothingAfterStop
<1>1. IInv => NothingAfterStop
    BY DEF IInv, Order
<1> QED BY <1>1, Invariance, PTL
====
