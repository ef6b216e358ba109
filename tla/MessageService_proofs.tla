------------------------ MODULE MessageService_proofs ------------------------
(***************************************************************************)
(* Proofs about MessageService, for any number of workers, producing       *)
(* threads, connections and messages: the type invariant, that no message  *)
(* object ever has two users, that the events of a connection stay in      *)
(* order, by how much the queues can pass their limit, and that a message  *)
(* object is lost only when a queue is full.                               *)
(***************************************************************************)
EXTENDS MessageService, FiniteSetTheorems, TLAPS

-----------------------------------------------------------------------------
(* The inductive invariant. *)

Handling(w) == step[w] = "process"

\* A message stays with the service whose pool it comes from.
AtHome ==
    /\ \A w \in Workers : \A m \in pool[w] : Home(m) = w
    /\ \A w \in Workers : \A i \in 1 .. Len(queue[w]) :
           queue[w][i] \in Messages => Home(queue[w][i]) = w
    /\ \A w \in Workers : Handling(w) =>
           current[w] \in Messages /\ Home(current[w]) = w

\* A message in use carries the event it was taken for.
FilledIn ==
    /\ \A t \in Threads : held[t] # Nil => base[held[t]] \in Base
    /\ \A w \in Workers : \A i \in 1 .. Len(queue[w]) :
           queue[w][i] \in Messages => base[queue[w][i]] \in Base
    /\ \A w \in Workers : Handling(w) => base[current[w]] \in Base

\* The program counters agree with the messages in hand.
InHand ==
    /\ \A t \in Threads : pc[t] # "idle" <=> held[t] # Nil
    /\ \A w \in Workers : step[w] = "account" => current[w] \in Messages

\* The message a thread holds is nobody else's.
HeldAlone ==
    /\ \A t, u \in Threads : t # u /\ held[t] # Nil => held[t] # held[u]
    /\ \A t \in Threads : held[t] # Nil =>
           /\ held[t] \notin kept
           /\ \A w \in Workers :
                  /\ held[t] \notin pool[w]
                  /\ \A i \in 1 .. Len(queue[w]) : queue[w][i] # held[t]
                  /\ Handling(w) => current[w] # held[t]

\* A queued message is queued once and is nobody else's.
QueuedAlone ==
    \A w \in Workers : \A i \in 1 .. Len(queue[w]) : queue[w][i] \in Messages =>
        /\ \A j \in 1 .. Len(queue[w]) : queue[w][j] = queue[w][i] => j = i
        /\ queue[w][i] \notin kept
        /\ queue[w][i] \notin pool[w]
        /\ Handling(w) => current[w] # queue[w][i]

\* The message being handled is nobody else's, and a kept one is not free.
HandledAlone ==
    /\ \A w \in Workers : Handling(w) =>
           current[w] \notin pool[w] /\ current[w] \notin kept
    /\ \A w \in Workers : pool[w] \cap kept = {}

IInv == /\ TypeOK /\ AtHome /\ FilledIn /\ InHand
        /\ HeldAlone /\ QueuedAlone /\ HandledAlone

-----------------------------------------------------------------------------
(* Lemmas. *)

\* A message belongs to one of the workers.
LEMMA HomeWorker == \A m \in Messages : Home(m) \in Workers
BY DEF Messages, Home

\* The worker chosen for a source exists.
LEMMA WorkerExists ==
    ASSUME NEW s \in Sources PROVE GetWorkThreadID(s) \subseteq Workers
<1>1. CASE s = Udp
    BY <1>1 DEF GetWorkThreadID
<1>2. CASE s # Udp
    <2>1. s \in Nat /\ WorkerCount \in Nat \ {0}
        BY <1>2, SourceAssumption, CountAssumption DEF Sources
    <2>2. s % WorkerCount \in 0 .. WorkerCount - 1
        BY <2>1
    <2> QED BY <1>2, <2>2 DEF GetWorkThreadID, Workers
<1> QED BY <1>1, <1>2

\* The constants that mark the absence of a message are not messages.
LEMMA Marks == /\ Nil \notin Messages /\ Stop \notin Messages
               /\ Updates \cap Messages = {} /\ Stop \notin Updates
BY NilAssumption DEF Updates, UpdateOf, Messages

\* What an append to one queue does to all of them.
Grown(w, x) ==
    /\ queue' \in [Workers -> Seq(Items)]
    /\ \A v \in Workers : \A i \in 1 .. Len(queue'[v]) :
           \/ i \in 1 .. Len(queue[v]) /\ queue'[v][i] = queue[v][i]
           \/ v = w /\ i = Len(queue[w]) + 1 /\ queue'[v][i] = x

\* What putting one block does to all queues.
LEMMA Append1 ==
    ASSUME queue \in [Workers -> Seq(Items)], NEW STATE w, w \in Workers,
           NEW STATE x, x \in Items, queue' = [queue EXCEPT ![w] = Append(@, x)]
    PROVE  Grown(w, x)
<1>1. queue[w] \in Seq(Items) /\ Append(queue[w], x) \in Seq(Items)
    OBVIOUS
<1>2. \A i \in 1 .. Len(Append(queue[w], x)) :
          \/ i \in 1 .. Len(queue[w]) /\ Append(queue[w], x)[i] = queue[w][i]
          \/ i = Len(queue[w]) + 1 /\ Append(queue[w], x)[i] = x
    BY <1>1
<1> QED BY <1>1, <1>2 DEF Grown

\* The invariant holds initially.
LEMMA InitIInv == Init => IInv
<1> SUFFICES ASSUME Init PROVE IInv
    OBVIOUS
<1> USE DEF Init
<1>1. TypeOK
    <2>1. 0 \in Workers /\ 0 \in 0 .. MaxEvents /\ 0 \in 0 .. MaxUpdates
        BY CountAssumption DEF Workers
    <2> QED BY <2>1 DEF TypeOK, Commands
<1>2. AtHome /\ FilledIn /\ InHand /\ HeldAlone /\ QueuedAlone /\ HandledAlone
    BY DEF AtHome, FilledIn, InHand, HeldAlone, QueuedAlone, HandledAlone, Handling
<1> QED BY <1>1, <1>2 DEF IInv

-----------------------------------------------------------------------------
(* Each action preserves the invariant. *)

\* CreateMessage: a free message passes into the hands of the thread.
LEMMA CreateMessagePreserves ==
    ASSUME IInv, NEW t \in Threads, NEW s \in Sources, NEW k \in Commands,
           CreateMessage(t, s, k)
    PROVE  IInv'
<1> USE HomeWorker, Marks DEF IInv, producer, worker, close, update
<1>1. raised[t][s] \in 0 .. MaxEvents - 1
      /\ raised' \in [Threads -> [Sources -> 0 .. MaxEvents]]
    <2>2. <<s, k, raised[t][s] + 1>> \in Events
        BY SourceAssumption DEF CreateMessage
    <2>1. raised[t][s] \in 0 .. MaxEvents /\ raised[t][s] + 1 \in 1 .. MaxEvents
        BY <2>2 DEF TypeOK, Events
    <2> QED BY <2>1, CountAssumption DEF CreateMessage, TypeOK
<1>2. PICK w \in Workers :
        \/ pool[w] = {} /\ UNCHANGED <<pool, base, pc, held>>
        \/ \E m \in pool[w] :
            /\ pool' = [pool EXCEPT ![w] = @ \ {m}]
            /\ base' = [base EXCEPT ![m] = [cmd |-> k, thread |-> t, source |-> s,
                                            number |-> raised[t][s] + 1]]
            /\ held' = [held EXCEPT ![t] = m]
            /\ pc' = [pc EXCEPT ![t] = "count"]
    BY WorkerExists DEF CreateMessage
<1>3. CASE pool[w] = {} /\ UNCHANGED <<pool, base, pc, held>>
    BY <1>1, <1>3 DEF CreateMessage, TypeOK, AtHome, FilledIn, InHand,
       HeldAlone, QueuedAlone, HandledAlone, Handling
<1>4. ASSUME NEW m \in pool[w],
             pool' = [pool EXCEPT ![w] = @ \ {m}],
             base' = [base EXCEPT ![m] = [cmd |-> k, thread |-> t, source |-> s,
                                          number |-> raised[t][s] + 1]],
             held' = [held EXCEPT ![t] = m],
             pc' = [pc EXCEPT ![t] = "count"]
      PROVE  IInv'
    <2>1. m \in Messages /\ Home(m) = w /\ base'[m] \in Base
        BY <1>1, <1>4, CountAssumption DEF TypeOK, AtHome, Base
    <2>2. held[t] = Nil
        BY DEF CreateMessage, InHand
    <2>3. UNCHANGED <<queue, active, step, current, kept,
                      handled, closer, closing, sending, service, updates>>
        BY DEF CreateMessage
    <2>4. TypeOK'
        BY <1>1, <1>4, <2>1, <2>3 DEF TypeOK
    <2>5. AtHome' /\ InHand'
        BY <1>4, <2>1, <2>3 DEF TypeOK, AtHome, InHand, Handling
    <2>6. \A u \in Threads : held[u] # m
        BY <1>4, <2>1 DEF HeldAlone
    <2>7. \A v \in Workers : \A i \in 1 .. Len(queue[v]) : queue[v][i] # m
        BY <1>4, <2>1 DEF QueuedAlone, AtHome
    <2>8. \A v \in Workers : Handling(v) => current[v] # m
        BY <1>4, <2>1 DEF HandledAlone, AtHome
    <2>9. FilledIn'
        <3>1. \A n \in Messages : n # m => base'[n] = base[n]
            BY <1>4, <2>1 DEF TypeOK
        <3>2. \A v \in Workers : \A i \in 1 .. Len(queue[v]) :
                  queue[v][i] \in Messages => base'[queue[v][i]] \in Base
            BY <2>7, <3>1 DEF FilledIn
        <3>3. \A u \in Threads : held'[u] # Nil => base'[held'[u]] \in Base
            BY <1>4, <2>1, <2>6, <3>1 DEF FilledIn, TypeOK
        <3>4. \A v \in Workers : Handling(v) => base'[current[v]] \in Base
            BY <2>8, <3>1 DEF FilledIn, AtHome
        <3> QED BY <2>3, <3>2, <3>3, <3>4 DEF FilledIn, Handling
    <2>10. m \notin kept /\ \A v \in Workers : m \notin pool'[v]
        BY <1>4, <2>1 DEF HandledAlone, AtHome, TypeOK
    <2>11. HeldAlone'
        BY <1>4, <2>1, <2>2, <2>3, <2>6, <2>7, <2>8, <2>10
           DEF HeldAlone, Handling, TypeOK
    <2>12. QueuedAlone' /\ HandledAlone'
        BY <1>4, <2>3 DEF QueuedAlone, HandledAlone, Handling, TypeOK
    <2> QED BY <2>4, <2>5, <2>9, <2>11, <2>12
<1> QED BY <1>2, <1>3, <1>4

\* CountQueue: the thread keeps its message or drops it.
LEMMA CountQueuePreserves ==
    ASSUME IInv, NEW t \in Threads, CountQueue(t) PROVE IInv'
<1> USE HomeWorker, Marks DEF IInv, producer, worker, close, update
<1>1. UNCHANGED <<pool, base, queue, active, raised, step, current,
                  kept, handled, closer, closing, sending, service, updates>>
    BY DEF CountQueue
<1>2. /\ held' \in [Threads -> Messages \cup {Nil}]
      /\ pc' \in [Threads -> {"idle", "count", "put"}]
      /\ \A u \in Threads : held'[u] # Nil => held'[u] = held[u]
    BY DEF CountQueue, Return, TypeOK
<1>3. TypeOK' /\ AtHome' /\ FilledIn'
    BY <1>1, <1>2 DEF TypeOK, AtHome, FilledIn, Handling
<1>4. InHand'
    BY <1>1 DEF CountQueue, Return, InHand, TypeOK
<1>5. HeldAlone' /\ QueuedAlone' /\ HandledAlone'
    BY <1>1, <1>2 DEF HeldAlone, QueuedAlone, HandledAlone, Handling
<1> QED BY <1>3, <1>4, <1>5

\* PutQueue: the message passes into the queue of its service, or is dropped.
LEMMA PutQueuePreserves ==
    ASSUME IInv, NEW t \in Threads, PutQueue(t) PROVE IInv'
<1> USE HomeWorker, Marks DEF IInv, producer, worker, close, update
<1>1. UNCHANGED <<pool, base, active, raised, step, current,
                  kept, handled, closer, closing, sending, service, updates>>
    BY DEF PutQueue
<1>2. /\ held' = [held EXCEPT ![t] = Nil]
      /\ pc' = [pc EXCEPT ![t] = "idle"]
    BY DEF PutQueue, Return
<1>3. held[t] \in Messages /\ Home(held[t]) \in Workers
    BY DEF PutQueue, InHand, TypeOK
<1>4. InHand'
    BY <1>1, <1>2 DEF InHand, TypeOK
<1>5. CASE UNCHANGED queue
    <2>1. TypeOK' /\ AtHome'
        BY <1>1, <1>2, <1>5 DEF TypeOK, AtHome, Handling
    <2>4. \A u \in Threads : held'[u] # Nil => held'[u] = held[u]
        BY <1>2 DEF TypeOK
    <2>2. FilledIn'
        BY <1>1, <1>5, <2>4 DEF FilledIn, Handling
    <2>5. HeldAlone'
        <3>1. \A u, x \in Threads : u # x /\ held'[u] # Nil => held'[u] # held'[x]
            BY <1>2, <2>4 DEF HeldAlone, TypeOK
        <3> QED BY <1>1, <1>5, <2>4, <3>1 DEF HeldAlone, Handling
    <2>3. HeldAlone' /\ QueuedAlone' /\ HandledAlone'
        BY <1>1, <1>5, <2>5 DEF QueuedAlone, HandledAlone, Handling
    <2> QED BY <1>4, <2>1, <2>2, <2>3
<1>6. CASE queue' = [queue EXCEPT ![Home(held[t])] = Append(@, held[t])]
    <2>1. Grown(Home(held[t]), held[t])
        BY <1>3, <1>6, Append1 DEF TypeOK, Items
    <2>2. TypeOK'
        BY <1>1, <1>2, <2>1 DEF TypeOK, Grown
    <2>3. AtHome'
        BY <1>1, <1>3, <2>1 DEF AtHome, Handling, Grown
    <2>7. base[held[t]] \in Base
        BY <1>3 DEF FilledIn
    <2>8. FilledIn'
        BY <1>1, <1>2, <1>3, <2>1, <2>7 DEF FilledIn, Handling, Grown, TypeOK
    <2>9. \A u \in Threads : held'[u] # Nil => u # t /\ held'[u] = held[u]
        BY <1>2 DEF TypeOK
    <2>4. HeldAlone'
        <3>1. ASSUME NEW u \in Threads, held'[u] # Nil,
                     NEW w \in Workers, NEW i \in 1 .. Len(queue'[w])
              PROVE  queue'[w][i] # held'[u]
            <4>3. u # t /\ held[u] # Nil /\ held'[u] = held[u]
                BY <2>9, <3>1
            <4>1. held'[u] = held[u] /\ held[u] # held[t]
                BY <4>3 DEF HeldAlone
            <4>2. \/ queue'[w][i] = held[t]
                  \/ i \in 1 .. Len(queue[w]) /\ queue'[w][i] = queue[w][i]
                BY <2>1, <3>1 DEF Grown
            <4> QED BY <4>1, <4>2, <4>3 DEF HeldAlone
        <3>2. \A u, x \in Threads : u # x /\ held'[u] # Nil => held'[u] # held'[x]
            BY <2>9 DEF HeldAlone
        <3> QED BY <1>1, <2>9, <3>1, <3>2 DEF HeldAlone, Handling
    <2>5. QueuedAlone'
        <3> SUFFICES ASSUME NEW w \in Workers, NEW i \in 1 .. Len(queue'[w]),
                            queue'[w][i] \in Messages
                     PROVE  /\ \A j \in 1 .. Len(queue'[w]) :
                                   queue'[w][j] = queue'[w][i] => j = i
                            /\ queue'[w][i] \notin kept
                            /\ queue'[w][i] \notin pool[w]
                            /\ Handling(w) => current[w] # queue'[w][i]
            BY <1>1 DEF QueuedAlone, Handling
        <3>1. \A j \in 1 .. Len(queue'[w]) :
                  \/ j \in 1 .. Len(queue[w]) /\ queue'[w][j] = queue[w][j]
                  \/ /\ w = Home(held[t]) /\ j = Len(queue[w]) + 1
                     /\ queue'[w][j] = held[t]
            BY <2>1 DEF Grown
        <3>2. \A j \in 1 .. Len(queue[w]) : queue[w][j] # held[t]
            BY <1>3 DEF HeldAlone
        <3>3. CASE queue'[w][i] = held[t]
            BY <1>3, <3>1, <3>2, <3>3 DEF HeldAlone
        <3>4. CASE i \in 1 .. Len(queue[w]) /\ queue'[w][i] = queue[w][i]
            BY <3>1, <3>2, <3>4 DEF QueuedAlone
        <3> QED BY <3>1, <3>3, <3>4
    <2>6. HandledAlone'
        BY <1>1 DEF HandledAlone, Handling
    <2> QED BY <1>4, <2>2, <2>3, <2>4, <2>5, <2>6, <2>8
<1> QED BY <1>5, <1>6 DEF PutQueue

\* A block that is no message disturbs nothing at the end of a queue.
LEMMA MarkPreserves ==
    ASSUME IInv, NEW STATE w, w \in Workers, NEW STATE x, x \in Updates \cup {Stop},
           queue' = [queue EXCEPT ![w] = Append(@, x)],
           UNCHANGED <<pool, base, held, pc, step, current, kept>>
    PROVE  /\ queue' \in [Workers -> Seq(Items)]
           /\ AtHome' /\ FilledIn' /\ InHand'
           /\ HeldAlone' /\ QueuedAlone' /\ HandledAlone'
<1> USE Marks DEF IInv
<1>1. Grown(w, x)
    BY Append1 DEF TypeOK, Items
<1>2. x \notin Messages
    OBVIOUS
<1>3. AtHome' /\ FilledIn' /\ InHand'
    BY <1>1, <1>2 DEF AtHome, FilledIn, InHand, Handling, Grown
<1>4. \A v \in Workers : \A u \in Threads : held[u] # Nil =>
          \A i \in 1 .. Len(queue'[v]) : queue'[v][i] # held[u]
    BY <1>1, <1>2 DEF HeldAlone, Grown, TypeOK
<1>5. HeldAlone'
    BY <1>4 DEF HeldAlone, Handling
<1>6. QueuedAlone'
    BY <1>1, <1>2 DEF QueuedAlone, Handling, Grown
<1>7. HandledAlone'
    BY DEF HandledAlone, Handling
<1> QED BY <1>1, <1>3, <1>5, <1>6, <1>7 DEF Grown

\* Every sender has a block of its own.
LEMMA SenderBlock ==
    ASSUME NEW s \in Senders PROVE UpdateOf(s) \in Updates /\ UpdateOf(s) \in Items
BY DEF Updates, Items

\* What a broadcast does to its own variables.
LEMMA SendingTyped ==
    ASSUME TypeOK, NEW s \in Senders, Begin(s) \/ GiveUp(s) \/ NextService(s)
    PROVE  /\ sending' \in [Senders -> {"idle", "count", "put"}]
           /\ service' \in [Senders -> Workers] /\ sending'[s] # "put"
           /\ \A x \in Senders : x # s => sending'[x] = sending[x] /\ service'[x] = service[x]
<1>1. 0 \in Workers /\ (service[s] < WorkerCount - 1 => service[s] + 1 \in Workers)
    BY CountAssumption DEF TypeOK, Workers
<1> QED BY <1>1 DEF TypeOK, Begin, GiveUp, NextService

\* A step of a broadcast moves nothing but a block of the sender, which may
\* join the queue of the service it is at.
LEMMA SendStep ==
    ASSUME TypeOK, NEW s \in Senders, Send(s)
    PROVE  /\ service[s] \in Workers
           /\ UNCHANGED <<pool, base, active, pc, held, raised, step, current,
                          kept, handled, closer, closing, updates>>
           /\ sending' \in [Senders -> {"idle", "count", "put"}]
           /\ service' \in [Senders -> Workers]
           /\ \A x \in Senders : x # s => sending'[x] = sending[x] /\ service'[x] = service[x]
           /\ \/ queue' = queue
              \/ queue' = [queue EXCEPT ![service[s]] = Append(@, UpdateOf(s))]
<1> USE DEF producer, worker, close
<1>1. CASE CountUpdate(s)
    <2>1. CASE GiveUp(s)
        BY <1>1, <2>1, SendingTyped DEF CountUpdate, TypeOK
    <2>2. CASE sending' = [sending EXCEPT ![s] = "put"] /\ UNCHANGED service
        BY <1>1, <2>2 DEF CountUpdate, TypeOK
    <2> QED BY <1>1, <2>1, <2>2 DEF CountUpdate
<1>2. CASE PutUpdate(s)
    <2>1. NextService(s) \/ GiveUp(s)
        BY <1>2 DEF PutUpdate
    <2>2. UNCHANGED <<pool, base, active, pc, held, raised, step, current,
                      kept, handled, closer, closing, updates>>
        BY <1>2 DEF PutUpdate
    <2>3. \/ queue' = queue
          \/ queue' = [queue EXCEPT ![service[s]] = Append(@, UpdateOf(s))]
        BY <1>2 DEF PutUpdate
    <2> QED BY <2>1, <2>2, <2>3, SendingTyped DEF TypeOK
<1> QED BY <1>1, <1>2 DEF Send

\* An MB_USER block joins a queue, or the queue is too long.
LEMMA SendPreserves ==
    ASSUME IInv, NEW s \in Senders, Send(s) PROVE IInv'
<1>1. /\ service[s] \in Workers
      /\ UNCHANGED <<pool, base, active, pc, held, raised, step, current,
                     kept, handled, closer, closing, updates>>
      /\ sending' \in [Senders -> {"idle", "count", "put"}]
      /\ service' \in [Senders -> Workers]
      /\ \/ queue' = queue
         \/ queue' = [queue EXCEPT ![service[s]] = Append(@, UpdateOf(s))]
    BY SendStep DEF IInv
<1>2. CASE queue' = [queue EXCEPT ![service[s]] = Append(@, UpdateOf(s))]
    <2>1. /\ queue' \in [Workers -> Seq(Items)]
          /\ AtHome' /\ FilledIn' /\ InHand'
          /\ HeldAlone' /\ QueuedAlone' /\ HandledAlone'
        BY <1>1, <1>2, SenderBlock, MarkPreserves
    <2>2. TypeOK'
        BY <1>1, <2>1 DEF IInv, TypeOK
    <2> QED BY <2>1, <2>2 DEF IInv
<1>3. CASE queue' = queue
    <2>1. TypeOK' /\ AtHome' /\ FilledIn' /\ InHand'
        BY <1>1, <1>3 DEF IInv, TypeOK, AtHome, FilledIn, InHand, Handling
    <2>2. HeldAlone' /\ QueuedAlone' /\ HandledAlone'
        BY <1>1, <1>3 DEF IInv, HeldAlone, QueuedAlone, HandledAlone, Handling
    <2> QED BY <2>1, <2>2 DEF IInv
<1> QED BY <1>1, <1>2, <1>3

\* The console begins a broadcast: nothing moves.
LEMMA ConsolePreserves ==
    ASSUME IInv, ConsoleUpdate PROVE IInv'
<1> USE DEF IInv, producer, worker, close
<1>1. /\ sending' \in [Senders -> {"idle", "count", "put"}]
      /\ service' \in [Senders -> Workers]
    BY SendingTyped DEF ConsoleUpdate, Senders
<1>2. updates' \in 0 .. MaxUpdates
    BY CountAssumption DEF ConsoleUpdate, Begin, TypeOK
<1>3. TypeOK' /\ AtHome' /\ FilledIn' /\ InHand'
    BY <1>1, <1>2 DEF ConsoleUpdate, TypeOK, AtHome, FilledIn, InHand, Handling
<1>4. HeldAlone' /\ QueuedAlone' /\ HandledAlone'
    BY DEF ConsoleUpdate, HeldAlone, QueuedAlone, HandledAlone, Handling
<1> QED BY <1>3, <1>4

\* The MB_STOP block joins the queue of the service being closed.
LEMMA ClosePutPreserves ==
    ASSUME IInv, ClosePut PROVE IInv'
<1> USE DEF IInv, producer, worker, update
<1>1. closing \in Workers /\ queue' = [queue EXCEPT ![closing] = Append(@, Stop)]
    BY DEF ClosePut, TypeOK
<1>2. /\ queue' \in [Workers -> Seq(Items)]
      /\ AtHome' /\ FilledIn' /\ InHand'
      /\ HeldAlone' /\ QueuedAlone' /\ HandledAlone'
    BY <1>1, MarkPreserves DEF ClosePut
<1> QED BY <1>1, <1>2 DEF ClosePut, TypeOK

\* What taking the first block does to all queues.
LEMMA Tail1 ==
    ASSUME queue \in [Workers -> Seq(Items)], NEW STATE w, w \in Workers,
           queue[w] # << >>, queue' = [queue EXCEPT ![w] = Tail(@)]
    PROVE  /\ queue' \in [Workers -> Seq(Items)]
           /\ Head(queue[w]) = queue[w][1] /\ 1 \in 1 .. Len(queue[w])
           /\ \A v \in Workers : v # w => queue'[v] = queue[v]
           /\ \A i \in 1 .. Len(queue'[w]) :
                  i + 1 \in 1 .. Len(queue[w]) /\ queue'[w][i] = queue[w][i + 1]
<1>1. queue[w] \in Seq(Items) /\ queue[w] # << >>
    OBVIOUS
<1> QED BY <1>1

\* TakeMessage: the message at the head passes into the hands of the worker.
LEMMA TakeMessagePreserves ==
    ASSUME IInv, NEW v \in Workers, TakeMessage(v) PROVE IInv'
<1> USE HomeWorker, Marks DEF IInv, producer, worker, close, update, AtQueue
<1> DEFINE m == Head(queue[v])
<1>1. /\ queue' \in [Workers -> Seq(Items)]
      /\ m = queue[v][1] /\ 1 \in 1 .. Len(queue[v])
      /\ \A w \in Workers : w # v => queue'[w] = queue[w]
      /\ \A i \in 1 .. Len(queue'[v]) :
             i + 1 \in 1 .. Len(queue[v]) /\ queue'[v][i] = queue[v][i + 1]
    BY Tail1 DEF TakeMessage, TypeOK
<1>2. m \in Messages /\ Home(m) = v /\ base[m] \in Base
    BY <1>1 DEF TakeMessage, AtHome, FilledIn
<1>3. /\ current' = [current EXCEPT ![v] = m]
      /\ step' = [step EXCEPT ![v] = "process"]
      /\ UNCHANGED <<pool, base, active, pc, held, raised, kept,
                     handled, closer, closing, sending, service, updates>>
    BY DEF TakeMessage
<1>4. TypeOK'
    BY <1>1, <1>2, <1>3 DEF TypeOK
<1>5. \A w \in Workers : Handling(w)' =>
          \/ w = v /\ current'[w] = m
          \/ w # v /\ Handling(w) /\ current'[w] = current[w]
    BY <1>3 DEF Handling, TypeOK
<1>6. \A w \in Workers : \A i \in 1 .. Len(queue'[w]) :
          \E j \in 1 .. Len(queue[w]) :
              queue'[w][i] = queue[w][j] /\ (w = v => j = i + 1)
    BY <1>1
<1>7. /\ \A i \in 1 .. Len(queue'[v]) : queue'[v][i] # m
      /\ m \notin pool[v] /\ m \notin kept
      /\ \A t \in Threads : held[t] # m
    BY <1>1, <1>2 DEF QueuedAlone, HeldAlone
<1>8. AtHome' /\ InHand'
    <2>1. ASSUME NEW w \in Workers, NEW i \in 1 .. Len(queue'[w]),
                 queue'[w][i] \in Messages
          PROVE  Home(queue'[w][i]) = w
        <3>1. PICK j \in 1 .. Len(queue[w]) : queue'[w][i] = queue[w][j]
            BY <1>6
        <3> QED BY <2>1, <3>1 DEF AtHome
    <2>3. \A w \in Workers : Handling(w)' =>
              current'[w] \in Messages /\ Home(current'[w]) = w
        <3> SUFFICES ASSUME NEW w \in Workers, Handling(w)'
                     PROVE  current'[w] \in Messages /\ Home(current'[w]) = w
            OBVIOUS
        <3>1. CASE w = v
            BY <1>2, <1>5, <3>1
        <3>2. CASE w # v
            BY <1>5, <3>2 DEF AtHome
        <3> QED BY <3>1, <3>2
    <2>4. \A w \in Workers : \A x \in pool'[w] : Home(x) = w
        BY <1>3 DEF AtHome
    <2>5. AtHome'
        BY <2>1, <2>3, <2>4 DEF AtHome
    <2>2. InHand'
        BY <1>2, <1>3 DEF InHand, TypeOK
    <2> QED BY <2>2, <2>5
<1>9. FilledIn'
    BY <1>2, <1>3, <1>5, <1>6 DEF FilledIn
<1>10. HeldAlone'
    BY <1>3, <1>5, <1>6, <1>7 DEF HeldAlone
<1>11. QueuedAlone'
    <2>1. ASSUME NEW w \in Workers, NEW i \in 1 .. Len(queue'[w]),
                 queue'[w][i] \in Messages
          PROVE  /\ \A j \in 1 .. Len(queue'[w]) :
                        queue'[w][j] = queue'[w][i] => j = i
                 /\ queue'[w][i] \notin kept /\ queue'[w][i] \notin pool[w]
                 /\ Handling(w)' => current'[w] # queue'[w][i]
        <3>1. CASE w = v
            BY <1>1, <1>5, <1>7, <2>1, <3>1 DEF QueuedAlone
        <3>2. CASE w # v
            BY <1>1, <1>5, <2>1, <3>2 DEF QueuedAlone
        <3> QED BY <3>1, <3>2
    <2> QED BY <1>3, <2>1 DEF QueuedAlone
<1>12. HandledAlone'
    BY <1>3, <1>5, <1>7 DEF HandledAlone
<1> QED BY <1>4, <1>8, <1>9, <1>10, <1>11, <1>12

\* DeleteMessage: the message in the worker's hands is free again.
LEMMA FreePreserves ==
    ASSUME IInv, NEW STATE v, v \in Workers, Handling(v), DeleteMessage(current[v]),
           step' = [step EXCEPT ![v] = "account"]
               \/ step' = [step EXCEPT ![v] = "getq"],
           current' = current \/ current' = [current EXCEPT ![v] = Nil],
           step'[v] = "account" => current' = current,
           UNCHANGED <<queue, pc, held, kept>>
    PROVE  /\ pool' \in [Workers -> SUBSET Messages]
           /\ base' \in [Messages -> Base \cup {Clear}]
           /\ AtHome' /\ FilledIn' /\ InHand'
           /\ HeldAlone' /\ QueuedAlone' /\ HandledAlone'
<1> USE HomeWorker, Marks DEF IInv
<1> DEFINE m == current[v]
<1>1. /\ m \in Messages /\ Home(m) = v
      /\ pool' = [pool EXCEPT ![v] = @ \cup {m}]
      /\ base' = [base EXCEPT ![m] = Clear]
    BY DEF AtHome, DeleteMessage
<1>2. \A w \in Workers : Handling(w)' => w # v /\ Handling(w) /\ current'[w] = current[w]
    BY DEF Handling, TypeOK
<1>3. /\ \A u \in Threads : held[u] # m
      /\ \A w \in Workers : \A i \in 1 .. Len(queue[w]) : queue[w][i] # m
      /\ \A w \in Workers : Handling(w) /\ w # v => current[w] # m
      /\ m \notin kept
    BY <1>1 DEF HeldAlone, QueuedAlone, HandledAlone, AtHome
<1>4. \A n \in Messages : n # m => base'[n] = base[n]
    BY <1>1 DEF TypeOK
<1>5. AtHome' /\ FilledIn' /\ InHand'
    <2>1. AtHome'
        BY <1>1, <1>2 DEF AtHome, TypeOK
    <2>2. FilledIn'
        <3>1. \A u \in Threads : held[u] # Nil => base'[held[u]] \in Base
            BY <1>3, <1>4 DEF FilledIn, TypeOK
        <3>2. \A w \in Workers : \A i \in 1 .. Len(queue[w]) :
                  queue[w][i] \in Messages => base'[queue[w][i]] \in Base
            BY <1>3, <1>4 DEF FilledIn
        <3>3. \A w \in Workers : Handling(w)' => base'[current'[w]] \in Base
            BY <1>2, <1>3, <1>4 DEF FilledIn, AtHome
        <3> QED BY <3>1, <3>2, <3>3 DEF FilledIn
    <2>3. InHand'
        BY <1>1 DEF InHand, TypeOK
    <2> QED BY <2>1, <2>2, <2>3
<1>6. HeldAlone' /\ QueuedAlone' /\ HandledAlone'
    BY <1>1, <1>2, <1>3 DEF HeldAlone, QueuedAlone, HandledAlone, TypeOK
<1> QED BY <1>1, <1>5, <1>6 DEF TypeOK

\* ProcessMessage gives a refused message back.
LEMMA RefuseCommandPreserves ==
    ASSUME IInv, NEW v \in Workers, RefuseCommand(v) PROVE IInv'
<1> USE DEF IInv, producer, close, update
<1>1. /\ pool' \in [Workers -> SUBSET Messages]
      /\ base' \in [Messages -> Base \cup {Clear}]
      /\ AtHome' /\ FilledIn' /\ InHand'
      /\ HeldAlone' /\ QueuedAlone' /\ HandledAlone'
    BY FreePreserves DEF RefuseCommand, Handling, TypeOK
<1>2. TypeOK'
    BY <1>1 DEF RefuseCommand, TypeOK
<1> QED BY <1>1, <1>2

\* DoMessage: the message is free again, or a module keeps it.
LEMMA DoMessagePreserves ==
    ASSUME IInv, NEW v \in Workers, DoMessage(v) PROVE IInv'
<1> USE HomeWorker, Marks DEF IInv, producer, close, update
<1> DEFINE m == current[v]
<1>1. /\ Handling(v) /\ m \in Messages /\ Home(m) = v /\ base[m] \in Base
      /\ step' = [step EXCEPT ![v] = "account"]
      /\ UNCHANGED <<queue, active, pc, held, raised, current,
                     closer, closing, sending, service, updates>>
    BY DEF DoMessage, Handling, AtHome, FilledIn
<1>2. handled' \in [Threads -> [Sources -> 0 .. MaxEvents]]
    <2>1. /\ base[m].thread \in Threads /\ base[m].source \in Sources
          /\ base[m].number \in 0 .. MaxEvents
        BY <1>1, CountAssumption DEF Base
    <2> QED BY <2>1 DEF DoMessage, TypeOK
<1>3. CASE DeleteMessage(m) /\ UNCHANGED kept
    <2>1. /\ pool' \in [Workers -> SUBSET Messages]
          /\ base' \in [Messages -> Base \cup {Clear}]
          /\ AtHome' /\ FilledIn' /\ InHand'
          /\ HeldAlone' /\ QueuedAlone' /\ HandledAlone'
        BY <1>1, <1>3, FreePreserves
    <2> QED BY <1>1, <1>2, <1>3, <2>1 DEF TypeOK
<1>4. CASE kept' = kept \cup {m} /\ UNCHANGED <<pool, base>>
    <2>1. \A w \in Workers : Handling(w)' => w # v /\ Handling(w)
        BY <1>1 DEF Handling, TypeOK
    <2>2. TypeOK'
        BY <1>1, <1>2, <1>4 DEF TypeOK
    <2>3. AtHome' /\ FilledIn' /\ InHand'
        BY <1>1, <1>4, <2>1 DEF AtHome, FilledIn, InHand, TypeOK
    <2>4. HeldAlone' /\ QueuedAlone'
        BY <1>1, <1>4, <2>1 DEF HeldAlone, QueuedAlone, AtHome
    <2>5. HandledAlone'
        BY <1>1, <1>4, <2>1 DEF HandledAlone, AtHome
    <2> QED BY <2>2, <2>3, <2>4, <2>5
<1> QED BY <1>3, <1>4 DEF DoMessage

\* A flush only takes blocks away.
LEMMA CloseFlushPreserves ==
    ASSUME IInv, CloseFlush PROVE IInv'
<1> USE Marks DEF IInv, producer, worker, update
<1>1. /\ queue' \in [Workers -> Seq(Items)]
      /\ \A w \in Workers : \A i \in 1 .. Len(queue'[w]) :
             queue'[w] = queue[w]
    <2>1. << >> \in Seq(Items) /\ Len(<< >>) = 0
        OBVIOUS
    <2> QED BY <2>1 DEF CloseFlush, TypeOK
<1>2. TypeOK'
    BY <1>1 DEF CloseFlush, TypeOK
<1>3. AtHome' /\ FilledIn' /\ InHand'
    BY <1>1 DEF CloseFlush, AtHome, FilledIn, InHand, Handling
<1>4. HeldAlone' /\ QueuedAlone' /\ HandledAlone'
    BY <1>1 DEF CloseFlush, HeldAlone, QueuedAlone, HandledAlone, Handling
<1> QED BY <1>2, <1>3, <1>4

\* An update leaves the queue: the other blocks keep their order.
LEMMA TakeUpdatePreserves ==
    ASSUME IInv, NEW v \in Workers, TakeUpdate(v) PROVE IInv'
<1> USE HomeWorker, Marks DEF IInv, producer, worker, close, AtQueue
<1>1. TypeOK'
    <2>1. /\ sending' \in [Senders -> {"idle", "count", "put"}]
          /\ service' \in [Senders -> Workers]
          /\ updates' \in 0 .. MaxUpdates
        <3>1. CASE Begin(v)
            <4>1. updates' \in 0 .. MaxUpdates
                BY <3>1, CountAssumption DEF Begin, TypeOK
            <4> QED BY <3>1, <4>1, SendingTyped DEF Senders
        <3>2. CASE UNCHANGED update
            BY <3>2 DEF update, TypeOK
        <3> QED BY <3>1, <3>2 DEF TakeUpdate
    <2>2. queue' \in [Workers -> Seq(Items)]
        BY DEF TakeUpdate, TypeOK
    <2> QED BY <2>1, <2>2 DEF TakeUpdate, TypeOK
<1>2. AtHome' /\ FilledIn' /\ InHand'
    BY DEF TakeUpdate, TypeOK, AtHome, FilledIn, InHand, HeldAlone,
       QueuedAlone, HandledAlone, Handling, Items
<1>3. HeldAlone' /\ QueuedAlone' /\ HandledAlone'
    BY DEF TakeUpdate, TypeOK, AtHome, InHand, HeldAlone, QueuedAlone,
       HandledAlone, Handling, Items
<1> QED BY <1>1, <1>2, <1>3

\* So it is with a stop.
LEMMA TakeStopPreserves ==
    ASSUME IInv, NEW v \in Workers, TakeStop(v) PROVE IInv'
<1> USE HomeWorker, Marks DEF IInv, producer, worker, close, update, AtQueue
<1>1. TypeOK'
    BY CountAssumption, NilAssumption DEF TakeStop, TypeOK, InHand, Items,
       Workers, Commands
<1>2. AtHome' /\ FilledIn' /\ InHand'
    BY DEF TakeStop, TypeOK, AtHome, FilledIn, InHand, HeldAlone,
       QueuedAlone, HandledAlone, Handling, Items
<1>3. HeldAlone' /\ QueuedAlone' /\ HandledAlone'
    BY DEF TakeStop, TypeOK, AtHome, InHand, HeldAlone, QueuedAlone,
       HandledAlone, Handling, Items
<1> QED BY <1>1, <1>2, <1>3

\* The statistics only read the message, wherever it is by now.
LEMMA AccountPreserves ==
    ASSUME IInv, NEW v \in Workers, Account(v) PROVE IInv'
<1> USE HomeWorker, Marks DEF IInv, producer, worker, close, update
<1>1. TypeOK'
    BY CountAssumption, NilAssumption DEF Account, TypeOK, InHand, Items,
       Workers, Commands
<1>2. AtHome' /\ FilledIn' /\ InHand'
    <2>1. AtHome' /\ FilledIn'
        BY DEF Account, TypeOK, AtHome, FilledIn, InHand, Handling
    <2>2. InHand'
        BY DEF Account, TypeOK, AtHome, FilledIn, InHand, Handling, Items
    <2> QED BY <2>1, <2>2
<1>3. HeldAlone' /\ QueuedAlone' /\ HandledAlone'
    BY DEF Account, TypeOK, AtHome, InHand, HeldAlone, QueuedAlone,
       HandledAlone, Handling, Items
<1> QED BY <1>1, <1>2, <1>3

\* Nothing moves when a worker ends.
LEMMA AnswerStopPreserves ==
    ASSUME IInv, NEW v \in Workers, AnswerStop(v) PROVE IInv'
<1> USE HomeWorker, Marks DEF IInv, producer, worker, close, update
<1>1. TypeOK'
    BY CountAssumption, NilAssumption DEF AnswerStop, TypeOK, InHand,
       Items, Workers, Commands
<1>2. AtHome' /\ FilledIn' /\ InHand'
    BY DEF AnswerStop, TypeOK, AtHome, FilledIn, InHand, HeldAlone,
       QueuedAlone, HandledAlone, Handling, Items
<1>3. HeldAlone' /\ QueuedAlone' /\ HandledAlone'
    BY DEF AnswerStop, TypeOK, AtHome, InHand, HeldAlone, QueuedAlone,
       HandledAlone, Handling, Items
<1> QED BY <1>1, <1>2, <1>3

\* Nor do the steps of the closing thread that only wait or lock move
\* anything.
LEMMA ClosePreserves ==
    ASSUME IInv, Close PROVE IInv'
<1> USE HomeWorker, Marks DEF IInv, producer, worker, close, update
<1>1. TypeOK'
    BY CountAssumption, NilAssumption DEF Close, TypeOK, InHand, Items,
       Workers, Commands
<1>2. AtHome' /\ FilledIn' /\ InHand'
    BY DEF Close, TypeOK, AtHome, FilledIn, InHand, HeldAlone,
       QueuedAlone, HandledAlone, Handling, Items
<1>3. HeldAlone' /\ QueuedAlone' /\ HandledAlone'
    BY DEF Close, TypeOK, AtHome, InHand, HeldAlone, QueuedAlone,
       HandledAlone, Handling, Items
<1> QED BY <1>1, <1>2, <1>3

\* The lock.
LEMMA CloseLockPreserves ==
    ASSUME IInv, CloseLock PROVE IInv'
<1> USE HomeWorker, Marks DEF IInv, producer, worker, close, update
<1>1. TypeOK'
    BY CountAssumption, NilAssumption DEF CloseLock, TypeOK, InHand,
       Items, Workers, Commands
<1>2. AtHome' /\ FilledIn' /\ InHand'
    BY DEF CloseLock, TypeOK, AtHome, FilledIn, InHand, HeldAlone,
       QueuedAlone, HandledAlone, Handling, Items
<1>3. HeldAlone' /\ QueuedAlone' /\ HandledAlone'
    BY DEF CloseLock, TypeOK, AtHome, InHand, HeldAlone, QueuedAlone,
       HandledAlone, Handling, Items
<1> QED BY <1>1, <1>2, <1>3

\* The wait.
LEMMA CloseWaitPreserves ==
    ASSUME IInv, CloseWait PROVE IInv'
<1> USE HomeWorker, Marks DEF IInv, producer, worker, close, update
<1>1. TypeOK'
    BY CountAssumption, NilAssumption DEF CloseWait, TypeOK, InHand,
       Items, Workers, Commands
<1>2. AtHome' /\ FilledIn' /\ InHand'
    BY DEF CloseWait, TypeOK, AtHome, FilledIn, InHand, HeldAlone,
       QueuedAlone, HandledAlone, Handling, Items
<1>3. HeldAlone' /\ QueuedAlone' /\ HandledAlone'
    BY DEF CloseWait, TypeOK, AtHome, InHand, HeldAlone, QueuedAlone,
       HandledAlone, Handling, Items
<1> QED BY <1>1, <1>2, <1>3

\* A pool that is closed only loses messages.
LEMMA CloseEndPreserves ==
    ASSUME IInv, CloseEnd PROVE IInv'
<1> USE HomeWorker, Marks DEF IInv, producer, worker, close, update
<1>1. TypeOK'
    <2>1. pool' \in [Workers -> SUBSET Messages]
        BY DEF CloseEnd, TypeOK
    <2>2. closing' \in Workers
        BY CountAssumption DEF CloseEnd, TypeOK, Workers
    <2> QED BY <2>1, <2>2 DEF CloseEnd, TypeOK
<1>2. AtHome' /\ FilledIn' /\ InHand'
    <2>1. AtHome' /\ FilledIn'
        BY DEF CloseEnd, TypeOK, AtHome, FilledIn, InHand, Handling
    <2>2. InHand'
        BY DEF CloseEnd, TypeOK, AtHome, FilledIn, InHand, Handling, Items
    <2> QED BY <2>1, <2>2
<1>3. HeldAlone' /\ QueuedAlone' /\ HandledAlone'
    BY DEF CloseEnd, TypeOK, AtHome, InHand, HeldAlone, QueuedAlone,
       HandledAlone, Handling, Items
<1> QED BY <1>1, <1>2, <1>3

-----------------------------------------------------------------------------
(* The theorems. *)

\* Every step keeps the invariant.
LEMMA NextIInv == IInv /\ [Next]_vars => IInv'
<1> SUFFICES ASSUME IInv, [Next]_vars PROVE IInv'
    OBVIOUS
<1>1. CASE UNCHANGED vars
    BY <1>1 DEF vars, producer, worker, close, update, IInv, TypeOK, AtHome,
       FilledIn, InHand, HeldAlone, QueuedAlone, HandledAlone, Handling
<1>2. ASSUME NEW t \in Threads, NEW s \in Sources, NEW k \in Commands,
             CreateMessage(t, s, k)
      PROVE  IInv'
    BY <1>2, CreateMessagePreserves
<1>3. ASSUME NEW t \in Threads, Produce(t) PROVE IInv'
    BY <1>3, CountQueuePreserves, PutQueuePreserves DEF Produce
<1>4. CASE Send(Console)
    BY <1>4, SendPreserves DEF Senders
<1>5. ASSUME NEW v \in Workers, Work(v) PROVE IInv'
    BY <1>5, TakeMessagePreserves, TakeUpdatePreserves, TakeStopPreserves,
       RefuseCommandPreserves, DoMessagePreserves, AccountPreserves,
       AnswerStopPreserves, SendPreserves DEF Work, Senders
<1>6. ASSUME Close \/ CloseStep PROVE IInv'
    BY <1>6, ClosePreserves, CloseFlushPreserves, CloseLockPreserves,
       ClosePutPreserves, CloseWaitPreserves, CloseEndPreserves DEF CloseStep
<1>7. CASE ConsoleUpdate
    BY <1>7, ConsolePreserves
<1>8. CASE Finished
    BY <1>1, <1>8 DEF Finished
<1> QED BY <1>1, <1>2, <1>3, <1>4, <1>5, <1>6, <1>7, <1>8 DEF Next

\* The invariant holds in every reachable state.
LEMMA AlwaysIInv == Spec => []IInv
BY InitIInv, NextIInv, PTL DEF Spec

\* Every reachable state of the services is well typed: a worker in
\* ProcessMessage always has a message, and m_u2Cmd is only read as one of
\* the known kinds.
THEOREM TypeCorrect == Spec => []TypeOK
<1>1. IInv => TypeOK
    BY DEF IInv
<1> QED BY <1>1, AlwaysIInv, PTL

\* The parts of the invariant exclude any two places for one message.
LEMMA AloneMeansSingle == IInv => SingleOwner
<1> SUFFICES ASSUME IInv, NEW m \in Messages, NEW p \in Places(m),
                    NEW q \in Places(m)
             PROVE  p = q
    BY DEF SingleOwner
<1> USE Marks DEF IInv
<1> DEFINE Free(x) == \E w \in Workers : x = <<"pool", w>> /\ m \in pool[w]
           Held(x) == \E t \in Threads : x = <<"held", t>> /\ held[t] = m
           Busy(x) == \E w \in Workers : x = <<"worker", w>> /\ Handling(w)
                                         /\ current[w] = m
           Kept(x) == x = <<"kept", 0>> /\ m \in kept
           Queued(x) == \E w \in Workers : \E i \in 1 .. Len(queue[w]) :
                            x = <<"queue", w, i>> /\ queue[w][i] = m
<1>1. \A w \in Workers : DOMAIN queue[w] = 1 .. Len(queue[w])
    BY DEF TypeOK
<1>2. \A x \in Places(m) : Free(x) \/ Held(x) \/ Busy(x) \/ Kept(x) \/ Queued(x)
    BY <1>1 DEF Places, Handling
<1>3. /\ ~ (\E w \in Workers : m \in pool[w]) \/ ~ (\E t \in Threads : held[t] = m)
      /\ \A t, u \in Threads : held[t] = m /\ held[u] = m => t = u
      /\ \A t \in Threads : held[t] = m =>
             /\ m \notin kept
             /\ \A w \in Workers : /\ Handling(w) => current[w] # m
                                   /\ \A i \in 1 .. Len(queue[w]) : queue[w][i] # m
    BY DEF HeldAlone
<1>4. \A w \in Workers :
          \/ m \in pool[w]
          \/ Handling(w) /\ current[w] = m
          \/ \E i \in 1 .. Len(queue[w]) : queue[w][i] = m
          => Home(m) = w
    BY DEF AtHome
<1>5. \A w \in Workers : \A i \in 1 .. Len(queue[w]) : queue[w][i] = m =>
          /\ \A j \in 1 .. Len(queue[w]) : queue[w][j] = m => j = i
          /\ m \notin kept /\ m \notin pool[w]
          /\ Handling(w) => current[w] # m
    BY DEF QueuedAlone
<1>6. \A w \in Workers :
          /\ Handling(w) /\ current[w] = m => m \notin pool[w] /\ m \notin kept
          /\ m \in pool[w] => m \notin kept
    BY DEF HandledAlone
<1>7. (Free(p) \/ Held(p) \/ Busy(p) \/ Kept(p) \/ Queued(p))
      /\ (Free(q) \/ Held(q) \/ Busy(q) \/ Kept(q) \/ Queued(q))
    BY <1>2
<1>8. CASE Free(p)
    BY <1>3, <1>4, <1>5, <1>6, <1>7, <1>8
<1>9. CASE Held(p)
    BY <1>3, <1>7, <1>9
<1>10. CASE Busy(p)
    BY <1>3, <1>4, <1>5, <1>6, <1>7, <1>10
<1>11. CASE Kept(p)
    BY <1>3, <1>5, <1>6, <1>7, <1>11
<1>12. CASE Queued(p)
    BY <1>3, <1>4, <1>5, <1>7, <1>12
<1> QED BY <1>7, <1>8, <1>9, <1>10, <1>11, <1>12

\* However the threads interleave, and whenever the services are closed, no
\* message object is ever in two hands: the pool never gives out a message
\* that is queued, being handled or kept by a module.
THEOREM MessagesHaveOneOwner == Spec => []SingleOwner
BY AlwaysIInv, AloneMeansSingle, PTL
-----------------------------------------------------------------------------
(* The order of the events of a connection.  One worker serves it, and what  *)
(* a thread has raised for it lies in this order: handled, in the worker's   *)
(* hands, in the worker's queue, in the thread's hands.                      *)

From(m, t, s) == m \in Messages /\ base[m].thread = t /\ base[m].source = s

\* What is left to handle: its numbers lie between these.
Pending(m, t, s) ==
    handled[t][s] < base[m].number /\ base[m].number <= raised[t][s]

QueueInLine(t, s) ==
    \A w \in Workers : \A i \in 1 .. Len(queue[w]) : From(queue[w][i], t, s) =>
        /\ w \in GetWorkThreadID(s) /\ Pending(queue[w][i], t, s)
        /\ \A j \in 1 .. Len(queue[w]) : i < j /\ From(queue[w][j], t, s) =>
               base[queue[w][i]].number < base[queue[w][j]].number

WorkerInLine(t, s) ==
    \A w \in Workers : Handling(w) /\ From(current[w], t, s) =>
        /\ w \in GetWorkThreadID(s) /\ Pending(current[w], t, s)
        /\ \A i \in 1 .. Len(queue[w]) : From(queue[w][i], t, s) =>
               base[current[w]].number < base[queue[w][i]].number

ThreadInLine(t, s) ==
    held[t] # Nil /\ base[held[t]].source = s =>
        /\ Home(held[t]) \in GetWorkThreadID(s) /\ Pending(held[t], t, s)
        /\ \A w \in Workers : \A i \in 1 .. Len(queue[w]) : From(queue[w][i], t, s) =>
               base[queue[w][i]].number < base[held[t]].number
        /\ \A w \in Workers : Handling(w) /\ From(current[w], t, s) =>
               base[current[w]].number < base[held[t]].number

InLine ==
    /\ \A t \in Threads : held[t] # Nil => base[held[t]].thread = t
    /\ \A t \in Threads, s \in Connections :
           /\ handled[t][s] <= raised[t][s]
           /\ QueueInLine(t, s) /\ WorkerInLine(t, s) /\ ThreadInLine(t, s)

\* A connection has one worker.
LEMMA OneWorker ==
    ASSUME NEW s \in Connections
    PROVE  s \in Sources /\ \A v, w \in GetWorkThreadID(s) : v = w
BY SourceAssumption DEF GetWorkThreadID, Sources

\* The numbers that are compared.
LEMMA Counted ==
    ASSUME IInv, NEW t \in Threads, NEW s \in Connections
    PROVE  /\ handled[t][s] \in Nat /\ raised[t][s] \in Nat
           /\ held[t] # Nil => held[t] \in Messages /\ base[held[t]].number \in Nat
           /\ \A w \in Workers : Handling(w) => base[current[w]].number \in Nat
           /\ \A w \in Workers : \A i \in 1 .. Len(queue[w]) :
                  queue[w][i] \in Messages => base[queue[w][i]].number \in Nat
<1>1. \A b \in Base : b.number \in Nat
    BY CountAssumption DEF Base
<1>2. s \in Sources
    BY OneWorker
<1>3. handled[t][s] \in Nat /\ raised[t][s] \in Nat
    BY <1>2, CountAssumption DEF IInv, TypeOK
<1>4. held[t] # Nil => held[t] \in Messages
    BY DEF IInv, TypeOK
<1> QED BY <1>1, <1>3, <1>4 DEF IInv, FilledIn

\* Steps that put no event of this thread and source into the line: the queue of
\* a worker stays, loses its first block or all, or gets another's block.
QueueThinned(t, s) ==
    \A w \in Workers : \E d \in {0, 1} : \A i \in 1 .. Len(queue'[w]) :
        From(queue[w][i], t, s)' =>
            /\ i + d \in 1 .. Len(queue[w]) /\ queue'[w][i] = queue[w][i + d]
            /\ base'[queue'[w][i]] = base[queue'[w][i]]

WorkerThinned(t, s) ==
    \A w \in Workers : Handling(w)' /\ From(current[w], t, s)' =>
        /\ Handling(w) /\ current'[w] = current[w]
        /\ base'[current[w]] = base[current[w]]

HeldThinned(t) ==
    held'[t] # Nil => held'[t] = held[t] /\ base'[held[t]] = base[held[t]]

\* What has been handled is what was, or what a worker had in its hands.
Advanced(t, s) ==
    /\ raised'[t][s] \in Nat /\ raised[t][s] <= raised'[t][s]
    /\ \/ handled'[t][s] = handled[t][s]
       \/ \E v \in Workers : /\ Handling(v) /\ From(current[v], t, s)
                             /\ handled'[t][s] = base[current[v]].number
                             /\ ~ Handling(v)'

\* Where a block of a thinned queue was.
LEMMA Formerly ==
    ASSUME NEW t \in Threads, NEW s \in Connections, QueueThinned(t, s),
           NEW w \in Workers, NEW i \in 1 .. Len(queue'[w]), From(queue[w][i], t, s)'
    PROVE  \E k \in 1 .. Len(queue[w]) :
               /\ queue'[w][i] = queue[w][k] /\ From(queue[w][k], t, s)
               /\ base'[queue[w][k]] = base[queue[w][k]]
BY DEF QueueThinned, From

LEMMA HandledIsRaised ==
    ASSUME IInv, InLine, NEW t \in Threads, NEW s \in Connections, Advanced(t, s)
    PROVE  /\ handled'[t][s] \in Nat /\ handled'[t][s] <= raised'[t][s]
           /\ handled[t][s] <= handled'[t][s]
<1>1. handled[t][s] <= raised[t][s] /\ handled[t][s] \in Nat /\ raised[t][s] \in Nat
    BY Counted DEF InLine
<1>2. \A v \in Workers : Handling(v) /\ From(current[v], t, s) =>
          /\ base[current[v]].number \in Nat
          /\ handled[t][s] < base[current[v]].number
          /\ base[current[v]].number <= raised[t][s]
    BY Counted DEF InLine, WorkerInLine, Pending
<1> QED BY <1>1, <1>2 DEF Advanced

LEMMA QueueThins ==
    ASSUME IInv, InLine, NEW t \in Threads, NEW s \in Connections,
           Advanced(t, s), QueueThinned(t, s)
    PROVE  QueueInLine(t, s)'
<1>1. /\ handled[t][s] \in Nat /\ raised[t][s] \in Nat
      /\ \A w \in Workers : Handling(w) => base[current[w]].number \in Nat
      /\ \A w \in Workers : \A i \in 1 .. Len(queue[w]) :
             queue[w][i] \in Messages => base[queue[w][i]].number \in Nat
    BY Counted
<1>2. QueueInLine(t, s) /\ WorkerInLine(t, s)
    BY DEF InLine
<1>3. ASSUME NEW w \in Workers, NEW i \in 1 .. Len(queue'[w]), From(queue[w][i], t, s)'
      PROVE  w \in GetWorkThreadID(s) /\ Pending(queue[w][i], t, s)'
    <2>1. PICK k \in 1 .. Len(queue[w]) :
              /\ queue'[w][i] = queue[w][k] /\ From(queue[w][k], t, s)
              /\ base'[queue[w][k]] = base[queue[w][k]]
        BY <1>3, Formerly
    <2>2. w \in GetWorkThreadID(s) /\ Pending(queue[w][k], t, s)
        BY <1>2, <2>1 DEF QueueInLine
    <2>3. base[queue[w][k]].number \in Nat
        BY <1>1, <2>1 DEF From
    <2>4. CASE handled'[t][s] = handled[t][s]
        BY <1>1, <2>1, <2>2, <2>3, <2>4 DEF Pending, Advanced
    <2>5. ASSUME NEW v \in Workers, Handling(v), From(current[v], t, s),
                 handled'[t][s] = base[current[v]].number
          PROVE  Pending(queue[w][i], t, s)'
        <3>1. v = w
            BY <1>2, <2>2, <2>5, OneWorker DEF WorkerInLine
        <3>2. base[current[v]].number < base[queue[w][k]].number
            BY <1>2, <2>1, <2>5, <3>1 DEF WorkerInLine
        <3> QED BY <1>1, <2>1, <2>2, <2>3, <2>5, <3>2 DEF Pending, Advanced
    <2> QED BY <2>2, <2>4, <2>5 DEF Advanced
<1>4. ASSUME NEW w \in Workers, NEW i \in 1 .. Len(queue'[w]),
             NEW j \in 1 .. Len(queue'[w]), i < j,
             From(queue[w][i], t, s)', From(queue[w][j], t, s)'
      PROVE  base'[queue'[w][i]].number < base'[queue'[w][j]].number
    <2>1. PICK d \in {0, 1} : \A k \in 1 .. Len(queue'[w]) :
              From(queue[w][k], t, s)' =>
                  /\ k + d \in 1 .. Len(queue[w]) /\ queue'[w][k] = queue[w][k + d]
                  /\ base'[queue'[w][k]] = base[queue'[w][k]]
        BY DEF QueueThinned
    <2>2. /\ i + d \in 1 .. Len(queue[w]) /\ j + d \in 1 .. Len(queue[w])
          /\ From(queue[w][i + d], t, s) /\ From(queue[w][j + d], t, s)
          /\ base'[queue'[w][i]] = base[queue[w][i + d]]
          /\ base'[queue'[w][j]] = base[queue[w][j + d]]
        BY <1>4, <2>1 DEF From
    <2>3. i + d < j + d
        BY <1>4
    <2> QED BY <1>2, <2>2, <2>3 DEF QueueInLine
<1> QED BY <1>3, <1>4 DEF QueueInLine

LEMMA WorkerThins ==
    ASSUME IInv, InLine, NEW t \in Threads, NEW s \in Connections,
           Advanced(t, s), QueueThinned(t, s), WorkerThinned(t, s)
    PROVE  WorkerInLine(t, s)'
<1> SUFFICES ASSUME NEW w \in Workers, Handling(w)', From(current[w], t, s)'
             PROVE  /\ w \in GetWorkThreadID(s) /\ Pending(current[w], t, s)'
                    /\ \A i \in 1 .. Len(queue'[w]) : From(queue[w][i], t, s)' =>
                           base'[current'[w]].number < base'[queue'[w][i]].number
    BY DEF WorkerInLine
<1>1. /\ Handling(w) /\ current'[w] = current[w] /\ From(current[w], t, s)
      /\ base'[current'[w]] = base[current[w]]
    BY DEF WorkerThinned, From
<1>2. w \in GetWorkThreadID(s) /\ Pending(current[w], t, s)
    BY <1>1 DEF InLine, WorkerInLine
<1>3. handled'[t][s] = handled[t][s]
    BY <1>1, <1>2, OneWorker DEF InLine, WorkerInLine, Advanced
<1>4. Pending(current[w], t, s)'
    BY <1>1, <1>2, <1>3, Counted DEF Pending, Advanced
<1>5. ASSUME NEW i \in 1 .. Len(queue'[w]), From(queue[w][i], t, s)'
      PROVE  base'[current'[w]].number < base'[queue'[w][i]].number
    BY <1>1, <1>5, Formerly DEF InLine, WorkerInLine
<1> QED BY <1>2, <1>4, <1>5

LEMMA ThreadThins ==
    ASSUME IInv, InLine, NEW t \in Threads, NEW s \in Connections,
           Advanced(t, s), QueueThinned(t, s), WorkerThinned(t, s), HeldThinned(t)
    PROVE  ThreadInLine(t, s)'
<1> SUFFICES ASSUME held'[t] # Nil, base'[held'[t]].source = s
             PROVE  /\ Home(held'[t]) \in GetWorkThreadID(s)
                    /\ Pending(held[t], t, s)'
                    /\ \A w \in Workers : \A i \in 1 .. Len(queue'[w]) :
                           From(queue[w][i], t, s)' =>
                               base'[queue'[w][i]].number < base'[held'[t]].number
                    /\ \A w \in Workers : Handling(w)' /\ From(current[w], t, s)' =>
                           base'[current'[w]].number < base'[held'[t]].number
    BY DEF ThreadInLine
<1>1. /\ held[t] # Nil /\ held'[t] = held[t] /\ base[held[t]].source = s
      /\ base'[held'[t]] = base[held[t]]
    BY DEF HeldThinned
<1>2. ThreadInLine(t, s) /\ Home(held[t]) \in GetWorkThreadID(s) /\ Pending(held[t], t, s)
    BY <1>1 DEF InLine, ThreadInLine
<1>3. Pending(held[t], t, s)'
    <2>1. handled'[t][s] < base[held[t]].number
        <3>1. \A v \in Workers : Handling(v) /\ From(current[v], t, s) =>
                  base[current[v]].number < base[held[t]].number
            BY <1>1, <1>2 DEF ThreadInLine
        <3> QED BY <1>2, <3>1 DEF Advanced, Pending
    <2> QED BY <1>1, <1>2, <2>1, Counted DEF Pending, Advanced
<1>4. ASSUME NEW w \in Workers, NEW i \in 1 .. Len(queue'[w]), From(queue[w][i], t, s)'
      PROVE  base'[queue'[w][i]].number < base'[held'[t]].number
    BY <1>1, <1>2, <1>4, Formerly DEF ThreadInLine
<1>5. ASSUME NEW w \in Workers, Handling(w)', From(current[w], t, s)'
      PROVE  base'[current'[w]].number < base'[held'[t]].number
    BY <1>1, <1>2, <1>5 DEF ThreadInLine, WorkerThinned, From
<1> QED BY <1>1, <1>2, <1>3, <1>4, <1>5

LEMMA LineThins ==
    ASSUME IInv, InLine, \A t \in Threads : HeldThinned(t),
           \A t \in Threads, s \in Connections :
               Advanced(t, s) /\ QueueThinned(t, s) /\ WorkerThinned(t, s)
    PROVE  InLine'
<1>1. \A t \in Threads : held'[t] # Nil => base'[held'[t]].thread = t
    BY DEF InLine, HeldThinned
<1>2. ASSUME NEW t \in Threads, NEW s \in Connections
      PROVE  /\ handled'[t][s] <= raised'[t][s]
             /\ QueueInLine(t, s)' /\ WorkerInLine(t, s)' /\ ThreadInLine(t, s)'
    BY HandledIsRaised, QueueThins, WorkerThins, ThreadThins
<1> QED BY <1>1, <1>2 DEF InLine

\* Steps that fill, free and handle no message.
LEMMA LineStays ==
    ASSUME IInv, InLine, UNCHANGED <<base, handled, raised>>,
           \A w \in Workers : Handling(w)' => Handling(w) /\ current'[w] = current[w],
           \A t \in Threads : held'[t] # Nil => held'[t] = held[t],
           \A w \in Workers :
               \/ \A i \in 1 .. Len(queue'[w]) : queue'[w][i] \in Messages =>
                      i \in 1 .. Len(queue[w]) /\ queue'[w][i] = queue[w][i]
               \/ \A i \in 1 .. Len(queue'[w]) :
                      i + 1 \in 1 .. Len(queue[w]) /\ queue'[w][i] = queue[w][i + 1]
    PROVE  InLine'
<1>1. ASSUME NEW t \in Threads, NEW s \in Connections
      PROVE  Advanced(t, s) /\ QueueThinned(t, s) /\ WorkerThinned(t, s)
    <2>1. Advanced(t, s)
        BY Counted DEF Advanced
    <2>2. WorkerThinned(t, s)
        BY DEF WorkerThinned
    <2>3. ASSUME NEW w \in Workers
          PROVE  \E d \in {0, 1} : \A i \in 1 .. Len(queue'[w]) :
                     From(queue[w][i], t, s)' =>
                         /\ i + d \in 1 .. Len(queue[w]) /\ queue'[w][i] = queue[w][i + d]
                         /\ base'[queue'[w][i]] = base[queue'[w][i]]
        <3>1. CASE \A i \in 1 .. Len(queue'[w]) : queue'[w][i] \in Messages =>
                       i \in 1 .. Len(queue[w]) /\ queue'[w][i] = queue[w][i]
            <4>1. \A i \in 1 .. Len(queue'[w]) : From(queue[w][i], t, s)' =>
                      /\ i + 0 \in 1 .. Len(queue[w]) /\ queue'[w][i] = queue[w][i + 0]
                      /\ base'[queue'[w][i]] = base[queue'[w][i]]
                BY <3>1 DEF From
            <4> QED BY <4>1
        <3>2. CASE \A i \in 1 .. Len(queue'[w]) :
                       i + 1 \in 1 .. Len(queue[w]) /\ queue'[w][i] = queue[w][i + 1]
            BY <3>2
        <3> QED BY <3>1, <3>2
    <2> QED BY <2>1, <2>2, <2>3 DEF QueueThinned
<1>2. \A t \in Threads : HeldThinned(t)
    BY DEF HeldThinned
<1> QED BY <1>1, <1>2, LineThins

\* Steps after which every queue is what it was.
LEMMA LineUnmoved ==
    ASSUME IInv, InLine, UNCHANGED <<base, handled, raised, queue>>,
           \A w \in Workers : Handling(w)' => Handling(w) /\ current'[w] = current[w],
           \A t \in Threads : held'[t] # Nil => held'[t] = held[t]
    PROVE  InLine'
BY LineStays

\* A block that is no message joins a queue.
LEMMA LineMarked ==
    ASSUME IInv, InLine, UNCHANGED <<base, handled, raised, step, current, held>>,
           NEW STATE w, w \in Workers, NEW STATE x, x \in Updates \cup {Stop},
           queue' = [queue EXCEPT ![w] = Append(@, x)]
    PROVE  InLine'
<1>1. Grown(w, x)
    BY Append1 DEF IInv, TypeOK, Items
<1>2. \A v \in Workers : \A i \in 1 .. Len(queue'[v]) : queue'[v][i] \in Messages =>
          i \in 1 .. Len(queue[v]) /\ queue'[v][i] = queue[v][i]
    BY <1>1, Marks DEF Grown
<1> QED BY <1>2, LineStays DEF Handling

\* The first block of a queue is gone, and nobody handles it.
LEMMA LineMovesUp ==
    ASSUME IInv, InLine, UNCHANGED <<base, handled, raised, current, held>>,
           NEW STATE w, w \in Workers, queue[w] # << >>,
           queue' = [queue EXCEPT ![w] = Tail(@)],
           \A v \in Workers : Handling(v)' => Handling(v)
    PROVE  InLine'
<1>1. /\ \A v \in Workers : v # w => queue'[v] = queue[v]
      /\ \A i \in 1 .. Len(queue'[w]) :
             i + 1 \in 1 .. Len(queue[w]) /\ queue'[w][i] = queue[w][i + 1]
    BY Tail1 DEF IInv, TypeOK
<1>2. \A v \in Workers :
          \/ \A i \in 1 .. Len(queue'[v]) : queue'[v][i] \in Messages =>
                 i \in 1 .. Len(queue[v]) /\ queue'[v][i] = queue[v][i]
          \/ \A i \in 1 .. Len(queue'[v]) :
                 i + 1 \in 1 .. Len(queue[v]) /\ queue'[v][i] = queue[v][i + 1]
    BY <1>1
<1> QED BY <1>2, LineStays

\* A worker is done with its message, which has perhaps been handled.
LEMMA LineServed ==
    ASSUME IInv, InLine, NEW STATE v, v \in Workers, Handling(v),
           \/ base' = base
           \/ base' = [base EXCEPT ![current[v]] = Clear],
           step'[v] # "process",
           \A w \in Workers : w # v => step'[w] = step[w] /\ current'[w] = current[w],
           UNCHANGED <<queue, held, raised>>,
           \/ handled' = handled
           \/ handled' = [handled EXCEPT ![base[current[v]].thread]
                             [base[current[v]].source] = base[current[v]].number]
    PROVE  InLine'
<1> USE Marks DEF IInv
<1>1. /\ \A w \in Workers : \A i \in 1 .. Len(queue[w]) : queue[w][i] # current[v]
      /\ \A w \in Workers : w # v /\ Handling(w) => current[w] # current[v]
      /\ \A t \in Threads : held[t] # Nil => held[t] # current[v]
      /\ current[v] \in Messages
    BY DEF HeldAlone, QueuedAlone, AtHome
<1>2. \A m \in Messages : m # current[v] => base'[m] = base[m]
    BY DEF TypeOK
<1>3. \A t \in Threads : HeldThinned(t)
    BY <1>1, <1>2 DEF HeldThinned, TypeOK
<1>4. ASSUME NEW t \in Threads, NEW s \in Connections
      PROVE  Advanced(t, s) /\ QueueThinned(t, s) /\ WorkerThinned(t, s)
    <2>1. QueueThinned(t, s)
        <3>1. \A w \in Workers : \A i \in 1 .. Len(queue'[w]) : From(queue[w][i], t, s)' =>
                  /\ i + 0 \in 1 .. Len(queue[w]) /\ queue'[w][i] = queue[w][i + 0]
                  /\ base'[queue'[w][i]] = base[queue'[w][i]]
            BY <1>1, <1>2 DEF From
        <3> QED BY <3>1 DEF QueueThinned
    <2>2. WorkerThinned(t, s)
        BY <1>1, <1>2 DEF WorkerThinned, Handling, From
    <2>3. Advanced(t, s)
        <3>1. raised'[t][s] \in Nat /\ raised[t][s] <= raised'[t][s]
            BY Counted
        <3>2. s \in Sources
            BY OneWorker
        <3>3. CASE From(current[v], t, s)
            BY <1>1, <3>1, <3>2, <3>3 DEF From, TypeOK, Advanced, Handling
        <3>4. CASE ~ From(current[v], t, s)
            <4>1. PICK a, b : /\ a = base[current[v]].thread /\ b = base[current[v]].source
                              /\ a \in Threads /\ b \in Sources /\ (a # t \/ b # s)
                BY <1>1, <3>4 DEF From, FilledIn, Base
            <4>2. \A n : [handled EXCEPT ![a][b] = n][t][s] = handled[t][s]
                BY <3>2, <4>1 DEF TypeOK
            <4>3. \/ handled' = handled
                  \/ handled' = [handled EXCEPT ![a][b] = base[current[v]].number]
                BY <4>1
            <4>4. handled'[t][s] = handled[t][s]
                BY <4>2, <4>3
            <4> QED BY <3>1, <4>4 DEF Advanced
        <3> QED BY <3>3, <3>4
    <2> QED BY <2>1, <2>2, <2>3
<1> QED BY <1>3, <1>4, LineThins

\* A new event is the last of its thread.
LEMMA CreateMessageInLine ==
    ASSUME IInv, InLine, NEW t \in Threads, NEW c \in Sources, NEW k \in Commands,
           CreateMessage(t, c, k)
    PROVE  InLine'
<1> USE HomeWorker, Marks DEF IInv, producer, worker, close, update
<1>1. /\ raised' = [raised EXCEPT ![t][c] = @ + 1] /\ pc[t] = "idle"
      /\ raised[t][c] \in Nat
      /\ UNCHANGED <<queue, step, current, handled>>
    BY CountAssumption DEF CreateMessage, TypeOK
<1>2. ASSUME NEW u \in Threads, NEW s \in Connections PROVE Advanced(u, s)
    <2>1. s \in Sources /\ raised[u][s] \in Nat
        BY OneWorker, Counted
    <2>2. raised'[u][s] = raised[u][s] \/ raised'[u][s] = raised[u][s] + 1
        BY <1>1, <2>1 DEF TypeOK
    <2> QED BY <1>1, <2>1, <2>2 DEF Advanced
<1>3. PICK w \in GetWorkThreadID(c) :
        \/ UNCHANGED <<base, held>>
        \/ \E m \in pool[w] :
            /\ base' = [base EXCEPT ![m] = [cmd |-> k, thread |-> t, source |-> c,
                                            number |-> raised[t][c] + 1]]
            /\ held' = [held EXCEPT ![t] = m]
    BY DEF CreateMessage
<1>4. CASE UNCHANGED <<base, held>>
    <2>1. \A u \in Threads : HeldThinned(u)
        BY <1>4 DEF HeldThinned
    <2>2. ASSUME NEW u \in Threads, NEW s \in Connections
          PROVE  QueueThinned(u, s) /\ WorkerThinned(u, s)
        <3>1. \A v \in Workers : \A i \in 1 .. Len(queue'[v]) :
                  /\ i + 0 \in 1 .. Len(queue[v]) /\ queue'[v][i] = queue[v][i + 0]
                  /\ base'[queue'[v][i]] = base[queue'[v][i]]
            BY <1>1, <1>4
        <3>2. QueueThinned(u, s)
            BY <3>1 DEF QueueThinned
        <3> QED BY <1>1, <1>4, <3>2 DEF WorkerThinned, Handling
    <2> QED BY <1>2, <2>1, <2>2, LineThins
<1>5. ASSUME NEW m \in pool[w],
             base' = [base EXCEPT ![m] = [cmd |-> k, thread |-> t, source |-> c,
                                          number |-> raised[t][c] + 1]],
             held' = [held EXCEPT ![t] = m]
      PROVE  InLine'
    <2>1. m \in Messages /\ Home(m) = w /\ w \in Workers
        BY <1>3, <1>5, WorkerExists DEF TypeOK, AtHome
    <2>2. /\ base'[m].thread = t /\ base'[m].source = c
          /\ base'[m].number = raised[t][c] + 1
          /\ \A n \in Messages : n # m => base'[n] = base[n]
        BY <1>5, <2>1 DEF TypeOK
    <2>3. /\ \A v \in Workers : \A i \in 1 .. Len(queue[v]) : queue[v][i] # m
          /\ \A v \in Workers : Handling(v) => current[v] # m
          /\ \A u \in Threads : held[u] # m
        BY <1>5, <2>1 DEF HeldAlone, QueuedAlone, HandledAlone, AtHome
    <2>4. held'[t] = m /\ \A u \in Threads : u # t => held'[u] = held[u]
        BY <1>5 DEF TypeOK
    <2>5. \A u \in Threads : u # t => HeldThinned(u)
        BY <2>2, <2>3, <2>4 DEF HeldThinned, TypeOK
    <2>6. ASSUME NEW u \in Threads, NEW s \in Connections
          PROVE  QueueThinned(u, s) /\ WorkerThinned(u, s)
        <3>1. \A v \in Workers : \A i \in 1 .. Len(queue'[v]) : From(queue[v][i], u, s)' =>
                  /\ i + 0 \in 1 .. Len(queue[v]) /\ queue'[v][i] = queue[v][i + 0]
                  /\ base'[queue'[v][i]] = base[queue'[v][i]]
            BY <1>1, <2>2, <2>3 DEF From
        <3>2. QueueThinned(u, s)
            BY <3>1 DEF QueueThinned
        <3> QED BY <1>1, <2>2, <2>3, <3>2 DEF WorkerThinned, Handling, From
    <2>7. ASSUME NEW s \in Connections PROVE ThreadInLine(t, s)'
        <3>1. CASE s # c
            BY <2>2, <2>4, <3>1 DEF ThreadInLine
        <3>2. CASE s = c
            <4>1. /\ QueueInLine(t, s) /\ WorkerInLine(t, s)
                  /\ handled[t][s] <= raised[t][s]
                  /\ handled[t][s] \in Nat /\ raised[t][s] \in Nat
                BY Counted DEF InLine
            <4>2. raised'[t][s] = raised[t][s] + 1
                BY <1>1, <3>2 DEF TypeOK
            <4>3. Pending(held[t], t, s)'
                BY <1>1, <2>2, <2>4, <3>2, <4>1, <4>2 DEF Pending
            <4>4. \A v \in Workers : \A i \in 1 .. Len(queue'[v]) :
                      From(queue[v][i], t, s)' =>
                          base'[queue'[v][i]].number < base'[held'[t]].number
                <5>1. \A v \in Workers : \A i \in 1 .. Len(queue[v]) :
                          From(queue[v][i], t, s) =>
                              /\ base[queue[v][i]].number <= raised[t][s]
                              /\ base[queue[v][i]].number \in Nat
                    BY <4>1, Counted DEF QueueInLine, Pending, From
                <5> QED BY <1>1, <2>2, <2>3, <2>4, <3>2, <4>1, <5>1 DEF From
            <4>5. \A v \in Workers : Handling(v)' /\ From(current[v], t, s)' =>
                      base'[current'[v]].number < base'[held'[t]].number
                <5>1. \A v \in Workers : Handling(v) /\ From(current[v], t, s) =>
                          /\ base[current[v]].number <= raised[t][s]
                          /\ base[current[v]].number \in Nat
                    BY <4>1, Counted DEF WorkerInLine, Pending, From
                <5> QED BY <1>1, <2>2, <2>3, <2>4, <3>2, <4>1, <5>1 DEF From, Handling
            <4> QED BY <1>3, <2>1, <2>4, <3>2, <4>3, <4>4, <4>5 DEF ThreadInLine
        <3> QED BY <3>1, <3>2
    <2>8. \A u \in Threads : held'[u] # Nil => base'[held'[u]].thread = u
        BY <2>2, <2>4, <2>5 DEF InLine, HeldThinned
    <2>9. ASSUME NEW u \in Threads, NEW s \in Connections
          PROVE  /\ handled'[u][s] <= raised'[u][s]
                 /\ QueueInLine(u, s)' /\ WorkerInLine(u, s)' /\ ThreadInLine(u, s)'
        BY <1>2, <2>5, <2>6, <2>7, HandledIsRaised, QueueThins, WorkerThins, ThreadThins
    <2> QED BY <2>8, <2>9 DEF InLine
<1> QED BY <1>3, <1>4, <1>5

\* The event of a thread follows those that are queued already.
LEMMA PutQueueInLine ==
    ASSUME IInv, InLine, NEW t \in Threads, PutQueue(t) PROVE InLine'
<1> USE HomeWorker, Marks DEF IInv, producer, worker, close, update
<1> DEFINE m == held[t]
<1>1. /\ UNCHANGED <<base, raised, step, current, handled>>
      /\ held' = [held EXCEPT ![t] = Nil]
    BY DEF PutQueue, Return
<1>2. held'[t] = Nil /\ \A u \in Threads : u # t => held'[u] = held[u]
    BY <1>1 DEF TypeOK
<1>3. CASE UNCHANGED queue
    BY <1>1, <1>2, <1>3, LineUnmoved DEF Handling
<1>4. CASE queue' = [queue EXCEPT ![Home(m)] = Append(@, m)]
    <2>1. m \in Messages /\ Home(m) \in Workers /\ base[m].thread = t
        BY DEF PutQueue, InHand, TypeOK, InLine
    <2>2. PICK w \in Workers : w = Home(m)
        BY <2>1
    <2>3. Grown(w, m)
        BY <1>4, <2>1, <2>2, Append1 DEF TypeOK, Items
    <2>4. \A v \in Workers : \A i \in 1 .. Len(queue'[v]) :
              \/ i \in 1 .. Len(queue[v]) /\ queue'[v][i] = queue[v][i]
              \/ v = w /\ i = Len(queue[w]) + 1 /\ queue'[v][i] = m
        BY <2>3 DEF Grown
    <2>5. ASSUME NEW u \in Threads, NEW s \in Connections
          PROVE  Advanced(u, s) /\ WorkerThinned(u, s)
        BY <1>1, Counted DEF Advanced, WorkerThinned, Handling
    <2>6. \A u \in Threads : HeldThinned(u)
        BY <1>1, <1>2 DEF HeldThinned
    <2>7. ASSUME NEW u \in Threads, NEW s \in Connections, ~ From(m, u, s)
          PROVE  QueueThinned(u, s)
        <3>1. \A v \in Workers : \A i \in 1 .. Len(queue'[v]) : From(queue[v][i], u, s)' =>
                  /\ i + 0 \in 1 .. Len(queue[v]) /\ queue'[v][i] = queue[v][i + 0]
                  /\ base'[queue'[v][i]] = base[queue'[v][i]]
            BY <1>1, <2>4, <2>7 DEF From
        <3> QED BY <3>1 DEF QueueThinned
    <2>8. ASSUME NEW s \in Connections, From(m, t, s)
          PROVE  QueueInLine(t, s)' /\ WorkerInLine(t, s)' /\ ThreadInLine(t, s)'
        <3>1. /\ w \in GetWorkThreadID(s) /\ Pending(m, t, s)
              /\ \A v \in Workers : \A i \in 1 .. Len(queue[v]) : From(queue[v][i], t, s) =>
                     base[queue[v][i]].number < base[m].number
              /\ \A v \in Workers : Handling(v) /\ From(current[v], t, s) =>
                     base[current[v]].number < base[m].number
            BY <2>1, <2>2, <2>8 DEF InLine, ThreadInLine, From
        <3>2. QueueInLine(t, s)'
            <4>1. ASSUME NEW v \in Workers, NEW i \in 1 .. Len(queue'[v]),
                         From(queue[v][i], t, s)'
                  PROVE  v \in GetWorkThreadID(s) /\ Pending(queue[v][i], t, s)'
                BY <1>1, <2>4, <3>1, <4>1 DEF InLine, QueueInLine, From, Pending
            <4>2. ASSUME NEW v \in Workers, NEW i \in 1 .. Len(queue'[v]),
                         NEW j \in 1 .. Len(queue'[v]), i < j,
                         From(queue[v][i], t, s)', From(queue[v][j], t, s)'
                  PROVE  base'[queue'[v][i]].number < base'[queue'[v][j]].number
                <5>1. i \in 1 .. Len(queue[v]) /\ queue'[v][i] = queue[v][i]
                    <6>1. Len(queue[v]) \in Nat /\ Len(queue'[v]) \in Nat
                        BY <2>3 DEF TypeOK, Grown
                    <6>2. j <= Len(queue[v]) + 1
                        BY <2>4, <6>1
                    <6>3. i <= Len(queue[v])
                        BY <4>2, <6>1, <6>2
                    <6> QED BY <2>4, <6>1, <6>3
                <5>2. From(queue[v][i], t, s)
                    BY <1>1, <4>2, <5>1 DEF From
                <5>3. CASE queue'[v][j] = m
                    BY <1>1, <3>1, <5>1, <5>2, <5>3
                <5>4. CASE j \in 1 .. Len(queue[v]) /\ queue'[v][j] = queue[v][j]
                    BY <1>1, <4>2, <5>1, <5>2, <5>4 DEF InLine, QueueInLine, From
                <5> QED BY <2>4, <5>3, <5>4
            <4> QED BY <4>1, <4>2 DEF QueueInLine
        <3>3. WorkerInLine(t, s)'
            <4>1. ASSUME NEW v \in Workers, Handling(v)', From(current[v], t, s)'
                  PROVE  /\ v \in GetWorkThreadID(s) /\ Pending(current[v], t, s)'
                         /\ \A i \in 1 .. Len(queue'[v]) : From(queue[v][i], t, s)' =>
                                base'[current'[v]].number < base'[queue'[v][i]].number
                <5>1. Handling(v) /\ From(current[v], t, s)
                    BY <1>1, <4>1 DEF Handling, From
                <5>2. v \in GetWorkThreadID(s) /\ Pending(current[v], t, s)
                    BY <5>1 DEF InLine, WorkerInLine
                <5>3. \A i \in 1 .. Len(queue'[v]) : From(queue[v][i], t, s)' =>
                          base[current[v]].number < base[queue'[v][i]].number
                    BY <1>1, <2>4, <3>1, <5>1 DEF InLine, WorkerInLine, From
                <5> QED BY <1>1, <5>2, <5>3 DEF Pending
            <4> QED BY <4>1 DEF WorkerInLine
        <3> QED BY <1>2, <3>2, <3>3 DEF ThreadInLine
    <2>9. ASSUME NEW u \in Threads, NEW s \in Connections
          PROVE  /\ handled'[u][s] <= raised'[u][s]
                 /\ QueueInLine(u, s)' /\ WorkerInLine(u, s)' /\ ThreadInLine(u, s)'
        <3>1. CASE From(m, u, s)
            BY <2>1, <2>5, <2>8, <3>1, HandledIsRaised DEF From
        <3>2. CASE ~ From(m, u, s)
            BY <2>5, <2>6, <2>7, <3>2, HandledIsRaised, QueueThins, WorkerThins, ThreadThins
        <3> QED BY <3>1, <3>2
    <2>10. \A u \in Threads : held'[u] # Nil => base'[held'[u]].thread = u
        BY <1>1, <1>2 DEF InLine
    <2> QED BY <2>9, <2>10 DEF InLine
<1> QED BY <1>3, <1>4 DEF PutQueue

\* A step of a broadcast puts no event into the line.
LEMMA SendInLine ==
    ASSUME IInv, InLine, NEW s \in Senders, Send(s) PROVE InLine'
<1>1. /\ service[s] \in Workers
      /\ UNCHANGED <<base, held, raised, step, current, handled>>
      /\ \/ queue' = queue
         \/ queue' = [queue EXCEPT ![service[s]] = Append(@, UpdateOf(s))]
    BY SendStep DEF IInv
<1>2. CASE queue' = queue
    BY <1>1, <1>2, LineUnmoved DEF Handling
<1>3. CASE queue' = [queue EXCEPT ![service[s]] = Append(@, UpdateOf(s))]
    BY <1>1, <1>3, SenderBlock, LineMarked
<1> QED BY <1>1, <1>2, <1>3

\* A worker takes the first of what is queued.
LEMMA TakeMessageInLine ==
    ASSUME IInv, InLine, NEW v \in Workers, TakeMessage(v) PROVE InLine'
<1> USE Marks DEF IInv, producer, worker, close, update, AtQueue
<1> DEFINE m == queue[v][1]
<1>1. /\ m = Head(queue[v]) /\ 1 \in 1 .. Len(queue[v]) /\ m \in Messages
      /\ \A w \in Workers : w # v => queue'[w] = queue[w]
      /\ \A i \in 1 .. Len(queue'[v]) :
             i + 1 \in 1 .. Len(queue[v]) /\ queue'[v][i] = queue[v][i + 1]
    BY Tail1 DEF TakeMessage, TypeOK
<1>2. /\ current'[v] = m /\ ~ Handling(v)
      /\ \A w \in Workers : w # v => current'[w] = current[w] /\ (Handling(w)' <=> Handling(w))
      /\ UNCHANGED <<base, held, raised, handled>>
    BY <1>1 DEF TakeMessage, TypeOK, Handling
<1>3. ASSUME NEW t \in Threads, NEW s \in Connections
      PROVE  /\ handled'[t][s] <= raised'[t][s]
             /\ QueueInLine(t, s)' /\ WorkerInLine(t, s)' /\ ThreadInLine(t, s)'
    <2>1. Advanced(t, s)
        BY <1>2, Counted DEF Advanced
    <2>2. QueueThinned(t, s)
        <3>1. ASSUME NEW w \in Workers
              PROVE  \E d \in {0, 1} : \A i \in 1 .. Len(queue'[w]) :
                         From(queue[w][i], t, s)' =>
                             /\ i + d \in 1 .. Len(queue[w]) /\ queue'[w][i] = queue[w][i + d]
                             /\ base'[queue'[w][i]] = base[queue'[w][i]]
            <4>1. CASE w = v
                BY <1>1, <1>2, <4>1
            <4>2. CASE w # v
                <5>1. \A i \in 1 .. Len(queue'[w]) : i + 0 \in 1 .. Len(queue[w])
                                                     /\ queue'[w][i] = queue[w][i + 0]
                    BY <1>1, <4>2
                <5> QED BY <1>2, <5>1
            <4> QED BY <4>1, <4>2
        <3> QED BY <3>1 DEF QueueThinned
    <2>3. QueueInLine(t, s) /\ WorkerInLine(t, s) /\ ThreadInLine(t, s)
        BY DEF InLine
    <2>4. CASE ~ From(m, t, s)
        <3>1. WorkerThinned(t, s)
            BY <1>2, <2>4 DEF WorkerThinned, From
        <3>2. HeldThinned(t)
            BY <1>2 DEF HeldThinned
        <3> QED BY <2>1, <2>2, <3>1, <3>2, HandledIsRaised, QueueThins, WorkerThins,
                   ThreadThins
    <2>5. CASE From(m, t, s)
        <3>1. WorkerInLine(t, s)'
            <4>1. ASSUME NEW w \in Workers, Handling(w)', From(current[w], t, s)'
                  PROVE  /\ w \in GetWorkThreadID(s) /\ Pending(current[w], t, s)'
                         /\ \A i \in 1 .. Len(queue'[w]) : From(queue[w][i], t, s)' =>
                                base'[current'[w]].number < base'[queue'[w][i]].number
                <5>1. CASE w = v
                    <6>1. v \in GetWorkThreadID(s) /\ Pending(m, t, s)
                        BY <1>1, <2>3, <2>5 DEF QueueInLine
                    <6>2. ASSUME NEW i \in 1 .. Len(queue'[v]), From(queue[v][i], t, s)'
                          PROVE  base[m].number < base[queue'[v][i]].number
                        <7>1. /\ i + 1 \in 1 .. Len(queue[v]) /\ 1 < i + 1
                              /\ From(queue[v][i + 1], t, s)
                              /\ queue'[v][i] = queue[v][i + 1]
                            BY <1>1, <1>2, <6>2 DEF From
                        <7> QED BY <1>1, <2>3, <2>5, <7>1 DEF QueueInLine
                    <6> QED BY <1>2, <5>1, <6>1, <6>2 DEF Pending
                <5>2. CASE w # v
                    <6>1. Handling(w) /\ From(current[w], t, s) /\ current'[w] = current[w]
                        BY <1>2, <4>1, <5>2 DEF From
                    <6> QED BY <1>1, <1>2, <2>3, <5>2, <6>1 DEF WorkerInLine, Pending, From
                <5> QED BY <5>1, <5>2
            <4> QED BY <4>1 DEF WorkerInLine
        <3>2. ThreadInLine(t, s)'
            <4> SUFFICES ASSUME held[t] # Nil, base[held[t]].source = s
                         PROVE  /\ Home(held[t]) \in GetWorkThreadID(s)
                                /\ Pending(held[t], t, s)'
                                /\ \A w \in Workers : \A i \in 1 .. Len(queue'[w]) :
                                       From(queue[w][i], t, s)' =>
                                           base[queue'[w][i]].number < base[held[t]].number
                                /\ \A w \in Workers : Handling(w)' /\ From(current[w], t, s)' =>
                                       base[current'[w]].number < base[held[t]].number
                BY <1>2 DEF ThreadInLine
            <4>1. Home(held[t]) \in GetWorkThreadID(s) /\ Pending(held[t], t, s)'
                BY <1>2, <2>3 DEF ThreadInLine, Pending
            <4>2. ASSUME NEW w \in Workers, NEW i \in 1 .. Len(queue'[w]),
                         From(queue[w][i], t, s)'
                  PROVE  base[queue'[w][i]].number < base[held[t]].number
                BY <1>2, <2>2, <2>3, <4>2, Formerly DEF ThreadInLine
            <4>3. ASSUME NEW w \in Workers, Handling(w)', From(current[w], t, s)'
                  PROVE  base[current'[w]].number < base[held[t]].number
                <5>1. CASE w = v
                    BY <1>1, <1>2, <2>3, <2>5, <5>1 DEF ThreadInLine
                <5>2. CASE w # v
                    BY <1>2, <2>3, <4>3, <5>2 DEF ThreadInLine, From
                <5> QED BY <5>1, <5>2
            <4> QED BY <4>1, <4>2, <4>3
        <3> QED BY <2>1, <2>2, <3>1, <3>2, HandledIsRaised, QueueThins
    <2> QED BY <2>4, <2>5
<1>4. \A t \in Threads : held'[t] # Nil => base'[held'[t]].thread = t
    BY <1>2 DEF InLine
<1> QED BY <1>3, <1>4 DEF InLine

LEMMA WorkInLine ==
    ASSUME IInv, InLine, NEW v \in Workers, Work(v) PROVE InLine'
<1> USE DEF IInv, producer, worker, close, update
<1>1. CASE TakeUpdate(v)
    BY <1>1, LineMovesUp DEF TakeUpdate, Handling, AtQueue
<1>2. CASE TakeStop(v)
    <2>1. \A w \in Workers : Handling(w)' => Handling(w)
        BY <1>2 DEF TakeStop, Handling, TypeOK
    <2> QED BY <1>2, <2>1, LineMovesUp DEF TakeStop, AtQueue
<1>3. CASE RefuseCommand(v)
    <2>1. /\ Handling(v) /\ base' = [base EXCEPT ![current[v]] = Clear]
          /\ step'[v] # "process" /\ UNCHANGED <<queue, held, raised, handled>>
          /\ \A w \in Workers : w # v => step'[w] = step[w] /\ current'[w] = current[w]
        BY <1>3 DEF RefuseCommand, DeleteMessage, Handling, TypeOK
    <2> QED BY <2>1, LineServed
<1>4. CASE DoMessage(v)
    <2>1. /\ Handling(v) /\ UNCHANGED <<queue, held, raised>>
          /\ base' = base \/ base' = [base EXCEPT ![current[v]] = Clear]
          /\ handled' = [handled EXCEPT ![base[current[v]].thread]
                            [base[current[v]].source] = base[current[v]].number]
        BY <1>4 DEF DoMessage, DeleteMessage, Handling
    <2>2. /\ step'[v] # "process"
          /\ \A w \in Workers : w # v => step'[w] = step[w] /\ current'[w] = current[w]
        BY <1>4 DEF DoMessage, TypeOK
    <2> QED BY <2>1, <2>2, LineServed
<1>5. CASE Account(v)
    <2>1. \A w \in Workers : Handling(w)' => Handling(w) /\ current'[w] = current[w]
        BY <1>5 DEF Account, Handling, TypeOK
    <2> QED BY <1>5, <2>1, LineUnmoved DEF Account
<1>6. CASE AnswerStop(v)
    <2>1. \A w \in Workers : Handling(w)' => Handling(w) /\ current'[w] = current[w]
        BY <1>6 DEF AnswerStop, Handling, TypeOK
    <2> QED BY <1>6, <2>1, LineUnmoved DEF AnswerStop
<1> QED BY <1>1, <1>2, <1>3, <1>4, <1>5, <1>6, TakeMessageInLine, SendInLine
        DEF Work, Senders

LEMMA CloseInLine ==
    ASSUME IInv, InLine, Close \/ CloseStep PROVE InLine'
<1> USE DEF IInv, producer, worker, close, update
<1>1. CASE Close \/ CloseLock \/ CloseWait \/ CloseEnd
    BY <1>1, LineUnmoved DEF Close, CloseLock, CloseWait, CloseEnd, Handling
<1>2. CASE CloseFlush
    <2>1. Len(<< >>) = 0
        OBVIOUS
    <2>2. \A w \in Workers : \A i \in 1 .. Len(queue'[w]) : queue'[w][i] \in Messages =>
              i \in 1 .. Len(queue[w]) /\ queue'[w][i] = queue[w][i]
        BY <1>2, <2>1 DEF CloseFlush, TypeOK
    <2> QED BY <1>2, <2>2, LineStays DEF CloseFlush, Handling
<1>3. CASE ClosePut
    BY <1>3, LineMarked DEF ClosePut, TypeOK
<1> QED BY <1>1, <1>2, <1>3 DEF CloseStep

LEMMA NextInLine == IInv /\ InLine /\ [Next]_vars => InLine'
<1> SUFFICES ASSUME IInv, InLine, [Next]_vars PROVE InLine'
    OBVIOUS
<1> USE DEF producer, worker, close, update
<1>1. CASE UNCHANGED vars
    BY <1>1, LineUnmoved DEF vars, Handling
<1>2. ASSUME NEW t \in Threads, Produce(t) PROVE InLine'
    <2>1. CASE CountQueue(t)
        <3>1. \A u \in Threads : held'[u] # Nil => held'[u] = held[u]
            BY <2>1 DEF CountQueue, Return, IInv, TypeOK
        <3> QED BY <2>1, <3>1, LineUnmoved DEF CountQueue, Handling
    <2> QED BY <1>2, <2>1, PutQueueInLine DEF Produce
<1>3. CASE Send(Console)
    BY <1>3, SendInLine DEF Senders
<1>4. CASE ConsoleUpdate
    BY <1>4, LineUnmoved DEF ConsoleUpdate, Handling
<1>5. CASE Finished
    BY <1>1, <1>5 DEF Finished
<1> QED BY <1>1, <1>2, <1>3, <1>4, <1>5, CreateMessageInLine, WorkInLine, CloseInLine
        DEF Next

LEMMA AlwaysInLine == Spec => [](IInv /\ InLine)
<1>1. Init => IInv /\ InLine
    <2> SUFFICES ASSUME Init PROVE InLine
        BY InitIInv
    <2>1. \A s \in Connections : s \in Sources
        BY OneWorker
    <2> QED BY <2>1 DEF Init, InLine, QueueInLine, WorkerInLine, ThreadInLine, Handling
<1>2. IInv /\ InLine /\ [Next]_vars => (IInv /\ InLine)'
    BY NextIInv, NextInLine
<1> QED BY <1>1, <1>2, PTL DEF Spec

\* MessageService.h:126: one thread per ConnectID.  Whatever the number of
\* workers and threads, the modules get the events a thread raises for a
\* connection in the order it raised them.
THEOREM EventsStayInOrder == Spec => InOrder
<1> DEFINE Later == \A t \in Threads, s \in Connections : handled'[t][s] >= handled[t][s]
<1>1. IInv /\ InLine /\ [Next]_vars => [Later]_vars
    <2> SUFFICES ASSUME IInv, InLine, Next, NEW t \in Threads, NEW s \in Connections
                 PROVE  handled'[t][s] >= handled[t][s]
        OBVIOUS
    <2> USE DEF IInv, producer, worker, close, update
    <2>1. handled[t][s] \in Nat /\ s \in Sources
        BY Counted, OneWorker
    <2>2. ASSUME NEW v \in Workers, DoMessage(v) PROVE handled'[t][s] >= handled[t][s]
        <3> DEFINE m == current[v]
        <3>1. /\ Handling(v) /\ m \in Messages /\ base[m] \in Base
              /\ handled' = [handled EXCEPT ![base[m].thread][base[m].source] =
                                base[m].number]
            BY <2>2 DEF DoMessage, Handling, AtHome, FilledIn
        <3>2. CASE From(m, t, s)
            <4>1. handled[t][s] < base[m].number /\ base[m].number \in Nat
                BY <3>1, <3>2, Counted DEF InLine, WorkerInLine, Pending
            <4>2. handled'[t][s] = base[m].number
                BY <2>1, <3>1, <3>2 DEF From, TypeOK
            <4> QED BY <2>1, <4>1, <4>2
        <3>3. CASE ~ From(m, t, s)
            <4>1. PICK a, b : /\ a = base[m].thread /\ b = base[m].source
                              /\ a \in Threads /\ b \in Sources /\ (a # t \/ b # s)
                BY <3>1, <3>3 DEF From, Base
            <4>2. \A n : [handled EXCEPT ![a][b] = n][t][s] = handled[t][s]
                BY <2>1, <4>1 DEF TypeOK
            <4>3. handled' = [handled EXCEPT ![a][b] = base[m].number]
                BY <3>1, <4>1
            <4>4. handled'[t][s] = handled[t][s]
                BY <4>2, <4>3
            <4> QED BY <2>1, <4>4
        <3> QED BY <3>2, <3>3
    <2>3. CASE UNCHANGED handled
        BY <2>1, <2>3
    <2>4. \/ \E v \in Workers : DoMessage(v)
          \/ UNCHANGED handled
        BY DEF Next, CreateMessage, Produce, CountQueue, PutQueue, Send, CountUpdate,
           PutUpdate, Work, TakeMessage, TakeUpdate, TakeStop, RefuseCommand, Account,
           AnswerStop, ConsoleUpdate, Close, CloseStep, CloseFlush, CloseLock, ClosePut, CloseWait,
           CloseEnd, Finished, vars
    <2> QED BY <2>2, <2>3, <2>4
<1> QED BY <1>1, AlwaysInLine, PTL DEF Spec, InOrder

-----------------------------------------------------------------------------
(* The length of a queue.  A group of threads that is admitted together can *)
(* pass the limit together, so the blocks it has in a queue are counted with *)
(* the members that have seen room and not put their block yet.              *)

\* What members of T have put into the queue of w, and those of them who have
\* seen room there and have not put their block yet.
Ahead(w, T) ==
    {i \in DOMAIN queue[w] : queue[w][i] # Stop /\ Putter(queue[w][i]) \in T}
Admitted(w, T) ==
    {x \in T : IF x \in Threads THEN pc[x] = "put" /\ Home(held[x]) = w
               ELSE sending[x] = "put" /\ service[x] = w}

Groups == (SUBSET (Threads \cup Senders)) \ {{}}

Room(w, T) ==
    Cardinality(Ahead(w, T)) + Cardinality(Admitted(w, T))
        <= MaxQueue + Cardinality(T) - 1

Bounded == \A w \in Workers, T \in Groups : Room(w, T)

LEMMA Interval ==
    ASSUME NEW n \in Nat PROVE IsFiniteSet(1 .. n) /\ Cardinality(1 .. n) = n
<1>1. Cardinality(1 .. n) = IF 1 > n THEN 0 ELSE n - 1 + 1
    BY FS_Interval
<1>2. IsFiniteSet(1 .. n)
    BY FS_Interval
<1>3. (IF 1 > n THEN 0 ELSE n - 1 + 1) = n
    OBVIOUS
<1> QED BY <1>1, <1>2, <1>3

LEMMA Sizes ==
    ASSUME IInv, NEW w \in Workers, NEW T \in Groups
    PROVE  /\ DOMAIN queue[w] = 1 .. Len(queue[w]) /\ Len(queue[w]) \in Nat
           /\ IsFiniteSet(T) /\ Cardinality(T) \in Nat \ {0}
           /\ IsFiniteSet(Ahead(w, T)) /\ IsFiniteSet(Admitted(w, T))
           /\ Cardinality(Ahead(w, T)) \in Nat /\ Cardinality(Admitted(w, T)) \in Nat
           /\ Cardinality(Ahead(w, T)) <= Len(queue[w])
           /\ Cardinality(Admitted(w, T)) <= Cardinality(T)
<1>1. DOMAIN queue[w] = 1 .. Len(queue[w]) /\ Len(queue[w]) \in Nat
    BY DEF IInv, TypeOK
<1>2. IsFiniteSet(Threads \cup Senders)
    <2>1. IsFiniteSet(Workers)
        BY CountAssumption, FS_Interval DEF Workers
    <2>2. IsFiniteSet(Senders)
        BY <2>1, FS_AddElement DEF Senders
    <2> QED BY <2>2, ThreadAssumption, FS_Union
<1>3. IsFiniteSet(T) /\ Cardinality(T) \in Nat \ {0}
    <2>1. T \in SUBSET (Threads \cup Senders) /\ T # {}
        BY DEF Groups
    <2>2. IsFiniteSet(T)
        BY <1>2, <2>1, FS_Subset
    <2> QED BY <2>1, <2>2, FS_EmptySet, FS_CardinalityType
<1>4. IsFiniteSet(1 .. Len(queue[w])) /\ Cardinality(1 .. Len(queue[w])) = Len(queue[w])
    BY <1>1, Interval
<1>5. Ahead(w, T) \subseteq 1 .. Len(queue[w]) /\ Admitted(w, T) \subseteq T
    BY <1>1 DEF Ahead, Admitted
<1>6. /\ IsFiniteSet(Ahead(w, T)) /\ Cardinality(Ahead(w, T)) <= Len(queue[w])
      /\ IsFiniteSet(Admitted(w, T)) /\ Cardinality(Admitted(w, T)) <= Cardinality(T)
    BY <1>3, <1>4, <1>5, FS_Subset
<1> QED BY <1>1, <1>3, <1>6, FS_CardinalityType

\* The blocks of the group stay where they are, or all move up.
LEMMA AheadThins ==
    ASSUME IInv, IInv', NEW w \in Workers, NEW T \in Groups, NEW d \in {0, 1},
           \A i \in Ahead(w, T)' :
               /\ i + d \in 1 .. Len(queue[w]) /\ queue'[w][i] = queue[w][i + d]
               /\ queue'[w][i] \in Messages => base'[queue'[w][i]] = base[queue'[w][i]]
    PROVE  Cardinality(Ahead(w, T)') <= Cardinality(Ahead(w, T))
<1> DEFINE A == Ahead(w, T)
           B == Ahead(w, T)'
           f == [i \in B |-> i + d]
<1>1. IsFiniteSet(A)
    BY Sizes
<1>2. DOMAIN queue'[w] = 1 .. Len(queue'[w]) /\ DOMAIN queue[w] = 1 .. Len(queue[w])
    BY DEF IInv, TypeOK
<1>3. \A i \in DOMAIN queue'[w] : queue'[w][i] \in Items
    BY DEF IInv, TypeOK
<1>4. \A i \in B : i \in Nat /\ i + d \in A
    BY <1>2, <1>3 DEF Ahead, Putter, Items
<1>5. f \in [B -> A]
    BY <1>4
<1>6. \A i, j \in B : f[i] = f[j] => i = j
    BY <1>4
<1>7. f \in Injection(B, A)
    BY <1>5, <1>6 DEF Injection, IsInjective
<1> HIDE DEF A, B, f
<1>8. Cardinality(B) <= Cardinality(A)
    BY <1>1, <1>7, FS_Injection
<1> QED BY <1>8 DEF A, B

\* A thread is admitted only when there is room.
LEMMA RoomWhenShort ==
    ASSUME IInv, IInv', NEW w \in Workers, NEW T \in Groups,
           Len(queue'[w]) < MaxQueue
    PROVE  Room(w, T)'
<1>1. Cardinality(Ahead(w, T)') <= Len(queue'[w])
      /\ Cardinality(Admitted(w, T)') <= Cardinality(T)
      /\ Cardinality(Ahead(w, T)') \in Nat /\ Cardinality(Admitted(w, T)') \in Nat
      /\ Cardinality(T) \in Nat \ {0} /\ Len(queue'[w]) \in Nat
    <2>1. Len(queue'[w]) \in Nat /\ DOMAIN queue'[w] = 1 .. Len(queue'[w])
        BY DEF IInv, TypeOK
    <2>2. IsFiniteSet(T) /\ Cardinality(T) \in Nat \ {0}
        BY Sizes
    <2>3. IsFiniteSet(1 .. Len(queue'[w])) /\ Cardinality(1 .. Len(queue'[w])) = Len(queue'[w])
        BY <2>1, Interval
    <2>4. Ahead(w, T)' \subseteq 1 .. Len(queue'[w]) /\ Admitted(w, T)' \subseteq T
        BY <2>1 DEF Ahead, Admitted
    <2>5. /\ IsFiniteSet(Ahead(w, T)') /\ IsFiniteSet(Admitted(w, T)')
          /\ Cardinality(Ahead(w, T)') <= Len(queue'[w])
          /\ Cardinality(Admitted(w, T)') <= Cardinality(T)
        BY <2>2, <2>3, <2>4, FS_Subset
    <2> QED BY <2>1, <2>2, <2>5, FS_CardinalityType
<1>2. MaxQueue \in Nat
    BY CountAssumption
<1> QED BY <1>1, <1>2 DEF Room

\* Fewer blocks and no new admission.
LEMMA RoomStays ==
    ASSUME IInv, IInv', NEW w \in Workers, NEW T \in Groups, Room(w, T),
           Cardinality(Ahead(w, T)') <= Cardinality(Ahead(w, T)),
           Admitted(w, T)' \subseteq Admitted(w, T)
    PROVE  Room(w, T)'
<1>1. /\ Cardinality(Ahead(w, T)) \in Nat /\ Cardinality(Admitted(w, T)) \in Nat
      /\ IsFiniteSet(Admitted(w, T)) /\ Cardinality(T) \in Nat /\ MaxQueue \in Nat
    BY Sizes, CountAssumption
<1>2. /\ Cardinality(Admitted(w, T)') <= Cardinality(Admitted(w, T))
      /\ Cardinality(Admitted(w, T)') \in Nat
    BY <1>1, FS_Subset, FS_CardinalityType
<1>3. DOMAIN queue'[w] = 1 .. Len(queue'[w]) /\ Len(queue'[w]) \in Nat
    BY DEF IInv, TypeOK
<1>4. Cardinality(Ahead(w, T)') \in Nat
    <2>1. IsFiniteSet(1 .. Len(queue'[w]))
        BY <1>3, Interval
    <2>2. Ahead(w, T)' \subseteq 1 .. Len(queue'[w])
        BY <1>3 DEF Ahead
    <2>3. IsFiniteSet(Ahead(w, T)')
        BY <2>1, <2>2, FS_Subset
    <2> QED BY <2>3, FS_CardinalityType
<1> QED BY <1>1, <1>2, <1>4 DEF Room

\* A member of the group puts the block it was admitted for.
LEMMA RoomPut ==
    ASSUME IInv, IInv', NEW w \in Workers, NEW T \in Groups, Room(w, T),
           NEW x \in T, x \in Admitted(w, T),
           Admitted(w, T)' \subseteq Admitted(w, T) \ {x},
           Ahead(w, T)' \subseteq Ahead(w, T) \cup {Len(queue[w]) + 1}
    PROVE  Room(w, T)'
<1>1. /\ Cardinality(Ahead(w, T)) \in Nat /\ Cardinality(Admitted(w, T)) \in Nat
      /\ IsFiniteSet(Admitted(w, T)) /\ IsFiniteSet(Ahead(w, T))
      /\ Cardinality(T) \in Nat /\ MaxQueue \in Nat
      /\ Len(queue[w]) \in Nat /\ DOMAIN queue[w] = 1 .. Len(queue[w])
    BY Sizes, CountAssumption
<1>2. /\ IsFiniteSet(Admitted(w, T) \ {x})
      /\ Cardinality(Admitted(w, T) \ {x}) = Cardinality(Admitted(w, T)) - 1
    BY <1>1, FS_RemoveElement
<1>3. /\ Cardinality(Admitted(w, T)') <= Cardinality(Admitted(w, T)) - 1
      /\ Cardinality(Admitted(w, T)') \in Nat
    BY <1>2, FS_Subset, FS_CardinalityType
<1>4. Len(queue[w]) + 1 \notin Ahead(w, T)
    BY <1>1 DEF Ahead
<1>5. /\ IsFiniteSet(Ahead(w, T) \cup {Len(queue[w]) + 1})
      /\ Cardinality(Ahead(w, T) \cup {Len(queue[w]) + 1}) = Cardinality(Ahead(w, T)) + 1
    BY <1>1, <1>4, FS_AddElement
<1>6. /\ Cardinality(Ahead(w, T)') <= Cardinality(Ahead(w, T)) + 1
      /\ Cardinality(Ahead(w, T)') \in Nat
    BY <1>5, FS_Subset, FS_CardinalityType
<1> QED BY <1>1, <1>3, <1>6 DEF Room

\* Steps that put no block of a thread and admit nobody.
LEMMA BoundStays ==
    ASSUME IInv, IInv', Bounded,
           \A w \in Workers : \E d \in {0, 1} : \A i \in 1 .. Len(queue'[w]) :
               queue'[w][i] # Stop =>
                   /\ i + d \in 1 .. Len(queue[w]) /\ queue'[w][i] = queue[w][i + d]
                   /\ queue'[w][i] \in Messages => base'[queue'[w][i]] = base[queue'[w][i]],
           \A t \in Threads : pc'[t] = "put" => pc[t] = "put" /\ held'[t] = held[t],
           \A x \in Senders : sending'[x] = "put" =>
               sending[x] = "put" /\ service'[x] = service[x]
    PROVE  Bounded'
<1> SUFFICES ASSUME NEW w \in Workers, NEW T \in Groups PROVE Room(w, T)'
    BY DEF Bounded
<1>1. DOMAIN queue'[w] = 1 .. Len(queue'[w])
    BY DEF IInv, TypeOK
<1>2. PICK d \in {0, 1} : \A i \in 1 .. Len(queue'[w]) :
               queue'[w][i] # Stop =>
                   /\ i + d \in 1 .. Len(queue[w]) /\ queue'[w][i] = queue[w][i + d]
                   /\ queue'[w][i] \in Messages => base'[queue'[w][i]] = base[queue'[w][i]]
    OBVIOUS
<1>3. Cardinality(Ahead(w, T)') <= Cardinality(Ahead(w, T))
    <2>1. \A i \in Ahead(w, T)' : i \in 1 .. Len(queue'[w]) /\ queue'[w][i] # Stop
        BY <1>1 DEF Ahead
    <2>2. \A i \in Ahead(w, T)' :
              /\ i + d \in 1 .. Len(queue[w]) /\ queue'[w][i] = queue[w][i + d]
              /\ queue'[w][i] \in Messages => base'[queue'[w][i]] = base[queue'[w][i]]
        BY <1>2, <2>1
    <2> QED BY <2>2, AheadThins
<1>4. Admitted(w, T)' \subseteq Admitted(w, T)
    <2>1. \A x \in T : x \notin Threads => x \in Senders
        BY DEF Groups
    <2> QED BY <2>1 DEF Admitted
<1> QED BY <1>3, <1>4, RoomStays DEF Bounded

\* A block that is put by x: it takes the place x was admitted to, and nothing
\* changes for groups without x and for other queues.
LEMMA BoundPut ==
    ASSUME IInv, IInv', Bounded, NEW v \in Workers, NEW b \in Items,
           b # Stop, queue' = [queue EXCEPT ![v] = Append(@, b)], UNCHANGED base,
           NEW x \in Threads \cup Senders, Putter(b) = x,
           IF x \in Threads THEN pc[x] = "put" /\ Home(held[x]) = v
           ELSE sending[x] = "put" /\ service[x] = v,
           IF x \in Threads THEN pc'[x] # "put" ELSE sending'[x] # "put",
           \A t \in Threads : t # x => pc'[t] = pc[t] /\ held'[t] = held[t],
           \A t \in Senders : t # x => sending'[t] = sending[t] /\ service'[t] = service[t]
    PROVE  Bounded'
<1> SUFFICES ASSUME NEW w \in Workers, NEW T \in Groups PROVE Room(w, T)'
    BY DEF Bounded
<1>1. Grown(v, b)
    BY Append1 DEF IInv, TypeOK
<1>2. \A i \in 1 .. Len(queue'[w]) :
          \/ i \in 1 .. Len(queue[w]) /\ queue'[w][i] = queue[w][i]
          \/ w = v /\ i = Len(queue[v]) + 1 /\ queue'[w][i] = b
    BY <1>1 DEF Grown
<1>3. /\ DOMAIN queue'[w] = 1 .. Len(queue'[w]) /\ DOMAIN queue[w] = 1 .. Len(queue[w])
      /\ Len(queue[w]) \in Nat
    BY DEF IInv, TypeOK
<1>4. \A t \in T : t \notin Threads => t \in Senders
    BY DEF Groups
<1>5. Room(w, T)
    BY DEF Bounded
<1>6. Admitted(w, T)' \subseteq Admitted(w, T) \ {x}
    BY <1>4 DEF Admitted
<1>7. CASE w = v /\ x \in T
    <2>1. x \in Admitted(w, T)
        BY <1>7 DEF Admitted
    <2>2. Ahead(w, T)' \subseteq Ahead(w, T) \cup {Len(queue[w]) + 1}
        BY <1>2, <1>3, <1>7 DEF Ahead, Putter
    <2> QED BY <1>5, <1>6, <1>7, <2>1, <2>2, RoomPut
<1>8. CASE ~ (w = v /\ x \in T)
    <2>1. \A i \in Ahead(w, T)' :
              i + 0 \in 1 .. Len(queue[w]) /\ queue'[w][i] = queue[w][i + 0]
        <3>1. Putter(b)' = x
            BY DEF Putter
        <3>2. ASSUME NEW i \in 1 .. Len(queue'[w]), queue'[w][i] = b, w = v
              PROVE  i \notin Ahead(w, T)'
            BY <1>8, <3>1, <3>2 DEF Ahead, Putter
        <3>3. \A i \in Ahead(w, T)' : i \in 1 .. Len(queue'[w])
            BY <1>3 DEF Ahead
        <3> QED BY <1>2, <1>3, <3>2, <3>3
    <2>2. Cardinality(Ahead(w, T)') <= Cardinality(Ahead(w, T))
        BY <2>1, AheadThins
    <2> QED BY <1>5, <1>6, <2>2, RoomStays
<1> QED BY <1>7, <1>8

\* Somebody sees a queue that is short enough.
LEMMA BoundAdmit ==
    ASSUME IInv, IInv', Bounded, NEW v \in Workers, Len(queue[v]) < MaxQueue,
           UNCHANGED <<queue, base>>,
           \A t \in Threads : pc'[t] = "put" =>
               held'[t] = held[t] /\ (pc[t] = "put" \/ Home(held[t]) = v),
           \A x \in Senders : sending'[x] = "put" =>
               service'[x] = service[x] /\ (sending[x] = "put" \/ service[x] = v)
    PROVE  Bounded'
<1> SUFFICES ASSUME NEW w \in Workers, NEW T \in Groups PROVE Room(w, T)'
    BY DEF Bounded
<1>1. CASE w = v
    BY <1>1, RoomWhenShort
<1>2. CASE w # v
    <2>1. \A i \in Ahead(w, T)' :
              i + 0 \in 1 .. Len(queue[w]) /\ queue'[w][i] = queue[w][i + 0]
        BY DEF Ahead, IInv, TypeOK
    <2>2. Cardinality(Ahead(w, T)') <= Cardinality(Ahead(w, T))
        BY <2>1, AheadThins
    <2>3. \A x \in T : x \notin Threads => x \in Senders
        BY DEF Groups
    <2>4. Admitted(w, T)' \subseteq Admitted(w, T)
        BY <1>2, <2>3 DEF Admitted
    <2> QED BY <2>2, <2>4, RoomStays DEF Bounded
<1> QED BY <1>1, <1>2

\* Steps after which every queue holds what it held.
LEMMA BoundUnmoved ==
    ASSUME IInv, IInv', Bounded, UNCHANGED queue,
           \A w \in Workers : \A i \in 1 .. Len(queue[w]) :
               queue[w][i] \in Messages => base'[queue[w][i]] = base[queue[w][i]],
           \A t \in Threads : pc'[t] = "put" => pc[t] = "put" /\ held'[t] = held[t],
           \A x \in Senders : sending'[x] = "put" =>
               sending[x] = "put" /\ service'[x] = service[x]
    PROVE  Bounded'
<1>1. \A w \in Workers : \A i \in 1 .. Len(queue'[w]) :
          /\ i + 0 \in 1 .. Len(queue[w]) /\ queue'[w][i] = queue[w][i + 0]
          /\ queue'[w][i] \in Messages => base'[queue'[w][i]] = base[queue'[w][i]]
    OBVIOUS
<1> QED BY <1>1, BoundStays

\* A worker takes the first block of its queue.
LEMMA BoundMovesUp ==
    ASSUME IInv, IInv', Bounded, NEW v \in Workers, queue[v] # << >>,
           queue' = [queue EXCEPT ![v] = Tail(@)], UNCHANGED <<base, pc, held>>,
           \A x \in Senders : sending'[x] = "put" =>
               sending[x] = "put" /\ service'[x] = service[x]
    PROVE  Bounded'
<1>1. /\ \A w \in Workers : w # v => queue'[w] = queue[w]
      /\ \A i \in 1 .. Len(queue'[v]) :
             i + 1 \in 1 .. Len(queue[v]) /\ queue'[v][i] = queue[v][i + 1]
    BY Tail1 DEF IInv, TypeOK
<1>2. ASSUME NEW w \in Workers
      PROVE  \E d \in {0, 1} : \A i \in 1 .. Len(queue'[w]) :
                 i + d \in 1 .. Len(queue[w]) /\ queue'[w][i] = queue[w][i + d]
    <2>1. CASE w = v
        BY <1>1, <2>1
    <2>2. CASE w # v
        <3>1. \A i \in 1 .. Len(queue'[w]) :
                  i + 0 \in 1 .. Len(queue[w]) /\ queue'[w][i] = queue[w][i + 0]
            BY <1>1, <2>2
        <3> QED BY <3>1
    <2> QED BY <2>1, <2>2
<1>3. \A w \in Workers : \E d \in {0, 1} : \A i \in 1 .. Len(queue'[w]) :
          queue'[w][i] # Stop =>
              /\ i + d \in 1 .. Len(queue[w]) /\ queue'[w][i] = queue[w][i + d]
              /\ queue'[w][i] \in Messages => base'[queue'[w][i]] = base[queue'[w][i]]
    BY <1>2
<1> QED BY <1>3, BoundStays

\* A thread tests the length, or puts its block, or is refused.
LEMMA ProduceBounded ==
    ASSUME IInv, IInv', InLine, Bounded, NEW t \in Threads, Produce(t) PROVE Bounded'
<1> USE DEF producer, worker, close, update
<1>1. held[t] \in Messages /\ Home(held[t]) \in Workers /\ pc[t] \in {"count", "put"}
    BY HomeWorker DEF Produce, CountQueue, PutQueue, IInv, InHand, TypeOK
<1>2. PICK v \in Workers, b \in Messages : v = Home(held[t]) /\ b = held[t]
    BY <1>1
<1>3. UNCHANGED <<base, sending, service>>
    BY DEF Produce, CountQueue, PutQueue
<1>4. CASE queue' = queue /\ Return(t)
    <2>1. \A u \in Threads : pc'[u] = "put" => pc[u] = "put" /\ held'[u] = held[u]
        BY <1>4 DEF Return, IInv, TypeOK
    <2> QED BY <1>3, <1>4, <2>1, BoundUnmoved
<1>5. CASE /\ Len(queue[v]) < MaxQueue
           /\ pc' = [pc EXCEPT ![t] = "put"] /\ UNCHANGED <<held, queue>>
    BY <1>2, <1>3, <1>5, BoundAdmit DEF IInv, TypeOK
<1>6. CASE /\ pc[t] = "put" /\ queue' = [queue EXCEPT ![v] = Append(@, b)] /\ Return(t)
    <2>1. b # Stop /\ b \in Items
        BY Marks DEF Items
    <2>2. Putter(b) = t
        BY <1>1, <1>2, <2>1, Marks DEF InLine, Putter
    <2>3. pc'[t] # "put" /\ \A u \in Threads : u # t => pc'[u] = pc[u] /\ held'[u] = held[u]
        BY <1>6 DEF Return, IInv, TypeOK
    <2> QED BY <1>2, <1>3, <1>6, <2>1, <2>2, <2>3, BoundPut
<1> QED BY <1>2, <1>4, <1>5, <1>6 DEF Produce, CountQueue, PutQueue

\* The message that is filled in is in no queue.
LEMMA CreateBounded ==
    ASSUME IInv, IInv', Bounded, NEW t \in Threads, NEW c \in Sources, NEW k \in Commands,
           CreateMessage(t, c, k)
    PROVE  Bounded'
<1> USE DEF producer, worker, close, update
<1>1. UNCHANGED <<queue, sending, service>>
    BY DEF CreateMessage
<1>2. PICK w \in GetWorkThreadID(c) :
        \/ UNCHANGED <<base, held, pc>>
        \/ \E m \in pool[w] :
            /\ base' = [base EXCEPT ![m] = [cmd |-> k, thread |-> t, source |-> c,
                                            number |-> raised[t][c] + 1]]
            /\ held' = [held EXCEPT ![t] = m]
            /\ pc' = [pc EXCEPT ![t] = "count"]
    BY DEF CreateMessage
<1>3. CASE UNCHANGED <<base, held, pc>>
    BY <1>1, <1>3, BoundUnmoved
<1>4. ASSUME NEW m \in pool[w],
             base' = [base EXCEPT ![m] = [cmd |-> k, thread |-> t, source |-> c,
                                          number |-> raised[t][c] + 1]],
             held' = [held EXCEPT ![t] = m], pc' = [pc EXCEPT ![t] = "count"]
      PROVE  Bounded'
    <2>1. m \in Messages /\ Home(m) = w /\ w \in Workers
        BY <1>2, <1>4, WorkerExists DEF IInv, TypeOK, AtHome
    <2>2. \A v \in Workers : \A i \in 1 .. Len(queue[v]) : queue[v][i] # m
        BY <1>4, <2>1 DEF IInv, QueuedAlone, AtHome
    <2>3. \A v \in Workers : \A i \in 1 .. Len(queue[v]) :
              queue[v][i] \in Messages => base'[queue[v][i]] = base[queue[v][i]]
        BY <1>4, <2>2 DEF IInv, TypeOK
    <2>4. \A u \in Threads : pc'[u] = "put" => pc[u] = "put" /\ held'[u] = held[u]
        BY <1>4 DEF IInv, TypeOK
    <2> QED BY <1>1, <2>3, <2>4, BoundUnmoved
<1> QED BY <1>2, <1>3, <1>4

\* A sender of updates tests the length, or puts its block, or gives up.
LEMMA SendBounded ==
    ASSUME IInv, IInv', Bounded, NEW s \in Senders, Send(s) PROVE Bounded'
<1> DEFINE w == service[s]
<1>1. /\ w \in Workers /\ UNCHANGED <<base, pc, held>>
      /\ \A x \in Senders : x # s => sending'[x] = sending[x] /\ service'[x] = service[x]
    BY SendStep DEF IInv
<1>2. CASE CountUpdate(s)
    <2>1. UNCHANGED queue
        BY <1>2 DEF CountUpdate
    <2>2. CASE GiveUp(s)
        <3>1. sending'[s] # "put"
            BY <2>2, SendingTyped DEF IInv
        <3> QED BY <1>1, <2>1, <3>1, BoundUnmoved
    <2>3. CASE Len(queue[w]) < MaxQueue /\ UNCHANGED service
        BY <1>1, <2>1, <2>3, BoundAdmit
    <2> QED BY <1>2, <2>2, <2>3 DEF CountUpdate
<1>3. CASE PutUpdate(s)
    <2>1. sending[s] = "put" /\ sending'[s] # "put"
        BY <1>3, SendingTyped DEF PutUpdate, IInv
    <2>2. CASE UNCHANGED queue
        BY <1>1, <2>1, <2>2, BoundUnmoved
    <2>3. CASE queue' = [queue EXCEPT ![w] = Append(@, UpdateOf(s))]
        <3>1. /\ UpdateOf(s) \in Items /\ UpdateOf(s) # Stop /\ s \notin Threads
              /\ UpdateOf(s) \notin Messages
            BY SenderBlock, Marks, NilAssumption
        <3>2. Putter(UpdateOf(s)) = s
            BY <3>1 DEF Putter, UpdateOf
        <3> HIDE DEF w
        <3> QED BY <1>1, <2>1, <2>3, <3>1, <3>2, BoundPut DEF w
    <2> QED BY <1>3, <2>2, <2>3 DEF PutUpdate
<1> QED BY <1>2, <1>3 DEF Send

\* A worker frees the message it handles, which is in no queue.
LEMMA FreeBounded ==
    ASSUME IInv, IInv', Bounded, NEW v \in Workers, Handling(v),
           base' = base \/ base' = [base EXCEPT ![current[v]] = Clear],
           UNCHANGED <<queue, pc, held, sending, service>>
    PROVE  Bounded'
<1>1. \A w \in Workers : \A i \in 1 .. Len(queue[w]) :
          queue[w][i] \in Messages => queue[w][i] # current[v]
    BY DEF IInv, QueuedAlone, AtHome
<1>2. \A w \in Workers : \A i \in 1 .. Len(queue[w]) :
          queue[w][i] \in Messages => base'[queue[w][i]] = base[queue[w][i]]
    BY <1>1 DEF IInv, TypeOK
<1> QED BY <1>2, BoundUnmoved

LEMMA WorkBounded ==
    ASSUME IInv, IInv', Bounded, NEW v \in Workers, Work(v) PROVE Bounded'
<1> USE DEF producer, worker, close, update
<1>1. CASE TakeMessage(v) \/ TakeStop(v)
    BY <1>1, BoundMovesUp DEF TakeMessage, TakeStop, AtQueue
<1>4. CASE TakeUpdate(v)
    <2>1. \A x \in Senders : sending'[x] = "put" =>
              sending[x] = "put" /\ service'[x] = service[x]
        BY <1>4, SendingTyped DEF TakeUpdate, IInv, Senders
    <2> QED BY <1>4, <2>1, BoundMovesUp DEF TakeUpdate, AtQueue
<1>2. CASE RefuseCommand(v) \/ DoMessage(v)
    BY <1>2, FreeBounded DEF RefuseCommand, DoMessage, DeleteMessage, Handling
<1>3. CASE Account(v) \/ AnswerStop(v)
    BY <1>3, BoundUnmoved DEF Account, AnswerStop
<1> QED BY <1>1, <1>2, <1>3, <1>4, SendBounded DEF Work, Senders

LEMMA CloseBounded ==
    ASSUME IInv, IInv', Bounded, Close \/ CloseStep PROVE Bounded'
<1> USE DEF producer, worker, close, update
<1>1. CASE Close \/ CloseLock \/ CloseWait \/ CloseEnd
    BY <1>1, BoundUnmoved DEF Close, CloseLock, CloseWait, CloseEnd
<1>2. CASE CloseFlush \/ ClosePut
    <2>1. Len(<< >>) = 0
        OBVIOUS
    <2>2. ASSUME NEW w \in Workers, NEW i \in 1 .. Len(queue'[w]), queue'[w][i] # Stop
          PROVE  i + 0 \in 1 .. Len(queue[w]) /\ queue'[w][i] = queue[w][i + 0]
        <3>1. i \in 1 .. Len(queue[w]) /\ queue'[w][i] = queue[w][i]
            <4>1. CASE CloseFlush
                BY <2>1, <2>2, <4>1 DEF CloseFlush, IInv, TypeOK
            <4>2. CASE ClosePut
                <5>1. Grown(closing, Stop)
                    BY <4>2, Append1 DEF ClosePut, IInv, TypeOK, Items
                <5> QED BY <2>2, <5>1 DEF Grown
            <4> QED BY <1>2, <4>1, <4>2
        <3> QED BY <3>1
    <2>3. UNCHANGED <<base, pc, held, sending, service>>
        BY <1>2 DEF CloseFlush, ClosePut
    <2>4. \A w \in Workers : \E d \in {0, 1} : \A i \in 1 .. Len(queue'[w]) :
              queue'[w][i] # Stop =>
                  /\ i + d \in 1 .. Len(queue[w]) /\ queue'[w][i] = queue[w][i + d]
                  /\ queue'[w][i] \in Messages => base'[queue'[w][i]] = base[queue'[w][i]]
        BY <2>2, <2>3
    <2> QED BY <2>3, <2>4, BoundStays
<1> QED BY <1>1, <1>2 DEF CloseStep

LEMMA NextBounded == IInv /\ IInv' /\ InLine /\ Bounded /\ [Next]_vars => Bounded'
<1> SUFFICES ASSUME IInv, IInv', InLine, Bounded, [Next]_vars PROVE Bounded'
    OBVIOUS
<1>1. CASE UNCHANGED vars
    BY <1>1, BoundUnmoved DEF vars, producer, update
<1>2. CASE Finished
    BY <1>1, <1>2 DEF Finished
<1>3. CASE ConsoleUpdate
    <2>1. \A x \in Senders : sending'[x] = "put" =>
              sending[x] = "put" /\ service'[x] = service[x]
        BY <1>3, SendingTyped DEF ConsoleUpdate, IInv, Senders
    <2>2. UNCHANGED <<queue, base, pc, held>>
        BY <1>3 DEF ConsoleUpdate, producer
    <2>3. \A w \in Workers : \A i \in 1 .. Len(queue[w]) :
              queue[w][i] \in Messages => base'[queue[w][i]] = base[queue[w][i]]
        BY <2>2
    <2>4. \A t \in Threads : pc'[t] = "put" => pc[t] = "put" /\ held'[t] = held[t]
        BY <2>2
    <2> QED BY <2>1, <2>2, <2>3, <2>4, BoundUnmoved
<1>4. Console \in Senders
    BY DEF Senders
<1>5. ASSUME Send(Console) PROVE Bounded'
    BY <1>4, <1>5, SendBounded
<1>6. ASSUME NEW t \in Threads, NEW s \in Sources, NEW k \in Commands,
             CreateMessage(t, s, k)
      PROVE  Bounded'
    BY <1>6, CreateBounded
<1>7. ASSUME NEW t \in Threads, Produce(t) PROVE Bounded'
    BY <1>7, ProduceBounded
<1>8. ASSUME NEW w \in Workers, Work(w) PROVE Bounded'
    BY <1>8, WorkBounded
<1>9. ASSUME Close \/ CloseStep PROVE Bounded'
    BY <1>9, CloseBounded
<1> QED BY <1>1, <1>2, <1>3, <1>5, <1>6, <1>7, <1>8, <1>9 DEF Next

LEMMA AlwaysBounded == Spec => [](IInv /\ InLine /\ Bounded)
<1>1. Init => IInv /\ InLine /\ Bounded
    <2> SUFFICES ASSUME Init PROVE IInv /\ InLine /\ Bounded
        OBVIOUS
    <2>1. IInv
        BY InitIInv
    <2>2. InLine
        <3>1. \A s \in Connections : s \in Sources
            BY OneWorker
        <3> QED BY <3>1 DEF Init, InLine, QueueInLine, WorkerInLine, ThreadInLine, Handling
    <2>3. ASSUME NEW w \in Workers, NEW T \in Groups PROVE Room(w, T)
        <3>1. Ahead(w, T) = {}
            BY DEF Init, Ahead
        <3>2. Admitted(w, T) = {}
            <4>1. \A x \in T : x \notin Threads => x \in Senders
                BY DEF Groups
            <4> QED BY <4>1 DEF Init, Admitted
        <3>3. Cardinality({}) = 0
            BY FS_EmptySet
        <3>4. Cardinality(T) \in Nat \ {0} /\ MaxQueue \in Nat
            BY <2>1, Sizes, CountAssumption
        <3>5. 0 + 0 <= MaxQueue + Cardinality(T) - 1
            BY <3>4
        <3> QED BY <3>1, <3>2, <3>3, <3>5 DEF Room
    <2> QED BY <2>1, <2>2, <2>3 DEF Bounded
<1>2. IInv /\ InLine /\ Bounded /\ [Next]_vars => (IInv /\ InLine /\ Bounded)'
    BY NextIInv, NextInLine, NextBounded
<1> QED BY <1>1, <1>2, PTL DEF Spec

\* PutMessage tests the length in one step and puts in another.  Whatever the
\* number of threads, workers and messages, and however many of them broadcast
\* updates at once, the blocks that a group of threads has in a queue pass
\* m_u4MaxQueue by less than the group has members.
THEOREM QueuesStayBounded == Spec => []QueueBound
<1>1. IInv /\ Bounded => QueueBound
    <2> SUFFICES ASSUME IInv, Bounded, NEW w \in Workers, NEW T \in Groups
                 PROVE  Cardinality(Ahead(w, T)) <= MaxQueue + Cardinality(T) - 1
        BY DEF QueueBound, Groups, Ahead
    <2>1. Room(w, T)
        BY DEF Bounded
    <2> QED BY <2>1, Sizes, CountAssumption DEF Room
<1> QED BY <1>1, AlwaysBounded, PTL

-----------------------------------------------------------------------------
(* A message goes missing only when its queue is full. *)

\* Before Close no worker is told to stop, so every queue takes blocks.
Open ==
    closer = "off" => \A w \in Workers :
        /\ active[w] /\ step[w] # "stop"
        /\ \A i \in 1 .. Len(queue[w]) : queue[w][i] # Stop

LEMMA NextOpen == IInv /\ Open /\ [Next]_vars => Open'
<1> SUFFICES ASSUME IInv, Open, [Next]_vars, closer' = "off" PROVE Open'
    BY DEF Open
<1> USE DEF producer, worker, close, update
<1> DEFINE Calm == /\ closer = "off" /\ UNCHANGED active
                   /\ \A w \in Workers : step'[w] # "stop"
<1>1. ASSUME Calm, NEW x \in Items, x # Stop, NEW v \in Workers,
             queue' = [queue EXCEPT ![v] = Append(@, x)]
      PROVE  Open'
    <2>1. Grown(v, x)
        BY <1>1, Append1 DEF IInv, TypeOK
    <2> QED BY <1>1, <2>1 DEF Grown, Open
<1>2. ASSUME Calm, NEW v \in Workers, queue[v] # << >>,
             queue' = [queue EXCEPT ![v] = Tail(@)]
      PROVE  Open'
    <2>1. /\ \A w \in Workers : w # v => queue'[w] = queue[w]
          /\ \A i \in 1 .. Len(queue'[v]) :
                 i + 1 \in 1 .. Len(queue[v]) /\ queue'[v][i] = queue[v][i + 1]
        BY <1>2, Tail1 DEF IInv, TypeOK
    <2> QED BY <1>2, <2>1 DEF Open
<1>3. CASE UNCHANGED <<closer, active, step, queue>>
    BY <1>3 DEF Open
<1>4. ASSUME NEW t \in Threads, NEW s \in Sources, NEW k \in Commands,
             CreateMessage(t, s, k)
      PROVE  Open'
    BY <1>3, <1>4 DEF CreateMessage
<1>5. ASSUME NEW t \in Threads, Produce(t) PROVE Open'
    <2>1. held[t] \in Messages /\ Home(held[t]) \in Workers
        BY <1>5, HomeWorker DEF Produce, CountQueue, PutQueue, IInv, InHand, TypeOK
    <2>2. held[t] \in Items /\ held[t] # Stop
        BY <2>1, Marks DEF Items
    <2>3. CASE UNCHANGED queue
        BY <1>3, <1>5, <2>3 DEF Produce, CountQueue, PutQueue
    <2>4. CASE ~ UNCHANGED queue
        <3>1. Calm
            BY <1>5 DEF Produce, CountQueue, PutQueue, Open
        <3>2. queue' = [queue EXCEPT ![Home(held[t])] = Append(@, held[t])]
            BY <1>5, <2>4 DEF Produce, CountQueue, PutQueue
        <3> QED BY <1>1, <2>1, <2>2, <3>1, <3>2
    <2> QED BY <2>3, <2>4
<1>6. ASSUME NEW s \in Senders, Send(s) PROVE Open'
    <2>1. /\ service[s] \in Workers /\ UNCHANGED <<active, step, closer>>
          /\ \/ queue' = queue
             \/ queue' = [queue EXCEPT ![service[s]] = Append(@, UpdateOf(s))]
        BY <1>6, SendStep DEF IInv
    <2>2. UpdateOf(s) \in Items /\ UpdateOf(s) # Stop
        BY SenderBlock, Marks
    <2>3. CASE queue' = queue
        BY <1>3, <2>1, <2>3
    <2>4. CASE queue' = [queue EXCEPT ![service[s]] = Append(@, UpdateOf(s))]
        <3>1. Calm
            BY <2>1 DEF Open
        <3> QED BY <1>1, <2>1, <2>2, <2>4, <3>1
    <2> QED BY <2>1, <2>3, <2>4
<1>7. CASE ConsoleUpdate
    BY <1>3, <1>7 DEF ConsoleUpdate
<1>8. ASSUME NEW w \in Workers, Work(w) PROVE Open'
    <2>1. CASE TakeMessage(w) \/ TakeUpdate(w)
        <3>1. Calm
            BY <2>1 DEF TakeMessage, TakeUpdate, Open, IInv, TypeOK, AtQueue
        <3> QED BY <1>2, <2>1, <3>1 DEF TakeMessage, TakeUpdate, AtQueue
    <2>2. CASE TakeStop(w)
        <3>1. closer = "off" /\ 1 \in 1 .. Len(queue[w]) /\ queue[w][1] = Stop
            BY <2>2 DEF TakeStop, IInv, TypeOK, AtQueue
        <3> QED BY <3>1 DEF Open
    <2>3. CASE RefuseCommand(w) \/ DoMessage(w) \/ Account(w)
        <3>1. Calm /\ UNCHANGED queue
            BY <2>3 DEF RefuseCommand, DoMessage, Account, Open, IInv, TypeOK
        <3> QED BY <3>1 DEF Open
    <2>4. CASE AnswerStop(w)
        BY <2>4 DEF AnswerStop, Open
    <2> QED BY <1>6, <1>8, <2>1, <2>2, <2>3, <2>4 DEF Work, Senders
<1>9. CASE Close \/ CloseStep
    BY <1>9 DEF Close, CloseStep, CloseFlush, CloseLock, ClosePut, CloseWait, CloseEnd
<1>10. CASE Finished \/ UNCHANGED vars
    BY <1>3, <1>10 DEF Finished, vars
<1> QED BY <1>4, <1>5, <1>6, <1>7, <1>8, <1>9, <1>10 DEF Next, Senders

LEMMA AlwaysOpen == Spec => [](IInv /\ Open)
<1>1. Init => IInv /\ Open
    <2>1. Init => Open
        BY DEF Init, Open
    <2> QED BY <2>1, InitIInv
<1>2. IInv /\ Open /\ [Next]_vars => (IInv /\ Open)'
    BY NextIInv, NextOpen
<1> QED BY <1>1, <1>2, PTL DEF Spec

\* A queued message stays queued when blocks are added to the queues, and
\* when another block is taken.
LEMMA WaitingStays ==
    ASSUME IInv, NEW m \in Messages, Waiting(m), NEW v \in Workers, NEW x \in Items,
           queue' = queue \/ queue' = [queue EXCEPT ![v] = Append(@, x)]
    PROVE  Waiting(m)'
<1>1. PICK w \in Workers : m \in {queue[w][i] : i \in DOMAIN queue[w]}
    BY DEF Waiting
<1>2. PICK i \in 1 .. Len(queue[w]) : queue[w][i] = m
    BY <1>1 DEF IInv, TypeOK
<1>3. queue'[w] \in Seq(Items) /\ i \in 1 .. Len(queue'[w]) /\ queue'[w][i] = m
    <2>1. queue[w] \in Seq(Items) /\ (queue'[w] = queue[w] \/ queue'[w] = Append(queue[w], x))
        BY DEF IInv, TypeOK
    <2>2. /\ Len(Append(queue[w], x)) = Len(queue[w]) + 1 /\ Append(queue[w], x) \in Seq(Items)
          /\ Append(queue[w], x)[i] = queue[w][i]
        BY <2>1
    <2>3. i \in 1 .. Len(queue[w]) + 1
        BY <2>1
    <2> QED BY <1>2, <2>1, <2>2, <2>3
<1>4. i \in DOMAIN queue'[w]
    BY <1>3
<1> QED BY <1>3, <1>4 DEF Waiting

LEMMA WaitingMovesUp ==
    ASSUME IInv, NEW m \in Messages, Waiting(m), NEW v \in Workers, queue[v] # << >>,
           queue' = [queue EXCEPT ![v] = Tail(@)], m # Head(queue[v])
    PROVE  Waiting(m)'
<1>1. PICK w \in Workers : m \in {queue[w][i] : i \in DOMAIN queue[w]}
    BY DEF Waiting
<1>2. PICK i \in 1 .. Len(queue[w]) : queue[w][i] = m
    BY <1>1 DEF IInv, TypeOK
<1>3. CASE w # v
    <2>1. queue'[w] = queue[w] /\ i \in DOMAIN queue'[w]
        BY <1>2, <1>3 DEF IInv, TypeOK
    <2> QED BY <1>2, <2>1 DEF Waiting
<1>4. CASE w = v
    <2>1. queue[v] \in Seq(Items) /\ queue'[v] = Tail(queue[v])
        BY DEF IInv, TypeOK
    <2>2. i # 1
        BY <1>2, <1>4, <2>1
    <2>3. i - 1 \in 1 .. Len(queue'[v]) /\ queue'[v][i - 1] = m
        <3>1. /\ i \in 1 .. Len(queue[v]) /\ Len(Tail(queue[v])) = Len(queue[v]) - 1
              /\ \A j \in 1 .. Len(Tail(queue[v])) : Tail(queue[v])[j] = queue[v][j + 1]
            BY <1>4, <2>1
        <3>2. i - 1 \in 1 .. Len(queue'[v]) /\ (i - 1) + 1 = i
            BY <2>1, <2>2, <3>1
        <3>3. queue'[v][i - 1] = queue[v][(i - 1) + 1]
            BY <2>1, <3>1, <3>2
        <3> QED BY <1>2, <1>4, <3>2, <3>3
    <2>4. i - 1 \in DOMAIN queue'[v]
        BY <2>1, <2>3
    <2> QED BY <2>3, <2>4 DEF Waiting
<1> QED BY <1>3, <1>4

\* The places of a message that is in nobody's queue.
AtHand(m) ==
    \/ m \in pool[Home(m)] \/ m \in kept
    \/ \E t \in Threads : held[t] = m
    \/ \E w \in Workers : step[w] = "process" /\ current[w] = m

LEMMA Reached == \A m \in Messages : InReach(m) <=> Waiting(m) \/ AtHand(m)
BY DEF InReach, AtHand

\* CreateMessage: a free message passes into the hands of the thread, which
\* held none.
LEMMA CreateKeeps ==
    ASSUME IInv, NEW t \in Threads, NEW s \in Sources, NEW k \in Commands,
           CreateMessage(t, s, k), NEW m \in Messages, InReach(m)
    PROVE  InReach(m)'
<1> USE HomeWorker DEF producer, worker, close, update
<1>1. UNCHANGED <<queue, step, current, kept>>
    BY DEF CreateMessage
<1>2. CASE Waiting(m)
    BY <1>1, <1>2 DEF Waiting, InReach
<1>3. held[t] = Nil /\ m # Nil
    BY Marks DEF CreateMessage, IInv, InHand
<1>4. CASE AtHand(m)
    <2>1. CASE UNCHANGED <<pool, held>>
        BY <1>1, <1>4, <2>1 DEF InReach, AtHand
    <2>2. ASSUME NEW w \in Workers, NEW f \in pool[w], pool' = [pool EXCEPT ![w] = @ \ {f}],
                 held' = [held EXCEPT ![t] = f]
          PROVE  InReach(m)'
        <3>1. CASE f = m
            BY <2>2, <3>1 DEF InReach, IInv, TypeOK
        <3>2. CASE f # m
            BY <1>1, <1>3, <1>4, <2>2, <3>2 DEF InReach, AtHand, IInv, TypeOK
        <3> QED BY <3>1, <3>2
    <2>3. PICK w \in GetWorkThreadID(s) :
              \/ UNCHANGED <<pool, held>>
              \/ \E f \in pool[w] : /\ pool' = [pool EXCEPT ![w] = @ \ {f}]
                                    /\ held' = [held EXCEPT ![t] = f]
        BY DEF CreateMessage
    <2>4. w \in Workers
        BY WorkerExists
    <2> QED BY <2>1, <2>2, <2>3, <2>4
<1> QED BY <1>2, <1>4, Reached

\* PutMessage: only what the thread holds can be lost, and only by a queue
\* that is full at that moment.
LEMMA ProduceKeeps ==
    ASSUME IInv, Open, closer = "off", NEW t \in Threads, Produce(t), NEW m \in Messages,
           InReach(m), ~InReach(m)'
    PROVE  /\ held[t] = m
           /\ Len(queue[Home(m)]) >= MaxQueue \/ Len(queue[Home(m)]) >= HighMark
<1> USE DEF producer, worker, close, update
<1>1. held[t] \in Messages /\ Home(held[t]) \in Workers /\ held[t] \in Items
    BY HomeWorker DEF Produce, CountQueue, PutQueue, IInv, InHand, TypeOK, Items
<1>2. UNCHANGED <<pool, step, current, kept>>
    BY DEF Produce, CountQueue, PutQueue
<1>3. held' = held \/ held' = [held EXCEPT ![t] = Nil]
    BY DEF Produce, CountQueue, PutQueue, Return
<1>4. queue' = queue \/ queue' = [queue EXCEPT ![Home(held[t])] = Append(@, held[t])]
    BY DEF Produce, CountQueue, PutQueue
<1>5. ~Waiting(m)
    BY <1>1, <1>4, WaitingStays DEF InReach
<1>6. held[t] = m /\ held' # held
    BY <1>2, <1>3, <1>5, Marks DEF InReach, IInv, TypeOK
<1>7. CASE CountQueue(t)
    BY <1>6, <1>7 DEF CountQueue
<1>8. CASE queue' = [queue EXCEPT ![Home(m)] = Append(@, m)]
    <2>1. /\ queue'[Home(m)] = Append(queue[Home(m)], m) /\ queue[Home(m)] \in Seq(Items)
          /\ m \in Items
        BY <1>1, <1>6, <1>8 DEF IInv, TypeOK
    <2>2. /\ Len(queue[Home(m)]) + 1 \in DOMAIN queue'[Home(m)]
          /\ queue'[Home(m)][Len(queue[Home(m)]) + 1] = m
        BY <2>1
    <2>3. Waiting(m)'
        BY <1>1, <1>6, <2>2 DEF Waiting
    <2> QED BY <2>3 DEF InReach
<1>9. CASE ~active[Home(m)] \/ Len(queue[Home(m)]) >= HighMark
    BY <1>1, <1>6, <1>9 DEF Open
<1> QED BY <1>6, <1>7, <1>8, <1>9 DEF Produce, PutQueue

\* Nor does a step of a broadcast lose one.
LEMMA SendKeeps ==
    ASSUME IInv, NEW s \in Senders, Send(s), NEW m \in Messages, InReach(m)
    PROVE  InReach(m)'
<1>1. /\ service[s] \in Workers /\ UNCHANGED <<pool, held, step, current, kept>>
      /\ \/ queue' = queue
         \/ queue' = [queue EXCEPT ![service[s]] = Append(@, UpdateOf(s))]
    BY SendStep DEF IInv
<1>2. Waiting(m) => Waiting(m)'
    BY <1>1, SenderBlock, WaitingStays
<1> QED BY <1>1, <1>2 DEF InReach

\* A worker always leaves a message somewhere.
LEMMA WorkKeeps ==
    ASSUME IInv, NEW v \in Workers, Work(v), NEW m \in Messages, InReach(m)
    PROVE  InReach(m)'
<1> USE HomeWorker DEF producer, worker, close, update, AtQueue
<1>1. held' = held
    BY DEF Work, TakeMessage, TakeUpdate, TakeStop, RefuseCommand, DoMessage, Account,
           AnswerStop, Send, CountUpdate, PutUpdate
<1>2. Stop \in Items
    BY DEF Items
<1>3. CASE TakeMessage(v)
    <2>1. UNCHANGED <<pool, kept>> /\ step[v] = "getq" /\ step'[v] = "process"
          /\ current'[v] = Head(queue[v])
        BY <1>3 DEF TakeMessage, IInv, TypeOK
    <2>2. \A w \in Workers : w # v => step'[w] = step[w] /\ current'[w] = current[w]
        BY <1>3 DEF TakeMessage, IInv, TypeOK
    <2>3. CASE m = Head(queue[v])
        BY <2>1, <2>3 DEF InReach
    <2>4. CASE m # Head(queue[v]) /\ Waiting(m)
        BY <1>3, <2>4, WaitingMovesUp DEF TakeMessage, InReach
    <2>5. CASE AtHand(m)
        BY <1>1, <2>1, <2>2, <2>5 DEF AtHand, InReach
    <2> QED BY <2>3, <2>4, <2>5, Reached
<1>4. CASE TakeUpdate(v) \/ TakeStop(v)
    <2>1. UNCHANGED <<pool, kept, current>> /\ step[v] = "getq"
          /\ \A w \in Workers : w # v => step'[w] = step[w]
        BY <1>4 DEF TakeUpdate, TakeStop, IInv, TypeOK
    <2>2. CASE Waiting(m)
        BY <1>4, <2>2, Marks, WaitingMovesUp DEF TakeUpdate, TakeStop, InReach
    <2>3. CASE AtHand(m)
        BY <1>1, <2>1, <2>3 DEF AtHand, InReach
    <2> QED BY <2>2, <2>3, Reached
<1>5. CASE RefuseCommand(v) \/ DoMessage(v) \/ Account(v) \/ AnswerStop(v)
    <2>1. queue' = queue
        BY <1>5 DEF RefuseCommand, DoMessage, Account, AnswerStop
    <2>2. CASE Waiting(m)
        BY <1>2, <2>1, <2>2, WaitingStays DEF InReach
    <2>3. CASE AtHand(m) /\ (RefuseCommand(v) \/ DoMessage(v))
        <3>1. Handling(v) /\ current[v] \in Messages
            BY <2>3 DEF RefuseCommand, DoMessage, Handling, IInv, AtHome
        <3>2. \A w \in Workers : w # v => step'[w] = step[w] /\ current'[w] = current[w]
            BY <2>3 DEF RefuseCommand, DoMessage, IInv, TypeOK
        <3>3. \/ pool' = [pool EXCEPT ![Home(current[v])] = @ \cup {current[v]}] /\ kept' = kept
              \/ pool' = pool /\ kept' = kept \cup {current[v]}
            BY <2>3 DEF RefuseCommand, DoMessage, DeleteMessage
        <3>4. m \in pool[Home(m)] => m \in pool'[Home(m)]
            BY <3>1, <3>3 DEF IInv, TypeOK
        <3>5. m = current[v] => m \in pool'[Home(m)] \/ m \in kept'
            BY <3>1, <3>3 DEF IInv, TypeOK
        <3> QED BY <1>1, <2>3, <3>2, <3>3, <3>4, <3>5 DEF AtHand, InReach
    <2>4. CASE AtHand(m) /\ (Account(v) \/ AnswerStop(v))
        <3>1. UNCHANGED <<pool, kept>> /\ step[v] # "process"
              /\ \A w \in Workers : w # v => step'[w] = step[w] /\ current'[w] = current[w]
            BY <2>4 DEF Account, AnswerStop, IInv, TypeOK
        <3> QED BY <1>1, <2>4, <3>1 DEF AtHand, InReach
    <2> QED BY <1>5, <2>2, <2>3, <2>4, Reached
<1>6. CASE Send(v)
    BY <1>6, SendKeeps DEF Senders
<1> QED BY <1>3, <1>4, <1>5, <1>6 DEF Work

\* A refusal by a queue that is full is the only way in which a message object
\* is lost while nobody closes the service, whatever the threads, the workers,
\* the modules and the updates do.
THEOREM MessagesAreLostOnlyWhenFull == Spec => LostWhenFull
<1>1. ASSUME IInv, Open, [Next]_vars, NEW m \in Messages, closer = "off",
             InReach(m), ~InReach(m)'
      PROVE  /\ \E t \in Threads : held[t] = m
             /\ Len(queue[Home(m)]) >= MaxQueue \/ Len(queue[Home(m)]) >= HighMark
    <2> USE <1>1 DEF producer, worker, close, update
    <2>1. ~ UNCHANGED <<pool, queue, held, step, current, kept>>
        BY DEF InReach, Waiting
    <2>2. ~ Send(Console)
        BY SendKeeps DEF Senders
    <2>3. ~ ConsoleUpdate
        BY <2>1 DEF ConsoleUpdate
    <2>4. ~ Close /\ ~ CloseStep /\ ~ Finished
        BY <2>1 DEF Close, CloseStep, CloseFlush, CloseLock, ClosePut, CloseWait,
                    CloseEnd, Finished, vars
    <2>5. ~ UNCHANGED vars
        BY <2>1 DEF vars
    <2>6. PICK t \in Threads : Produce(t)
        BY <2>2, <2>3, <2>4, <2>5, CreateKeeps, WorkKeeps DEF Next
    <2> QED BY <2>6, ProduceKeeps
<1>2. IInv /\ Open /\ [Next]_vars =>
          [\A m \in Messages :
               closer = "off" /\ InReach(m) /\ ~InReach(m)' =>
                   /\ \E t \in Threads : held[t] = m
                   /\ \/ Len(queue[Home(m)]) >= MaxQueue
                      \/ Len(queue[Home(m)]) >= HighMark]_vars
    BY <1>1
<1> QED BY <1>2, AlwaysOpen, PTL DEF Spec, LostWhenFull
==============================================================================
