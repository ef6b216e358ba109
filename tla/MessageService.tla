---------------------------- MODULE MessageService ----------------------------
(***************************************************************************)
(* The worker threads: CMessageServiceGroup and CMessageService of         *)
(* Message/MessageService.cpp, fed through CMakePacket (Common/            *)
(* MakePacket.cpp), with the CMessagePool each service owns.               *)
(*                                                                         *)
(* A thread that has an event for the modules (a reactor with a parsed     *)
(* packet, a sender with a packet it could not send, a UDP handler) takes  *)
(* a CMessage from the pool of the worker that serves the connection,      *)
(* fills it in, and puts it into that worker's queue.  The worker takes    *)
(* messages in order, lets the modules handle each one, gives it back to   *)
(* the pool unless a module keeps it, and adds it to the statistics.       *)
(* Close sends each worker an MB_STOP block and waits on a condition       *)
(* variable for its answer.                                                *)
(*                                                                         *)
(* What an MB_USER block does (the copy of the command lists) is in module *)
(* CommandLists; here it takes a place in the queue.  m_emThreadState      *)
(* never leaves THREAD_RUN in the code, so the wait for it is left out.    *)
(***************************************************************************)
EXTENDS Integers, Sequences, FiniteSets

CONSTANTS
    WorkerCount,   \* u4ThreadCount
    PoolSize,      \* MAX_MESSAGE_POOL
    MaxQueue,      \* m_u4MaxQueue
    HighMark,      \* blocks that reach m_u4HighMask
    Threads,       \* the threads that produce events
    Console,       \* the console thread
    Connections,   \* connect ids; 0 is the id given to most send errors
    Udp,           \* the source of UDP packets, which have no connection
    Feeds,         \* bound: the source, kind and number of the events that a
                   \* thread may raise
    MaxEvents,     \* bound: events per thread and source
    MaxUpdates,    \* bound: broadcasts of an update
    MaxCommands,   \* bound: broadcasts begun before the console's last one
    Stop,          \* an MB_STOP block
    Update,        \* marks an MB_USER block
    Nil

\* The kinds of m_u2Cmd: a packet of the protocol, one of the CLIENT_LINK_*
\* and CLINET_LINK_* events, and the zero a cleared message holds.
Commands == {"packet", "link"}

Sources == Connections \cup {Udp}
Workers == 0 .. WorkerCount - 1
Events == Sources \X Commands \X (1 .. MaxEvents)
Messages == Workers \X (1 .. PoolSize)

\* The threads that send updates: the console thread after a command that
\* changes the modules, and each worker whose reload of a module changed the
\* lists again.  An MB_USER block is known by its sender.
Senders == Workers \cup {Console}
UpdateOf(s) == <<Update, s>>
Updates == {UpdateOf(s) : s \in Senders}

\* m_u4WorkThreadID of a message in use: CreateMessage writes the number of
\* the service whose pool it comes from.
Home(m) == m[1]

ASSUME CountAssumption == /\ WorkerCount \in Nat \ {0}
                          /\ PoolSize \in Nat /\ MaxQueue \in Nat \ {0}
                          /\ HighMark \in Nat \ {0}
                          /\ MaxEvents \in Nat /\ MaxUpdates \in Nat
                          /\ MaxCommands \in Nat
ASSUME SourceAssumption == /\ Connections \subseteq Nat
                           /\ Udp \notin Nat
                           /\ Feeds \in [Threads -> SUBSET Events]
ASSUME ThreadAssumption == IsFiniteSet(Threads)
ASSUME NilAssumption == /\ Nil \notin Messages
                        /\ Stop \notin Messages \cup Updates
                        /\ Update \notin Workers /\ Console \notin Workers
                        /\ Threads \cap Senders = {}

\* A cleared message has the command zero.
Zero == "zero"
Clear == [cmd |-> Zero, thread |-> Nil, source |-> Nil, number |-> 0]
Base == [cmd : Commands, thread : Threads, source : Sources,
         number : 1 .. MaxEvents]

VARIABLES
    pool,      \* m_objHashMessageList of each service: the free messages
    base,      \* m_pMessageBase, with the thread and the running number
    queue,     \* msg_queue() of each service
    active,    \* whether that queue is activated
    pc,        \* of a producing thread, inside PutMessageBlock
    held,      \* its pMessage
    raised,    \* events a thread has had from a source
    step,      \* of a worker, inside svc
    current,   \* its pMessage
    kept,      \* messages a module has taken over with blDeleteFlag = false
    handled,   \* the last event of a thread and source given to the modules
    closer,    \* the thread in CMessageServiceGroup::Close
    closing,   \* the service it closes
    sending,   \* of a sender, inside PutUpdateCommandMessage of the group
    service,   \* its index i: the service it puts the update to
    updates    \* broadcasts begun

producer == <<pc, held, raised>>
worker == <<step, current, kept, handled>>
close == <<closer, closing>>
update == <<sending, service, updates>>
vars == <<pool, base, queue, active, producer, worker, close, update>>

Items == Messages \cup {Stop} \cup Updates

TypeOK ==
    /\ pool \in [Workers -> SUBSET Messages]
    /\ base \in [Messages -> Base \cup {Clear}]
    /\ queue \in [Workers -> Seq(Items)]
    /\ active \in [Workers -> BOOLEAN]
    /\ pc \in [Threads -> {"idle", "count", "put"}]
    /\ held \in [Threads -> Messages \cup {Nil}]
    /\ raised \in [Threads -> [Sources -> 0 .. MaxEvents]]
    /\ step \in [Workers -> {"getq", "process", "account", "stop", "ended"}]
    /\ current \in [Workers -> Messages \cup {Nil}]
    /\ kept \in SUBSET Messages
    /\ handled \in [Threads -> [Sources -> 0 .. MaxEvents]]
    /\ closer \in {"off", "flush", "lock", "put", "wait", "waiting", "woken",
                   "done"}
    /\ closing \in Workers
    /\ sending \in [Senders -> {"idle", "count", "put"}]
    /\ service \in [Senders -> Workers]
    /\ updates \in 0 .. MaxUpdates

Init ==
    /\ pool = [w \in Workers |-> {m \in Messages : Home(m) = w}]
    /\ base = [m \in Messages |-> Clear]
    /\ queue = [w \in Workers |-> << >>]
    /\ active = [w \in Workers |-> TRUE]
    /\ pc = [t \in Threads |-> "idle"]
    /\ held = [t \in Threads |-> Nil]
    /\ raised = [t \in Threads |-> [s \in Sources |-> 0]]
    /\ step = [w \in Workers |-> "getq"]
    /\ current = [w \in Workers |-> Nil]
    /\ kept = {}
    /\ handled = [t \in Threads |-> [s \in Sources |-> 0]]
    /\ closer = "off"
    /\ closing = 0
    /\ sending = [s \in Senders |-> "idle"]
    /\ service = [s \in Senders |-> 0]
    /\ updates = 0

-----------------------------------------------------------------------------
(* Producing threads: CMakePacket::PutMessageBlock and PutSendErrorMessage. *)

\* Every event may go to any worker.
AnyWorker(s) == Workers

\* GetWorkThreadID: one thread per connection, a random one for UDP.
GetWorkThreadID(s) == IF s = Udp THEN Workers ELSE {s % WorkerCount}

\* CreateMessage and SetMessage.  When the pool is empty the packet's blocks
\* are given back and the event is refused.
CreateMessage(t, s, k) ==
    /\ pc[t] = "idle"
    /\ <<s, k, raised[t][s] + 1>> \in Feeds[t]
    /\ raised' = [raised EXCEPT ![t][s] = @ + 1]
    /\ \E w \in GetWorkThreadID(s) :
        \/ /\ pool[w] = {}
           /\ UNCHANGED <<pool, base, pc, held>>
        \/ \E m \in pool[w] :
            /\ pool' = [pool EXCEPT ![w] = @ \ {m}]
            /\ base' = [base EXCEPT ![m] = [cmd |-> k, thread |-> t, source |-> s,
                                            number |-> raised[t][s] + 1]]
            /\ held' = [held EXCEPT ![t] = m]
            /\ pc' = [pc EXCEPT ![t] = "count"]
    /\ UNCHANGED <<queue, active, worker, close, update>>

Return(t) ==
    /\ pc' = [pc EXCEPT ![t] = "idle"]
    /\ held' = [held EXCEPT ![t] = Nil]

\* The queue length is not looked at.
SkipCount(t) ==
    /\ pc[t] = "count"
    /\ pc' = [pc EXCEPT ![t] = "put"]
    /\ UNCHANGED <<pool, base, queue, active, held, raised, worker, close,
                   update>>

\* PutMessage, the test of message_count().  The group's PutMessage answers
\* true whatever the service's says, so nobody deletes a refused message.
CountQueue(t) ==
    /\ pc[t] = "count"
    /\ \/ Len(queue[Home(held[t])]) >= MaxQueue /\ Return(t)
       \/ /\ Len(queue[Home(held[t])]) < MaxQueue
          /\ pc' = [pc EXCEPT ![t] = "put"]
          /\ UNCHANGED held
    /\ UNCHANGED <<pool, base, queue, active, raised, worker, close, update>>

\* PutMessage, the putq: it waits for room under the high water mark until
\* it times out, and fails at once on a deactivated queue.
PutQueue(t) ==
    LET w == Home(held[t])
    IN  /\ pc[t] = "put"
        /\ \/ /\ active[w] /\ Len(queue[w]) < HighMark
              /\ queue' = [queue EXCEPT ![w] = Append(@, held[t])]
           \/ /\ ~active[w] \/ Len(queue[w]) >= HighMark
              /\ UNCHANGED queue
        /\ Return(t)
        /\ UNCHANGED <<pool, base, active, raised, worker, close, update>>

-----------------------------------------------------------------------------
(* Senders of updates: PutUpdateCommandMessage of the group goes through all *)
(* services and gives up at the first that refuses.                          *)

Begin(s) ==
    /\ updates < MaxUpdates
    /\ updates' = updates + 1
    /\ sending' = [sending EXCEPT ![s] = "count"]
    /\ service' = [service EXCEPT ![s] = 0]

GiveUp(s) ==
    /\ sending' = [sending EXCEPT ![s] = "idle"]
    /\ service' = [service EXCEPT ![s] = 0]

NextService(s) ==
    \/ service[s] = WorkerCount - 1 /\ GiveUp(s)
    \/ /\ service[s] < WorkerCount - 1
       /\ sending' = [sending EXCEPT ![s] = "count"]
       /\ service' = [service EXCEPT ![s] = @ + 1]

\* A console command that changes the modules.
ConsoleUpdate ==
    /\ sending[Console] = "idle" /\ updates < MaxCommands
    /\ Begin(Console)
    /\ UNCHANGED <<pool, base, queue, active, producer, worker, close>>

\* PutUpdateCommandMessage of one service, in the two steps of PutMessage.
CountUpdate(s) ==
    /\ sending[s] = "count"
    /\ \/ Len(queue[service[s]]) >= MaxQueue /\ GiveUp(s)
       \/ /\ Len(queue[service[s]]) < MaxQueue
          /\ sending' = [sending EXCEPT ![s] = "put"]
          /\ UNCHANGED service
    /\ UNCHANGED <<pool, base, queue, active, producer, worker, close, updates>>

PutUpdate(s) ==
    LET w == service[s]
    IN  /\ sending[s] = "put"
        /\ \/ /\ active[w] /\ Len(queue[w]) < HighMark
              /\ queue' = [queue EXCEPT ![w] = Append(@, UpdateOf(s))]
              /\ NextService(s)
           \/ /\ ~active[w] \/ Len(queue[w]) >= HighMark
              /\ GiveUp(s)
              /\ UNCHANGED queue
        /\ UNCHANGED <<pool, base, active, producer, worker, close, updates>>

-----------------------------------------------------------------------------
(* A worker: CMessageService::svc and ProcessMessage. *)

\* svc is at getq: not inside ProcessMessage, nor sending an update.
AtQueue(w) ==
    step[w] = "getq" /\ sending[w] = "idle" /\ active[w] /\ queue[w] # << >>

TakeMessage(w) ==
    LET m == Head(queue[w])
    IN  /\ AtQueue(w)
        /\ m \in Messages
        /\ queue' = [queue EXCEPT ![w] = Tail(@)]
        /\ current' = [current EXCEPT ![w] = m]
        /\ step' = [step EXCEPT ![w] = "process"]
        /\ UNCHANGED <<pool, base, active, producer, kept, handled, close,
                       update>>

\* An update leaves svc the way a stop does.
EndOnUpdate(w) ==
    /\ AtQueue(w)
    /\ Head(queue[w]) \in Updates
    /\ queue' = [queue EXCEPT ![w] = Tail(@)]
    /\ step' = [step EXCEPT ![w] = "ended"]
    /\ UNCHANGED <<pool, base, active, producer, current, kept, handled,
                   close, update>>

\* UnloadListUpdate, and a broadcast of its own when it answers 1.
TakeUpdate(w) ==
    /\ AtQueue(w)
    /\ Head(queue[w]) \in Updates
    /\ queue' = [queue EXCEPT ![w] = Tail(@)]
    /\ Begin(w) \/ UNCHANGED update
    /\ UNCHANGED <<pool, base, active, producer, worker, close>>

TakeStop(w) ==
    /\ AtQueue(w)
    /\ Head(queue[w]) = Stop
    /\ queue' = [queue EXCEPT ![w] = Tail(@)]
    /\ step' = [step EXCEPT ![w] = "stop"]
    /\ UNCHANGED <<pool, base, active, producer, current, kept, handled,
                   close, update>>

\* The message is cleared and not pushed back.
ForgetMessage(m) ==
    /\ base' = [base EXCEPT ![m] = Clear]
    /\ UNCHANGED pool

\* CMessagePool::Delete clears the message and pushes it back.
DeleteMessage(m) ==
    /\ base' = [base EXCEPT ![m] = Clear]
    /\ pool' = [pool EXCEPT ![Home(m)] = @ \cup {m}]

\* The refusal does not return, and the message is handled as well.
RefuseAndHandle(w) ==
    /\ step[w] = "process"
    /\ base[current[w]].cmd = "packet"
    /\ DeleteMessage(current[w])
    /\ UNCHANGED <<queue, active, producer, worker, close, update>>

\* ProcessMessage when CWorkThreadAI forbids the command: the busy answer is
\* sent and the message deleted.
RefuseCommand(w) ==
    /\ step[w] = "process"
    /\ base[current[w]].cmd = "packet"
    /\ DeleteMessage(current[w])
    /\ current' = [current EXCEPT ![w] = Nil]
    /\ step' = [step EXCEPT ![w] = "getq"]
    /\ UNCHANGED <<queue, active, producer, kept, handled, close, update>>

\* DoMessage, and DeleteMessage unless a module has cleared blDeleteFlag.
DoMessage(w) ==
    LET m == current[w]
    IN  /\ step[w] = "process"
        /\ handled' = [handled EXCEPT ![base[m].thread][base[m].source] =
                          base[m].number]
        /\ \/ DeleteMessage(m) /\ UNCHANGED kept
           \/ kept' = kept \cup {m} /\ UNCHANGED <<pool, base>>
        /\ step' = [step EXCEPT ![w] = "account"]
        /\ UNCHANGED <<queue, active, producer, current, close, update>>

\* The rest of ProcessMessage reads the message again, which is cleared by now
\* or already in use for another event; what it reads goes into the statistics
\* only, which are left out.
Account(w) ==
    /\ step[w] = "account"
    /\ current' = [current EXCEPT ![w] = Nil]
    /\ step' = [step EXCEPT ![w] = "getq"]
    /\ UNCHANGED <<pool, base, queue, active, producer, kept, handled, close,
                   update>>

-----------------------------------------------------------------------------
(* CMessageServiceGroup::Close: each service in turn runs CloseMsgQueue.    *)
(* The closer holds m_mutex from the lock until it waits on m_cond.         *)

\* svc answers without m_mutex.
NoMutex(w) == TRUE

MutexFree(w) == ~(closing = w /\ closer \in {"put", "wait"})

\* svc on MB_STOP: one critical section that deactivates and signals.
AnswerStop(w) ==
    /\ step[w] = "stop"
    /\ MutexFree(w)
    /\ active' = [active EXCEPT ![w] = FALSE]
    /\ closer' = IF closing = w /\ closer = "waiting" THEN "woken" ELSE closer
    /\ step' = [step EXCEPT ![w] = "ended"]
    /\ UNCHANGED <<pool, base, queue, producer, current,
                   kept, handled, closing, update>>

Close ==
    /\ closer = "off"
    /\ closer' = "flush"
    /\ UNCHANGED <<pool, base, queue, active, producer, worker, closing,
                   update>>

\* A full queue is emptied, whatever it holds.
CloseFlush ==
    /\ closer = "flush"
    /\ queue' = IF Len(queue[closing]) >= HighMark
                THEN [queue EXCEPT ![closing] = << >>] ELSE queue
    /\ closer' = "lock"
    /\ UNCHANGED <<pool, base, active, producer, worker, closing, update>>

CloseLock ==
    /\ closer = "lock"
    /\ closer' = "put"
    /\ UNCHANGED <<pool, base, queue, active, producer, worker, closing,
                   update>>

ClosePut ==
    /\ closer = "put"
    /\ Len(queue[closing]) < HighMark
    /\ queue' = [queue EXCEPT ![closing] = Append(@, Stop)]
    /\ closer' = "wait"
    /\ UNCHANGED <<pool, base, active, producer, worker, closing, update>>

CloseWait ==
    /\ closer = "wait"
    /\ closer' = "waiting"
    /\ UNCHANGED <<pool, base, queue, active, producer, worker, closing,
                   update>>

\* The next service is closed even after the last.
CloseEndPast ==
    /\ closer = "woken"
    /\ pool' = [pool EXCEPT ![closing] = {}]
    /\ closer' = IF closing = WorkerCount THEN "done" ELSE "flush"
    /\ closing' = closing + 1
    /\ UNCHANGED <<base, queue, active, producer, worker, update>>

\* m_MessagePool.Close() after the answer, then the next service.
CloseEnd ==
    /\ closer = "woken"
    /\ pool' = [pool EXCEPT ![closing] = {}]
    /\ \/ /\ closing = WorkerCount - 1
          /\ closer' = "done"
          /\ UNCHANGED closing
       \/ /\ closing < WorkerCount - 1
          /\ closer' = "flush"
          /\ closing' = closing + 1
    /\ UNCHANGED <<base, queue, active, producer, worker, update>>

\* Everything is closed and no event is left.
Finished ==
    /\ closer = "done"
    /\ UNCHANGED vars

Produce(t) ==
    CountQueue(t) \/ PutQueue(t)

Send(s) ==
    CountUpdate(s) \/ PutUpdate(s)

Work(w) ==
    \/ TakeMessage(w) \/ TakeUpdate(w) \/ TakeStop(w)
    \/ RefuseCommand(w) \/ DoMessage(w) \/ Account(w)
    \/ AnswerStop(w)
    \/ Send(w)

CloseStep == CloseFlush \/ CloseLock \/ ClosePut \/ CloseWait \/ CloseEnd

Next ==
    \/ \E t \in Threads, s \in Sources, k \in Commands : CreateMessage(t, s, k)
    \/ \E t \in Threads : Produce(t)
    \/ ConsoleUpdate
    \/ Send(Console)
    \/ \E w \in Workers : Work(w)
    \/ Close \/ CloseStep
    \/ Finished

Spec == Init /\ [][Next]_vars

\* The workers are scheduled, and so is the thread that closes them.  Nothing
\* is asked of the threads that raise events or of the console.
Fairness ==
    /\ \A w \in Workers : WF_vars(Work(w))
    /\ WF_vars(CloseStep)

FairSpec == Spec /\ Fairness

-----------------------------------------------------------------------------
(* Properties. *)

\* The places a message is used from.  A worker that has deleted its message
\* no longer owns it.
Places(m) ==
    {<<"pool", w>> : w \in {v \in Workers : m \in pool[v]}}
    \cup {<<"held", t>> : t \in {u \in Threads : held[u] = m}}
    \cup {<<"worker", w>> :
              w \in {v \in Workers : step[v] = "process" /\ current[v] = m}}
    \cup {<<"kept", 0>> : x \in {1} \cap (IF m \in kept THEN {1} ELSE {})}
    \cup UNION {{<<"queue", w, i>> :
                     i \in {j \in DOMAIN queue[w] : queue[w][j] = m}} : w \in Workers}

\* A message object never has two users: whatever the interleaving of the
\* threads that fill messages, the workers that give them back and the
\* shutdown, it is in one pool, one queue slot or one thread's hands at most.
SingleOwner == \A m \in Messages : \A p, q \in Places(m) : p = q

\* MessageService.h:126: a ConnectID has only one thread.  So the modules get
\* the events one thread raises for a TCP connection in the order it raised
\* them, though some may be missing; nothing is promised for UDP.
InOrder ==
    [][\A t \in Threads, s \in Connections :
           handled'[t][s] >= handled[t][s]]_vars

Putter(i) == IF i \in Messages THEN base[i].thread ELSE i[2]

\* The test of the queue length and the putq are two steps, so the limit can
\* be passed; but each thread, and each sender of updates, workers that send
\* to their own queue included, can put only one block after it last saw room,
\* so a group of threads passes the limit together by one block less than it
\* has members, and one thread never does.
QueueBound ==
    \A w \in Workers, T \in (SUBSET (Threads \cup Senders)) \ {{}} :
        Cardinality({i \in DOMAIN queue[w] :
                        queue[w][i] # Stop /\ Putter(queue[w][i]) \in T})
            <= MaxQueue + Cardinality(T) - 1

Waiting(m) == \E w \in Workers : m \in {queue[w][i] : i \in DOMAIN queue[w]}

\* Somebody has the message or will come to it.
InReach(m) ==
    \/ Waiting(m) \/ m \in pool[Home(m)] \/ m \in kept
    \/ \E t \in Threads : held[t] = m
    \/ \E w \in Workers : step[w] = "process" /\ current[w] = m

\* A message object goes missing only in the hands of a thread that is refused
\* by a full queue, by the test of its length or by the putq, whose refusal
\* nobody acts upon; a worker that deletes, refuses or hands over a message
\* always leaves it somewhere.  A shutdown may empty the queues and the pools.
LostWhenFull ==
    [][\A m \in Messages :
           closer = "off" /\ InReach(m) /\ ~InReach(m)' =>
               /\ \E t \in Threads : held[t] = m
               /\ \/ Len(queue[Home(m)]) >= MaxQueue
                  \/ Len(queue[Home(m)]) >= HighMark]_vars

Backlog(w) == \E m \in Messages : m \in {queue[w][i] : i \in DOMAIN queue[w]}

\* An accepted message does not stay in the queue of a live worker, whatever
\* updates come between: once no more events come, which MaxEvents sees to,
\* the worker has taken every message it was sent.
EventuallyTaken ==
    \A w \in Workers : Backlog(w) ~> (~Backlog(w) \/ closer # "off")

\* Close returns: the answer of a worker is never missed, whatever is in its
\* queue when it is told to stop.
CloseReturns == (closer # "off") ~> (closer = "done")
=============================================================================
