---------------------------- MODULE ConnectHandler ----------------------------
(***************************************************************************)
(* TCP connections: CConnectHandler, its pool and CConnectManager, all of  *)
(* Reactor/ConnectHandler.cpp, between four kinds of threads.              *)
(*                                                                         *)
(*   - the acceptor's reactor takes a handler from the pool for a new      *)
(*     connection, lists it under a new connect id, tells the workers, and *)
(*     registers it with a client reactor (open);                          *)
(*   - the client reactors call a handler's handle_input, handle_output    *)
(*     and handle_close, one upcall of a handler at a time;                *)
(*   - the modules, in the workers, and the timer of the time wheel post   *)
(*     data and close requests for a connect id;                           *)
(*   - the send thread (svc) looks each of these up in the list and puts   *)
(*     it into the queue of the handler, without the lock it looked up     *)
(*     under, and asks for a wakeup of handle_output.                      *)
(*                                                                         *)
(* A closed handler goes back to the pool and carries another connection   *)
(* later.  One manager is modelled: connect ids of different managers have *)
(* nothing in common but the pool.  What becomes of the events raised for  *)
(* the workers is in module MessageService, the wheel in module TimeWheel. *)
(***************************************************************************)
EXTENDS Integers, Sequences, FiniteSets

CONSTANTS
    Handlers,     \* the CConnectHandler objects of the pool
    QueueSize,    \* blocks that make msg_queue() of a handler full
    SendQueue,    \* MAX_MSG_THREADQUEUE of the manager
    MaxConnects,  \* bound: connect ids given
    MaxPosts,     \* bound: requests posted
    MaxPackets,   \* bound: packets received on a connection
    Nil

ASSUME HandlerAssumption == Nil \notin Handlers
ASSUME NumberAssumption == /\ QueueSize \in Nat \ {0} /\ SendQueue \in Nat \ {0}
                           /\ MaxConnects \in Nat /\ MaxPosts \in Nat
                           /\ MaxPackets \in Nat

Connections == 1 .. MaxConnects

\* A posted request: data to send (m_u1Type 0) or a close (m_u1Type 1), for a
\* connect id, numbered in the order of posting.
Requests == [id : Connections, kind : {"data", "close"}, n : 1 .. MaxPosts]

VARIABLES
    pool,      \* m_objHashHandleList of CConnectHandlerPool
    id,        \* m_u4ConnectID, 0 when the handler has none
    state,     \* m_u1ConnectState
    queue,     \* msg_queue() of a handler: data blocks and MB_STOP blocks
    watch,     \* the events the reactor watches the handler for
    opening,   \* where the acceptor is in open
    upcall,    \* where a reactor thread is in the handler
    list,      \* m_objHashConnectList, from connect ids to handlers
    last,      \* m_u4CurrMaxCount, the last connect id given
    sendq,     \* msg_queue() of the manager
    pc,        \* of the send thread, in svc
    job,       \* the request it works on
    target,    \* the handler it has looked up
    posts,     \* requests posted
    events,    \* the events raised for the workers, by connect id
    sent,      \* the requests whose data went out, by connect id
    stopped    \* close requests that reached the queue of a handler

handler == <<id, state, queue, watch, opening, upcall>>
manager == <<list, last>>
sender == <<pc, job, target>>
history == <<events, sent, stopped>>
vars == <<pool, handler, manager, sendq, sender, posts, history>>

TypeOK ==
    /\ pool \in SUBSET Handlers
    /\ id \in [Handlers -> 0 .. MaxConnects]
    /\ state \in [Handlers -> {"init", "open", "server", "client"}]
    /\ queue \in [Handlers -> Seq(Requests)]
    /\ \A h \in Handlers : Len(queue[h]) <= QueueSize
    /\ watch \in [Handlers -> {"none", "read", "both"}]
    /\ opening \in [Handlers -> {"no", "open", "tell", "state", "register",
                                 "cancel", "failed"}]
    /\ upcall \in [Handlers -> {"none", "output", "cancel", "drain", "close",
                                "unlist", "recycle"}]
    /\ list \in [Connections -> Handlers \cup {Nil}]
    /\ last \in 0 .. MaxConnects
    /\ sendq \in Seq(Requests) /\ Len(sendq) <= SendQueue
    /\ pc \in {"idle", "check", "put", "stop", "mark", "wakeup"}
    /\ job \in Requests \cup {Nil}
    /\ target \in Handlers \cup {Nil}
    /\ posts \in 0 .. MaxPosts
    /\ events \in [Connections -> Seq({"connect", "packet", "sendok", "senderror",
                                      "disconnect"})]
    /\ sent \in [Connections -> Seq(Requests)]
    /\ stopped \in SUBSET Requests

Init ==
    /\ pool = Handlers
    /\ id = [h \in Handlers |-> 0]
    /\ state = [h \in Handlers |-> "init"]
    /\ queue = [h \in Handlers |-> << >>]
    /\ watch = [h \in Handlers |-> "none"]
    /\ opening = [h \in Handlers |-> "no"]
    /\ upcall = [h \in Handlers |-> "none"]
    /\ list = [i \in Connections |-> Nil]
    /\ last = 0
    /\ sendq = << >>
    /\ pc = "idle" /\ job = Nil /\ target = Nil
    /\ posts = 0
    /\ events = [i \in Connections |-> << >>]
    /\ sent = [i \in Connections |-> << >>]
    /\ stopped = {}

Raise(i, e) == events' = [events EXCEPT ![i] = Append(@, e)]

Open(h, from, to) ==
    opening[h] = from /\ opening' = [opening EXCEPT ![h] = to]

Upcall(h, from, to) ==
    upcall[h] = from /\ upcall' = [upcall EXCEPT ![h] = to]

-----------------------------------------------------------------------------
(* The acceptor: make_svc_handler and CConnectHandler::open. *)

\* make_svc_handler.
Accept(h) ==
    /\ h \in pool /\ last < MaxConnects
    /\ \A g \in Handlers : opening[g] = "no"
    /\ Open(h, "no", "open")
    /\ pool' = pool \ {h}
    /\ UNCHANGED <<id, state, queue, watch, upcall, manager, sendq, sender,
                   posts, history>>

\* An early return of open: a forbidden address, no memory.  ACE then calls
\* handle_close, on the acceptor's thread.
OpenFails(h) ==
    /\ Open(h, "open", "failed")
    /\ Upcall(h, "none", "drain")
    /\ UNCHANGED <<pool, id, state, queue, watch, manager, sendq, sender,
                   posts, history>>

\* The next connect id; the ids of a run never come round to 0 again.
GetGroupIndex == last + 1

\* The handler is registered before the workers are told of the connection.
AddRegistered(h) ==
    /\ last < MaxConnects
    /\ Open(h, "open", "tell")
    /\ last' = GetGroupIndex
    /\ id' = [id EXCEPT ![h] = GetGroupIndex]
    /\ list' = [list EXCEPT ![GetGroupIndex] = h]
    /\ watch' = [watch EXCEPT ![h] = "read"]
    /\ UNCHANGED <<pool, state, queue, upcall, sendq, sender, posts, history>>

\* CConnectManagerGroup::AddConnect and CConnectManager::AddConnect.
AddConnect(h) ==
    /\ last < MaxConnects
    /\ Open(h, "open", "tell")
    /\ last' = GetGroupIndex
    /\ id' = [id EXCEPT ![h] = GetGroupIndex]
    /\ list' = [list EXCEPT ![GetGroupIndex] = h]
    /\ UNCHANGED <<pool, state, queue, watch, upcall, sendq, sender, posts,
                   history>>

TellConnect(h) ==
    /\ Open(h, "tell", "state")
    /\ Raise(id[h], "connect")
    /\ UNCHANGED <<pool, id, state, queue, watch, upcall, manager, sendq,
                   sender, posts, sent, stopped>>

\* The state is the one the last connection left until here.
SetOpen(h) ==
    /\ Open(h, "state", "register")
    /\ state' = [state EXCEPT ![h] = "open"]
    /\ UNCHANGED <<pool, id, queue, watch, upcall, manager, sendq, sender,
                   posts, history>>

\* register_handler; open returns -1 when it fails.
Register(h) ==
    /\ \/ /\ Open(h, "register", "cancel")
          /\ watch' = [watch EXCEPT ![h] = "both"]
          /\ UNCHANGED upcall
       \/ /\ Open(h, "register", "failed")
          /\ Upcall(h, "none", "drain")
          /\ UNCHANGED watch
    /\ UNCHANGED <<pool, id, state, queue, manager, sendq, sender, posts,
                   history>>

\* cancel_wakeup of the WRITE_MASK: it takes the write event out of the mask
\* of a registered handler.
CancelWrite(h) == watch' = [watch EXCEPT ![h] = IF @ = "both" THEN "read" ELSE @]

OpenCancel(h) ==
    /\ Open(h, "cancel", "no")
    /\ CancelWrite(h)
    /\ UNCHANGED <<pool, id, state, queue, upcall, manager, sendq, sender,
                   posts, history>>

-----------------------------------------------------------------------------
(* The client reactors. *)

\* handle_input with a whole packet.
Input(h) ==
    /\ upcall[h] = "none" /\ watch[h] # "none"
    /\ Cardinality({k \in DOMAIN events[id[h]] : events[id[h]][k] = "packet"})
           < MaxPackets
    /\ Raise(id[h], "packet")
    /\ UNCHANGED <<pool, handler, manager, sendq, sender, posts, sent,
                   stopped>>

\* handle_input finds the peer gone, or a packet past a limit.
InputFails(h) ==
    /\ watch[h] # "none"
    /\ Upcall(h, "none", "drain")
    /\ UNCHANGED <<pool, id, state, queue, watch, opening, manager, sendq,
                   sender, posts, history>>

Output(h) ==
    /\ watch[h] = "both"
    /\ Upcall(h, "none", "output")
    /\ UNCHANGED <<pool, id, state, queue, watch, opening, manager, sendq,
                   sender, posts, history>>

\* handle_output goes on after an MB_STOP block.
SendPastStop(h) ==
    /\ upcall[h] = "output" /\ queue[h] # << >>
    /\ queue' = [queue EXCEPT ![h] = Tail(@)]
    /\ sent' = IF Head(queue[h]).kind = "close" THEN sent
               ELSE [sent EXCEPT ![id[h]] = Append(@, Head(queue[h]))]
    /\ UNCHANGED <<pool, id, state, watch, opening, upcall, manager, sendq,
                   sender, posts, events, stopped>>

\* PutSendPacket: the block goes out, and the worker hears of it when the
\* module has asked for that; or the write fails or a limit is passed, and the
\* worker is told unless the block is empty or no message is left for it.
PutSendPacket(h) ==
    \/ /\ sent' = [sent EXCEPT ![id[h]] = Append(@, Head(queue[h]))]
       /\ UNCHANGED events \/ Raise(id[h], "sendok")
       /\ UNCHANGED upcall
    \/ /\ upcall' = [upcall EXCEPT ![h] = "drain"]
       /\ UNCHANGED events \/ Raise(id[h], "senderror")
       /\ UNCHANGED sent

\* One turn of the loop of handle_output.  After an MB_STOP block or a failed
\* write it returns -1, and the reactor calls handle_close.
Send(h) ==
    /\ upcall[h] = "output" /\ queue[h] # << >>
    /\ queue' = [queue EXCEPT ![h] = Tail(@)]
    /\ \/ Head(queue[h]).kind = "data" /\ PutSendPacket(h)
       \/ /\ Head(queue[h]).kind = "close"
          /\ upcall' = [upcall EXCEPT ![h] = "drain"]
          /\ UNCHANGED <<events, sent>>
    /\ UNCHANGED <<pool, id, state, watch, opening, manager, sendq, sender,
                   posts, stopped>>

SendEmpty(h) ==
    /\ queue[h] = << >>
    /\ Upcall(h, "output", "cancel")
    /\ UNCHANGED <<pool, id, state, queue, watch, opening, manager, sendq,
                   sender, posts, history>>

OutputCancel(h) ==
    /\ Upcall(h, "cancel", "none")
    /\ CancelWrite(h)
    /\ UNCHANGED <<pool, id, state, queue, opening, manager, sendq, sender,
                   posts, history>>

\* handle_close: the state, and the queue emptied.
HandleClose(h) ==
    /\ Upcall(h, "drain", "close")
    /\ state' = [state EXCEPT ![h] = IF @ = "server" THEN @ ELSE "client"]
    /\ queue' = [queue EXCEPT ![h] = << >>]
    /\ UNCHANGED <<pool, id, watch, opening, manager, sendq, sender, posts,
                   history>>

\* CConnectHandler::Close, up to shutdown: the workers are told, for the id 0
\* when open had not come to AddConnect.
CloseConnection(h) ==
    /\ Upcall(h, "close", "unlist")
    /\ \/ id[h] # 0 /\ Raise(id[h], "disconnect")
       \/ id[h] = 0 /\ UNCHANGED events
    /\ watch' = [watch EXCEPT ![h] = "none"]
    /\ UNCHANGED <<pool, id, state, queue, opening, manager, sendq, sender,
                   posts, sent, stopped>>

\* The entry of the list stays.
UnlistNothing(h) ==
    /\ Upcall(h, "unlist", "recycle")
    /\ UNCHANGED <<pool, id, state, queue, watch, opening, manager, sendq,
                   sender, posts, history>>

\* CloseConnectByClient: Del_Hash_Data under the lock of the manager.
Unlist(h) ==
    /\ Upcall(h, "unlist", "recycle")
    /\ list' = [i \in Connections |-> IF i = id[h] THEN Nil ELSE list[i]]
    /\ UNCHANGED <<pool, id, state, queue, watch, opening, last, sendq, sender,
                   posts, history>>

\* The id is cleared and the handler goes back to the pool, with whatever its
\* queue holds.
Recycle(h) ==
    /\ Upcall(h, "recycle", "none")
    /\ id' = [id EXCEPT ![h] = 0]
    /\ pool' = pool \cup {h}
    /\ opening' = [opening EXCEPT ![h] = IF @ = "failed" THEN "no" ELSE @]
    /\ UNCHANGED <<state, queue, watch, manager, sendq, sender, posts,
                   history>>

-----------------------------------------------------------------------------
(* The modules may post for any connect id they have heard of, whether it   *)
(* is still open or not, and the timer of the time wheel posts closes.      *)

\* The request is put unless the queue of the manager is full.
Posted(i, kind) ==
    /\ posts < MaxPosts
    /\ events[i] # << >>
    /\ Len(sendq) < SendQueue
    /\ posts' = posts + 1
    /\ sendq' = Append(sendq, [id |-> i, kind |-> kind, n |-> posts + 1])
    /\ UNCHANGED <<pool, handler, manager, sender, history>>

\* PostMessage of the group and of the manager.
PostMessage(i) == Posted(i, "data")

CloseConnect_By_Queue(i) == Posted(i, "close")

-----------------------------------------------------------------------------
(* The send thread: CConnectManager::svc. *)

Idle == pc' = "idle" /\ job' = Nil /\ target' = Nil

\* The handler is looked up under the lock and used after its release.
Lookup(r, next) ==
    \/ list[r.id] = Nil /\ Idle
    \/ /\ list[r.id] # Nil
       /\ job' = r
       /\ target' = list[r.id]
       /\ pc' = next

\* SendMessage of the manager.  Data for a connection that is gone goes back to
\* the workers as a send error of connect id 0.
SendMessage(r) == r.kind = "data" /\ Lookup(r, "check")

\* CloseConnect of the manager.
CloseConnect(r) == r.kind = "close" /\ Lookup(r, "stop")

Take ==
    /\ pc = "idle" /\ sendq # << >>
    /\ sendq' = Tail(sendq)
    /\ SendMessage(Head(sendq)) \/ CloseConnect(Head(sendq))
    /\ UNCHANGED <<pool, handler, manager, posts, history>>

\* SendMessage of the handler: its state, and CheckSendMask, which may refuse
\* the data.  m_u1IsActive is not looked at: it is 1 since the first open.
Check ==
    /\ pc = "check"
    /\ \/ Idle
       \/ /\ state[target] \notin {"server", "client"}
          /\ pc' = "put"
          /\ UNCHANGED <<job, target>>
    /\ UNCHANGED <<pool, handler, manager, sendq, posts, history>>

Full(h) == Len(queue[h]) >= QueueSize

\* The queue is not looked at.
PutUnchecked ==
    /\ pc = "put"
    /\ queue' = [queue EXCEPT ![target] = Append(@, job)]
    /\ pc' = "wakeup"
    /\ UNCHANGED <<pool, id, state, watch, opening, upcall, manager, sendq,
                   job, target, posts, history>>

\* The data goes in front of the queue.
PutFirst ==
    /\ pc = "put"
    /\ ~Full(target)
    /\ queue' = [queue EXCEPT ![target] = <<job>> \o @]
    /\ pc' = "wakeup"
    /\ UNCHANGED <<pool, id, state, watch, opening, upcall, manager, sendq,
                   job, target, posts, history>>

Put ==
    /\ pc = "put"
    /\ \/ Full(target) /\ Idle /\ UNCHANGED queue
       \/ /\ ~Full(target)
          /\ queue' = [queue EXCEPT ![target] = Append(@, job)]
          /\ pc' = "wakeup"
          /\ UNCHANGED <<job, target>>
    /\ UNCHANGED <<pool, id, state, watch, opening, upcall, manager, sendq,
                   posts, history>>

\* SendCloseMessage: the MB_STOP block, and then the state.
PutStop ==
    /\ pc = "stop"
    /\ \/ Full(target) /\ Idle /\ UNCHANGED <<queue, stopped>>
       \/ /\ ~Full(target)
          /\ queue' = [queue EXCEPT ![target] = Append(@, job)]
          /\ stopped' = stopped \cup {job}
          /\ pc' = "mark"
          /\ UNCHANGED <<job, target>>
    /\ UNCHANGED <<pool, id, state, watch, opening, upcall, manager, sendq,
                   posts, events, sent>>

Mark ==
    /\ pc = "mark"
    /\ state' = [state EXCEPT ![target] = "server"]
    /\ pc' = "wakeup"
    /\ UNCHANGED <<pool, id, queue, watch, opening, upcall, manager, sendq,
                   job, target, posts, history>>

\* schedule_wakeup: nothing happens for a handler that is not registered.
Wakeup ==
    /\ pc = "wakeup"
    /\ watch' = [watch EXCEPT ![target] = IF @ = "none" THEN @ ELSE "both"]
    /\ Idle
    /\ UNCHANGED <<pool, id, state, queue, opening, upcall, manager, sendq,
                   posts, history>>

-----------------------------------------------------------------------------
Acceptor(h) ==
    \/ OpenFails(h) \/ AddConnect(h) \/ TellConnect(h) \/ SetOpen(h)
    \/ Register(h) \/ OpenCancel(h)

Reactor(h) ==
    \/ Output(h) \/ Send(h) \/ SendEmpty(h) \/ OutputCancel(h)
    \/ HandleClose(h) \/ CloseConnection(h) \/ Unlist(h) \/ Recycle(h)

SendThread == Take \/ Check \/ Put \/ PutStop \/ Mark \/ Wakeup

Next ==
    \/ \E h \in Handlers :
           Accept(h) \/ Input(h) \/ InputFails(h) \/ Acceptor(h) \/ Reactor(h)
    \/ \E i \in Connections : PostMessage(i) \/ CloseConnect_By_Queue(i)
    \/ SendThread

Spec == Init /\ [][Next]_vars

\* The threads are scheduled and peers read what is sent to them; peers
\* connect, send and leave, and modules post, as they like.
FairSpec ==
    /\ Spec
    /\ \A h \in Handlers : WF_vars(Acceptor(h)) /\ WF_vars(Reactor(h))
    /\ WF_vars(SendThread)

-----------------------------------------------------------------------------
(* Properties. *)

\* A handler in the pool belongs to nobody: it is not listed, not watched and
\* in no upcall; and a listed handler carries the connect id it is listed
\* under.  Close gives the handler back at its very end, while the acceptor
\* may already wait for one.
HandlerOwned ==
    /\ \A h \in pool : /\ id[h] = 0 /\ watch[h] = "none" /\ upcall[h] = "none"
                       /\ \A i \in Connections : list[i] # h
    /\ \A i \in Connections : list[i] # Nil => id[list[i]] = i

\* The events raised for a connect id are one connect, then packets and answers
\* to what was sent, then one disconnect, though the acceptor raises the first
\* and a reactor the others.
EventsInOrder ==
    \A i \in Connections : \A k \in DOMAIN events[i] :
        /\ events[i][k] = "connect" <=> k = 1
        /\ events[i][k] = "disconnect" => k = Len(events[i])

\* Data posted for one connection goes out in the order it was posted.
SendOrder ==
    \A i \in Connections : \A j, k \in DOMAIN sent[i] :
        j < k /\ sent[i][j].id = sent[i][k].id => sent[i][j].n < sent[i][k].n

\* ConnectHandler.cpp:1224: when a close is in the queue, no data posted after
\* it for that connection is sent to it, even if open overwrites the state
\* the close has set.
NothingAfterStop ==
    \A i \in Connections : \A k \in DOMAIN sent[i] : \A c \in stopped :
        c.id = i /\ sent[i][k].id = i => sent[i][k].n < c.n

\* ConnectHandler.cpp:1203: when another thread has closed the connection,
\* nothing is done with the data.  So data reaches only the connection it was
\* posted for.
SentToOwner ==
    \A i \in Connections : \A k \in DOMAIN sent[i] : sent[i][k].id = i

\* ConnectHandler.cpp:1418: what is put into the queue is sent by
\* handle_output on the reactor's thread.  So the queue of a registered
\* handler does not stay as it is.
Waiting(h) == queue[h] # << >> /\ watch[h] # "none"

Flushed == \A h \in Handlers : Waiting(h) ~> ~Waiting(h)
=============================================================================
