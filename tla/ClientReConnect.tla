---------------------------- MODULE ClientReConnect ----------------------------
(***************************************************************************)
(* Outgoing TCP connections: CClientReConnectManager with its              *)
(* CReactorClientInfo records (Reactor/ClientReConnectManager.cpp) and the *)
(* CConnectClient objects (Reactor/ConnectClient.cpp).                     *)
(*                                                                         *)
(* A module connects to a server by a number of its own.  The manager      *)
(* lists a record for it, and the record points to the client object that  *)
(* carries the connection, if there is one.  When the connection breaks    *)
(* the client clears the pointer and deletes itself; a timer, or the next  *)
(* SendData, makes a new client.                                           *)
(*                                                                         *)
(* m_ThreadWritrLock of the manager and m_ThreadLock of each client are    *)
(* recursive.  Modules take the manager's first and then a client's.  The  *)
(* timer makes clients without the manager's lock, and a client that opens *)
(* or hands data to its module asks for it with its own lock in hand.      *)
(*                                                                         *)
(* CReactorClientInfo::Run keeps the client it makes in the pointer of the *)
(* record only, and reads that pointer again for every step up to open; in *)
(* between another thread may have replaced or cleared it.  A step that    *)
(* goes through a NULL pointer ends the process.  A step that goes through *)
(* a deleted client finds it as it was left, unless the address has been   *)
(* given to a new one.                                                     *)
(*                                                                         *)
(* Left out: DeleteIClientMessage and the Close of the whole manager,      *)
(* which free records; UDP; the formatting of data; GetTimeout, for which  *)
(* the timer reads a pointer again that it has found set.  A connect       *)
(* blocks.                                                                 *)
(***************************************************************************)
EXTENDS Integers, Sequences, FiniteSets

CONSTANTS
    Servers,       \* numbers the modules give to servers
    Infos,         \* CReactorClientInfo objects
    Clients,       \* addresses of CConnectClient objects
    Modules,       \* threads of modules that call the manager
    Reactor,       \* the thread of the clients' reactor
    Timer,         \* the thread of m_ActiveTimer
    HighMark,      \* blocks that reach MAX_MSG_MASK
    MaxOps,        \* bound: calls of the manager by modules
    MaxRefusals,   \* bound: connects that fail
    MaxDrops,      \* bound: connections the servers end
    Data, Stop, Nil

Callers == Modules \cup {Reactor}
Threads == Callers \cup {Timer}
Operations == {"Connect", "SendData", "ReConnect", "Close"}

ASSUME ThreadAssumption == Reactor \notin Modules /\ Timer \notin Callers
ASSUME NilAssumption == /\ Nil \notin Infos \cup Clients \cup Threads
                        /\ Nil \notin Servers \cup Operations /\ Data # Stop
ASSUME BoundAssumption == /\ HighMark \in Nat /\ MaxOps \in Nat
                          /\ MaxRefusals \in Nat /\ MaxDrops \in Nat

VARIABLES
    listed,     \* m_objClientTCPList
    used,       \* records that have been made
    serves,     \* m_nServerID of a record
    client,     \* m_pConnectClient of a record
    state,      \* m_emConnectState of a record
    disturbed,  \* history: the pointer was changed under a thread in Run
    life,       \* of a client: "free" before new and after delete, "new" until
                \* open, then "open", or "deaf" if no module is behind it
    home,       \* m_nServerID of a client
    closing,    \* m_u1ConnectState = CONNECT_CLIENT_CLOSE
    out,        \* msg_queue() of a client
    watch,      \* events the reactor watches for a client
    manager,    \* owner of m_ThreadWritrLock
    owner,      \* owner of m_ThreadLock of a client
    pc, op,     \* of a thread, and the call of the manager it is in
    server, record, hand,   \* its nServerID, pClientInfo, and the client whose
                            \* code it is in
    upcall,     \* the client whose handler the reactor runs
    todo,       \* vecCReactorClientInfo of handle_timeout
    ops, refusals, drops

records == <<listed, used, serves, client, state, disturbed>>
clients == <<life, home, closing, out, watch>>
locks == <<manager, owner>>
threads == <<pc, op, server, record, hand, upcall, todo>>
bounds == <<ops, refusals, drops>>
vars == <<records, clients, locks, threads, bounds>>

\* Between the new and the read of the pointer for open.
Dialling == {"number", "dial", "connect"}
Opening == {"open", "message", "register", "cancel"}
InsideRun == {"run", "new", "refused", "failed", "opened"} \cup Dialling \cup Opening
Points == InsideRun \cup {"idle", "enter", "send", "shut", "tick", "recv",
                          "output", "empty", "close", "crash"}

TypeOK ==
    /\ listed \in [Servers -> Infos \cup {Nil}]
    /\ used \in SUBSET Infos
    /\ serves \in [Infos -> Servers \cup {Nil}]
    /\ client \in [Infos -> Clients \cup {Nil}]
    /\ state \in [Infos -> {"READY", "OK", "FAIL"}]
    /\ disturbed \in BOOLEAN
    /\ life \in [Clients -> {"free", "new", "open", "deaf"}]
    /\ home \in [Clients -> Servers \cup {Nil}]
    /\ closing \in [Clients -> BOOLEAN]
    /\ out \in [Clients -> Seq({Data, Stop})]
    /\ watch \in [Clients -> SUBSET {"read", "write"}]
    /\ manager \in Callers \cup {Nil, Timer}
    /\ owner \in [Clients -> Threads \cup {Nil}]
    /\ pc \in [Threads -> Points]
    /\ op \in [Threads -> Operations \cup {Nil}]
    /\ server \in [Threads -> Servers \cup {Nil}]
    /\ record \in [Threads -> Infos \cup {Nil}]
    /\ hand \in [Threads -> Clients \cup {Nil}]
    /\ upcall \in Clients \cup {Nil}
    /\ todo \in SUBSET Infos
    /\ ops \in 0 .. MaxOps /\ refusals \in 0 .. MaxRefusals
    /\ drops \in 0 .. MaxDrops

Init ==
    /\ listed = [s \in Servers |-> Nil]
    /\ used = {}
    /\ serves = [i \in Infos |-> Nil]
    /\ client = [i \in Infos |-> Nil]
    /\ state = [i \in Infos |-> "READY"]
    /\ disturbed = FALSE
    /\ life = [c \in Clients |-> "free"]
    /\ home = [c \in Clients |-> Nil]
    /\ closing = [c \in Clients |-> FALSE]
    /\ out = [c \in Clients |-> << >>]
    /\ watch = [c \in Clients |-> {}]
    /\ manager = Nil
    /\ owner = [c \in Clients |-> Nil]
    /\ pc = [t \in Threads |-> "idle"]
    /\ op = [t \in Threads |-> Nil]
    /\ server = [t \in Threads |-> Nil]
    /\ record = [t \in Threads |-> Nil]
    /\ hand = [t \in Threads |-> Nil]
    /\ upcall = Nil
    /\ todo = {}
    /\ ops = 0 /\ refusals = 0 /\ drops = 0

-----------------------------------------------------------------------------
(* Locks and steps. *)

Managing(t) == manager \in {Nil, t}
Owning(t, c) == owner[c] \in {Nil, t}

Go(t, to) == pc' = [pc EXCEPT ![t] = to]

\* Back from a call of the manager, to the module's code or to the handler
\* of the reactor that called it, or to the loop of the timer.
Return(t) ==
    /\ Go(t, IF t = Timer THEN "tick" ELSE IF t = Reactor THEN "recv" ELSE "idle")
    /\ op' = [op EXCEPT ![t] = Nil]
    /\ server' = [server EXCEPT ![t] = Nil]
    /\ record' = [record EXCEPT ![t] = Nil]
    /\ hand' = [hand EXCEPT ![t] = Nil]
    /\ manager' = IF t = Timer THEN manager ELSE Nil

-----------------------------------------------------------------------------
(* Calls of the manager, by a thread of a module or in a handler of the     *)
(* reactor.                                                                 *)

Call(t, o, s) ==
    /\ pc[t] = IF t = Reactor THEN "recv" ELSE "idle"
    /\ t = Reactor => life[upcall] = "open"
    /\ ops < MaxOps
    /\ ops' = ops + 1
    /\ Go(t, "enter")
    /\ op' = [op EXCEPT ![t] = o]
    /\ server' = [server EXCEPT ![t] = s]
    /\ UNCHANGED <<records, clients, locks, record, hand, upcall, todo,
                   refusals, drops>>

Enter(t, o) == pc[t] = "enter" /\ op[t] = o /\ Managing(t)

\* Connect up to Run: ConnectTcpInit makes a record and lists it, unless there
\* is one.
Connect(t) ==
    /\ Enter(t, "Connect")
    /\ \/ /\ listed[server[t]] # Nil
          /\ Return(t)
          /\ UNCHANGED records
       \/ /\ listed[server[t]] = Nil
          /\ \E i \in Infos \ used :
              /\ used' = used \cup {i}
              /\ serves' = [serves EXCEPT ![i] = server[t]]
              /\ listed' = [listed EXCEPT ![server[t]] = i]
              /\ record' = [record EXCEPT ![t] = i]
          /\ Go(t, "run")
          /\ manager' = t
          /\ UNCHANGED <<client, state, disturbed, op, server, hand>>
    /\ UNCHANGED <<clients, owner, upcall, todo, bounds>>

\* SendData up to Run or the client's SendData.  The pointer is tested and
\* then read again; with the manager's lock held it is not cleared in between.
SendData(t) ==
    LET i == listed[server[t]]
    IN  /\ Enter(t, "SendData")
        /\ \/ i = Nil /\ Return(t)
           \/ /\ i # Nil
              /\ manager' = t
              /\ record' = [record EXCEPT ![t] = i]
              /\ hand' = [hand EXCEPT ![t] = client[i]]
              /\ Go(t, IF client[i] = Nil THEN "run" ELSE "send")
              /\ UNCHANGED <<op, server>>
        /\ UNCHANGED <<records, clients, owner, upcall, todo, bounds>>

\* ReConnect up to Run.
ReConnect(t) ==
    LET i == listed[server[t]]
    IN  /\ Enter(t, "ReConnect")
        /\ \/ i = Nil /\ Return(t)
           \/ i # Nil /\ client[i] # Nil /\ Return(t)
           \/ /\ i # Nil /\ client[i] = Nil
              /\ manager' = t
              /\ record' = [record EXCEPT ![t] = i]
              /\ Go(t, "run")
              /\ UNCHANGED <<op, server, hand>>
        /\ UNCHANGED <<records, clients, owner, upcall, todo, bounds>>

\* Close up to ClientClose, with the pointer tested and read in the same way.
\* The record leaves the list and is not deleted.
Close(t) ==
    LET i == listed[server[t]]
    IN  /\ Enter(t, "Close")
        /\ \/ i = Nil /\ Return(t) /\ UNCHANGED listed
           \/ /\ i # Nil /\ client[i] = Nil
              /\ listed' = [listed EXCEPT ![server[t]] = Nil]
              /\ Return(t)
           \/ /\ i # Nil /\ client[i] # Nil
              /\ manager' = t
              /\ hand' = [hand EXCEPT ![t] = client[i]]
              /\ Go(t, "shut")
              /\ UNCHANGED <<listed, op, server, record>>
        /\ UNCHANGED <<used, serves, client, state, disturbed, clients, owner,
                       upcall, todo, bounds>>

\* schedule_wakeup of a client that is registered.
Wakeup(c) == IF watch[c] = {} THEN watch ELSE [watch EXCEPT ![c] = @ \cup {"write"}]

\* CConnectClient::SendData: refused while the client is closing, has no
\* handle yet, or has a full queue.
Put(t) ==
    LET c == hand[t]
    IN  /\ pc[t] = "send"
        /\ Owning(t, c)
        /\ \/ /\ closing[c] \/ life[c] = "new" \/ Len(out[c]) >= HighMark
              /\ UNCHANGED <<out, watch>>
           \/ /\ ~closing[c] /\ Len(out[c]) < HighMark
              /\ out' = [out EXCEPT ![c] = Append(@, Data)]
              /\ watch' = Wakeup(c)
        /\ Return(t)
        /\ UNCHANGED <<records, life, home, closing, owner, upcall, todo,
                       bounds>>

\* ClientClose, which gives up when the queue is full, and the end of Close.
ClientClose(t) ==
    LET c == hand[t]
    IN  /\ pc[t] = "shut"
        /\ Owning(t, c)
        /\ \/ Len(out[c]) >= HighMark /\ UNCHANGED <<out, closing, watch>>
           \/ /\ Len(out[c]) < HighMark
              /\ out' = [out EXCEPT ![c] = Append(@, Stop)]
              /\ closing' = [closing EXCEPT ![c] = TRUE]
              /\ watch' = Wakeup(c)
        /\ listed' = [listed EXCEPT ![server[t]] = Nil]
        /\ Return(t)
        /\ UNCHANGED <<used, serves, client, state, disturbed, life, home,
                       owner, upcall, todo, bounds>>

-----------------------------------------------------------------------------
(* CReactorClientInfo::Run and the connector, by a caller or the timer.     *)

\* A client that was opened for an earlier record of the server can be behind
\* the new one already.  Connect then deletes the record and calls Close, which
\* finds it in the list still: what it reads there is what the record held.
RunRefused(t) ==
    /\ pc[t] = "run"
    /\ client[record[t]] # Nil
    /\ \/ /\ op[t] = "Connect"
          /\ Go(t, "enter")
          /\ op' = [op EXCEPT ![t] = "Close"]
          /\ UNCHANGED <<manager, server, record, hand>>
       \/ op[t] # "Connect" /\ Return(t)
    /\ UNCHANGED <<records, clients, owner, upcall, todo, bounds>>

Run(t) ==
    /\ pc[t] = "run"
    /\ client[record[t]] = Nil
    /\ Go(t, "new")
    /\ UNCHANGED <<records, clients, locks, op, server, record, hand, upcall,
                   todo, bounds>>

\* Another thread is in Run for this record and has yet to read its pointer.
Disturbs(t, i) == \E u \in Threads \ {t} : pc[u] \in Dialling /\ record[u] = i

\* new CConnectClient into the pointer of a record.
Construct(t, i) ==
    /\ \E c \in Clients :
        /\ life[c] = "free"
        /\ life' = [life EXCEPT ![c] = "new"]
        /\ home' = [home EXCEPT ![c] = Nil]
        /\ closing' = [closing EXCEPT ![c] = FALSE]
        /\ out' = [out EXCEPT ![c] = << >>]
        /\ owner' = [owner EXCEPT ![c] = Nil]
        /\ client' = [client EXCEPT ![i] = c]
    /\ disturbed' = (disturbed \/ Disturbs(t, i))

NewClient(t) ==
    /\ pc[t] = "new"
    /\ Construct(t, record[t])
    /\ Go(t, "number")
    /\ UNCHANGED <<listed, used, serves, state, watch, manager, op, server,
                   record, hand, upcall, todo, bounds>>

\* SetServerID and reactor, on what the pointer leads to now.
SetServerID(t) ==
    LET c == client[record[t]]
    IN  /\ pc[t] = "number"
        /\ \/ c = Nil /\ Go(t, "crash") /\ UNCHANGED home
           \/ /\ c # Nil
              /\ home' = [home EXCEPT ![c] = serves[record[t]]]
              /\ Go(t, "dial")
        /\ UNCHANGED <<records, life, closing, out, watch, locks, op, server,
                       record, hand, upcall, todo, bounds>>

\* connect has the pointer by reference and makes a client if it is NULL.
MakeHandler(t) ==
    /\ pc[t] = "dial"
    /\ \/ /\ client[record[t]] # Nil
          /\ UNCHANGED <<client, disturbed, life, home, closing, out, owner>>
       \/ /\ client[record[t]] = Nil
          /\ Construct(t, record[t])
    /\ Go(t, "connect")
    /\ UNCHANGED <<listed, used, serves, state, watch, manager, op, server,
                   record, hand, upcall, todo, bounds>>

\* The connection is made, and the client that the pointer leads to now is
\* opened.
Connected(t) ==
    LET c == client[record[t]]
    IN  /\ pc[t] = "connect"
        /\ \/ c = Nil /\ Go(t, "crash") /\ UNCHANGED hand
           \/ c # Nil /\ Go(t, "open") /\ hand' = [hand EXCEPT ![t] = c]
        /\ UNCHANGED <<records, clients, locks, op, server, record, upcall,
                       todo, bounds>>

\* The connect, or an open before SetHandler, fails, and the client that the
\* pointer leads to now is closed.  Two threads that connect one client can
\* make each other fail, which the bound does not count.
ConnectFails(t) ==
    LET c == client[record[t]]
    IN  /\ pc[t] = "connect"
        /\ \/ disturbed /\ UNCHANGED refusals
           \/ refusals < MaxRefusals /\ refusals' = refusals + 1
        /\ \/ c = Nil /\ Go(t, "failed") /\ UNCHANGED hand
           \/ c # Nil /\ Go(t, "refused") /\ hand' = [hand EXCEPT ![t] = c]
        /\ UNCHANGED <<records, clients, locks, op, server, record, upcall,
                       todo, ops, drops>>

\* A client whose number was never set finds no record.
Record(c) == IF home[c] = Nil THEN Nil ELSE listed[home[c]]

\* The pointer of the record is left alone.
VanishSilently(t, c) ==
    /\ Owning(t, c) /\ Managing(t)
    /\ life' = [life EXCEPT ![c] = "free"]
    /\ watch' = [watch EXCEPT ![c] = {}]
    /\ UNCHANGED <<records, home, closing, out>>

\* The lock of the manager is not taken.
VanishUnlocked(t, c) ==
    /\ Owning(t, c)
    /\ IF Record(c) = Nil THEN UNCHANGED <<client, state>>
       ELSE /\ client' = [client EXCEPT ![Record(c)] = Nil]
            /\ state' = [state EXCEPT ![Record(c)] = "FAIL"]
    /\ disturbed' = (disturbed \/ Disturbs(t, Record(c)))
    /\ life' = [life EXCEPT ![c] = "free"]
    /\ watch' = [watch EXCEPT ![c] = {}]
    /\ UNCHANGED <<listed, used, serves, home, closing, out>>

\* CConnectClient::Close after it has left its own lock: CloseByClient, which
\* looks the record up by the number of the server, and delete.
Vanish(t, c) ==
    /\ Owning(t, c) /\ Managing(t)
    /\ IF Record(c) = Nil THEN UNCHANGED <<client, state>>
       ELSE /\ client' = [client EXCEPT ![Record(c)] = Nil]
            /\ state' = [state EXCEPT ![Record(c)] = "FAIL"]
    /\ disturbed' = (disturbed \/ Disturbs(t, Record(c)))
    /\ life' = [life EXCEPT ![c] = "free"]
    /\ watch' = [watch EXCEPT ![c] = {}]
    /\ UNCHANGED <<listed, used, serves, home, closing, out>>

Refused(t) ==
    /\ pc[t] = "refused"
    /\ Vanish(t, hand[t])
    /\ Go(t, "failed")
    /\ UNCHANGED <<locks, op, server, record, hand, upcall, todo, bounds>>

Become(c, how) == IF life[c] = "free" THEN life ELSE [life EXCEPT ![c] = how]

\* open with SetHandler, which takes no lock of the manager.
Open(t) ==
    LET c == hand[t]
        i == Record(c)
    IN  /\ pc[t] = "open"
        /\ Owning(t, c)
        /\ owner' = [owner EXCEPT ![c] = t]
        /\ life' = Become(c, "open")
        /\ closing' = [closing EXCEPT ![c] = FALSE]
        /\ client' = IF i = Nil THEN client ELSE [client EXCEPT ![i] = c]
        /\ disturbed' = (disturbed \/ Disturbs(t, i))
        /\ Go(t, "message")
        /\ UNCHANGED <<listed, used, serves, state, home, out, watch, manager,
                       op, server, record, hand, upcall, todo, bounds>>

\* open, GetClientMessage: a record that had failed is said to be connected
\* again.  Nobody is behind a client whose server is not listed any more.
GetClientMessage(t) ==
    LET c == hand[t]
        i == Record(c)
    IN  /\ pc[t] = "message"
        /\ Managing(t)
        /\ state' = IF i # Nil /\ state[i] = "FAIL" THEN [state EXCEPT ![i] = "OK"]
                    ELSE state
        /\ life' = IF i = Nil THEN Become(c, "deaf") ELSE life
        /\ Go(t, "register")
        /\ UNCHANGED <<listed, used, serves, client, disturbed, home, closing,
                       out, watch, locks, op, server, record, hand, upcall,
                       todo, bounds>>

\* open, register_handler and then cancel_wakeup.
Register(t) ==
    /\ pc[t] = "register"
    /\ watch' = [watch EXCEPT ![hand[t]] = {"read", "write"}]
    /\ Go(t, "cancel")
    /\ UNCHANGED <<records, life, home, closing, out, locks, op, server,
                   record, hand, upcall, todo, bounds>>

CancelWakeup(t) ==
    LET c == hand[t]
    IN  /\ pc[t] = "cancel"
        /\ watch' = [watch EXCEPT ![c] = @ \ {"write"}]
        /\ owner' = [owner EXCEPT ![c] = Nil]
        /\ Go(t, "opened")
        /\ UNCHANGED <<records, life, home, closing, out, manager, op, server,
                       record, hand, upcall, todo, bounds>>

\* The end of Run writes down how the connect went, for the timer without a
\* lock.
EndRun(t) ==
    /\ pc[t] \in {"failed", "opened"}
    /\ state' = [state EXCEPT ![record[t]] = IF pc[t] = "failed" THEN "FAIL" ELSE "OK"]
    /\ Return(t)
    /\ UNCHANGED <<listed, used, serves, client, disturbed, clients, owner,
                   upcall, todo, bounds>>

-----------------------------------------------------------------------------
(* The timer: handle_timeout.                                               *)

\* The unused places of the list are collected too.
TickBeginAll ==
    /\ pc[Timer] = "idle"
    /\ manager = Nil
    /\ todo' = {listed[s] : s \in Servers}
    /\ Go(Timer, "tick")
    /\ UNCHANGED <<records, clients, locks, op, server, record, hand, upcall,
                   bounds>>

\* The records are collected under the lock.
TickBegin ==
    /\ pc[Timer] = "idle"
    /\ manager = Nil
    /\ todo' = {listed[s] : s \in Servers} \ {Nil}
    /\ Go(Timer, "tick")
    /\ UNCHANGED <<records, clients, locks, op, server, record, hand, upcall,
                   bounds>>

\* A server that could not be reached is not tried again.
TickUnlessFailed(i) ==
    /\ pc[Timer] = "tick"
    /\ todo' = todo \ {i}
    /\ \/ /\ client[i] # Nil \/ state[i] = "FAIL"
          /\ UNCHANGED <<pc, record>>
       \/ /\ client[i] = Nil /\ state[i] # "FAIL"
          /\ record' = [record EXCEPT ![Timer] = i]
          /\ Go(Timer, "run")
    /\ UNCHANGED <<records, clients, locks, op, server, hand, upcall, bounds>>

\* And looked at without: one that has no client is run, the others are asked
\* how long they have been receiving.
TickOne(i) ==
    /\ pc[Timer] = "tick"
    /\ todo' = todo \ {i}
    /\ \/ /\ client[i] # Nil
          /\ UNCHANGED <<pc, record>>
       \/ /\ client[i] = Nil
          /\ record' = [record EXCEPT ![Timer] = i]
          /\ Go(Timer, "run")
    /\ UNCHANGED <<records, clients, locks, op, server, hand, upcall, bounds>>

TickEnd ==
    /\ pc[Timer] = "tick"
    /\ todo = {}
    /\ Go(Timer, "idle")
    /\ UNCHANGED <<records, clients, locks, op, server, record, hand, upcall,
                   todo, bounds>>

-----------------------------------------------------------------------------
(* The reactor.                                                             *)

Upcall(c, to) ==
    /\ pc[Reactor] = "idle"
    /\ upcall' = c
    /\ Go(Reactor, to)

\* handle_input with data: the module is called with the client's lock held.
\* The model begins it only when the module may still call the manager.
Input(c) ==
    /\ "read" \in watch[c]
    /\ ops < MaxOps
    /\ owner[c] = Nil
    /\ owner' = [owner EXCEPT ![c] = Reactor]
    /\ Upcall(c, "recv")
    /\ UNCHANGED <<records, clients, manager, op, server, record, hand, todo,
                   bounds>>

InputEnd ==
    /\ pc[Reactor] = "recv"
    /\ owner' = [owner EXCEPT ![upcall] = Nil]
    /\ upcall' = Nil
    /\ Go(Reactor, "idle")
    /\ UNCHANGED <<records, clients, manager, op, server, record, hand, todo,
                   bounds>>

\* handle_input finds the connection ended by the server.
Drop(c) ==
    /\ "read" \in watch[c]
    /\ drops < MaxDrops
    /\ drops' = drops + 1
    /\ owner[c] = Nil
    /\ watch' = [watch EXCEPT ![c] = {}]
    /\ Upcall(c, "close")
    /\ UNCHANGED <<records, life, home, closing, out, locks, op, server,
                   record, hand, todo, ops, refusals>>

\* handle_output, which takes no lock.
Output(c) ==
    /\ "write" \in watch[c]
    /\ Upcall(c, "output")
    /\ UNCHANGED <<records, clients, locks, op, server, record, hand, todo,
                   bounds>>

\* One turn of its loop: an MB_STOP ends the client, data is sent.
SendOne ==
    /\ pc[Reactor] = "output"
    /\ out[upcall] # << >>
    /\ out' = [out EXCEPT ![upcall] = Tail(@)]
    /\ \/ /\ Head(out[upcall]) = Stop
          /\ watch' = [watch EXCEPT ![upcall] = {}]
          /\ Go(Reactor, "close")
       \/ /\ Head(out[upcall]) = Data
          /\ UNCHANGED <<watch, pc>>
    /\ UNCHANGED <<records, life, home, closing, locks, op, server, record,
                   hand, upcall, todo, bounds>>

\* The send fails, because the server has ended the connection.
SendFails ==
    /\ pc[Reactor] = "output"
    /\ out[upcall] # << >> /\ Head(out[upcall]) = Data
    /\ drops < MaxDrops
    /\ drops' = drops + 1
    /\ out' = [out EXCEPT ![upcall] = Tail(@)]
    /\ watch' = [watch EXCEPT ![upcall] = {}]
    /\ Go(Reactor, "close")
    /\ UNCHANGED <<records, life, home, closing, locks, op, server, record,
                   hand, upcall, todo, ops, refusals>>

\* The queue is found empty, and then the wakeup is cancelled.
OutputEmpty ==
    /\ pc[Reactor] = "output"
    /\ out[upcall] = << >>
    /\ Go(Reactor, "empty")
    /\ UNCHANGED <<records, clients, locks, op, server, record, hand, upcall,
                   todo, bounds>>

OutputEnd ==
    /\ pc[Reactor] = "empty"
    /\ watch' = [watch EXCEPT ![upcall] = @ \ {"write"}]
    /\ upcall' = Nil
    /\ Go(Reactor, "idle")
    /\ UNCHANGED <<records, life, home, closing, out, locks, op, server,
                   record, hand, todo, bounds>>

\* handle_close.
HandleClose ==
    /\ pc[Reactor] = "close"
    /\ Vanish(Reactor, upcall)
    /\ upcall' = Nil
    /\ Go(Reactor, "idle")
    /\ UNCHANGED <<locks, op, server, record, hand, todo, bounds>>

-----------------------------------------------------------------------------
InManager(t) ==
    \/ Connect(t) \/ SendData(t) \/ ReConnect(t) \/ Close(t)
    \/ Put(t) \/ ClientClose(t)

InRun(t) ==
    \/ RunRefused(t) \/ Run(t) \/ NewClient(t) \/ SetServerID(t) \/ MakeHandler(t)
    \/ Connected(t) \/ Refused(t) \/ Open(t) \/ GetClientMessage(t)
    \/ Register(t) \/ CancelWakeup(t) \/ EndRun(t)

TimerStep == TickBegin \/ TickEnd \/ \E i \in todo : TickOne(i)

ReactorStep ==
    \/ InputEnd \/ SendOne \/ OutputEmpty \/ OutputEnd \/ HandleClose
    \/ \E c \in Clients : Output(c)

\* The process has not crashed.
Running == \A t \in Threads : pc[t] # "crash"

Next ==
    /\ Running
    /\ \/ \E t \in Callers, o \in Operations, s \in Servers : Call(t, o, s)
       \/ \E t \in Callers : InManager(t)
       \/ \E t \in Threads : InRun(t) \/ ConnectFails(t)
       \/ TimerStep \/ ReactorStep \/ SendFails
       \/ \E c \in Clients : Input(c) \/ Drop(c)

Spec == Init /\ [][Next]_vars

\* Every thread goes on with what it has begun, and the timer comes again.
\* Calls, failures and data from the servers come as they like.
Fairness ==
    /\ \A t \in Callers : WF_vars(Running /\ InManager(t))
    /\ \A t \in Threads : WF_vars(Running /\ InRun(t))
    /\ WF_vars(Running /\ TimerStep)
    /\ WF_vars(Running /\ ReactorStep)

FairSpec == Spec /\ Fairness

-----------------------------------------------------------------------------
(* Properties. *)

\* No step takes the pointer of a record from under a thread that is in Run
\* for it, as long as the timer is not in Run: the calls of modules and the
\* clients that delete themselves keep each other out by the manager's lock,
\* wherever the record came from.  The timer takes no lock.
OnlyTimerDisturbs ==
    [][disturbed' # disturbed => pc[Timer] \in InsideRun]_vars

\* Until that has happened, the pointer of a listed record is NULL or leads to
\* a client that exists and has no other server's number, although clients
\* delete themselves, the timer sets the pointer without the lock, and a client
\* clears it by number and not by identity.
OwnClient ==
    ~disturbed =>
        \A s \in Servers :
            listed[s] # Nil /\ client[listed[s]] # Nil =>
                /\ life[client[listed[s]]] # "free"
                /\ home[client[listed[s]]] \in {s, Nil}

\* Until then, a thread that has fetched a client and waits for its lock is
\* never left with a deleted one: the client cannot be deleted before the
\* thread leaves the manager.
CallerSafe ==
    ~disturbed =>
        \A t \in Threads : pc[t] \in {"send", "shut"} => life[hand[t]] # "free"

\* A caller waits with the manager's lock for a client whose thread waits with
\* the client's lock for the manager's.
Deadlocked ==
    \E t, u \in Threads :
        /\ t # u /\ manager = t
        /\ pc[t] \in {"send", "shut"} /\ owner[hand[t]] = u
        /\ pc[u] \in {"enter", "message"}

\* The client of the record receives from the server.
Live(s) ==
    LET c == client[listed[s]]
    IN  c # Nil /\ life[c] = "open" /\ "read" \in watch[c]

\* IClientManager.h:27: a connection that breaks while nothing is sent is
\* rebuilt.  A listed server that nothing is received from is received from
\* again, or given up by a Close, unless the locks have met or a Run was
\* disturbed.
Rebuilt ==
    \A s \in Servers :
        listed[s] # Nil ~> listed[s] = Nil \/ Live(s) \/ Deadlocked \/ disturbed
=============================================================================
