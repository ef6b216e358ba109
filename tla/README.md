# PurenessScopeServer in TLA+

PurenessScopeServer (PSS) is a C++ server framework on top of ACE.  It accepts
TCP and UDP connections, cuts their input into packets with loadable parsers,
and hands the packets to *modules*, shared libraries that subscribe to command
numbers.  Modules run in worker threads and answer through the framework, which
sends from the reactor threads.  Libraries can be loaded, unloaded and reloaded
while the server runs.

This directory models the parts of the server where threads, buffers and
life cycles meet.  Paths below are relative to
`src/src/PurenessScopeServer/PurenessScopeServer/PurenessScopeServer/`.
`PROJECT.json` maps every definition to its lines of code.

## 1. Inventory

### Threads

| thread | runs | code |
|---|---|---|
| acceptor's reactor | accepts, `CConnectHandler::open` | `Reactor/ConnectAccept.cpp`, `Reactor/ConnectHandler.cpp` 181 |
| client reactors (one thread each) | `handle_input`, `handle_output`, `handle_close` | `Reactor/ConnectHandler.cpp` 366–839 |
| send thread of each `CConnectManager` | `svc`: looks up the handler of a posted request and queues the block | `Reactor/ConnectHandler.cpp` 2210–2700 |
| timer | ticks of the time wheel, statistics | `Reactor/ConnectHandler.cpp` 2441 |
| timer of the outgoing connections | `handle_timeout`: rebuilds what is broken | `Reactor/ClientReConnectManager.cpp` 744 |
| reactor of the outgoing connections | `handle_input`, `handle_output`, `handle_close` of a client | `Reactor/ConnectClient.cpp` 166–630 |
| workers | `CMessageService::svc`, the modules' code | `Message/MessageService.cpp` 129 |
| console's reactor | load, unload, reload, queries, dyeing | `Console/ConsoleMessage.cpp` |
| main | start and shutdown | `Reactor/ServerManager.cpp` |

### Components

**Hash table, `Common/HashTable.h`.**  State: a block of cells, a block of
links, an array of chains, three round-robin cursors.  Operations:  `Add`,
`Push`, `Get`, `Del`, `Pop`, `Clear`.  It is both the dictionary (connections,
commands, modules) and the object pool (messages, handlers, send requests) of
the whole server.  It has no lock; most users hold one around a call, but some
accesses to the table of modules (`m_objHashModuleList`), the command lists
(`m_objClientCommandList`) and several getters of `CConnectManager`
(`Reactor/ConnectHandler.cpp` 2650–2698, 2819–2852, 2918) are made without.
Hard: intrusive doubly linked chains, three counters that must agree, a full
table, duplicate keys through `Push`, the inverted return values of `Del`.
Correct when chains and blocks agree and it behaves as a bounded keyed
collection.

**Time wheel, `Common/TimeWheelLink.h`.**  State: a ring of containers, an index
from a handler to a cell, a list of cells with container numbers.  Operations:
`Add_TimeWheel_Object`, `Del_TimeWheel_Object`, `Tick`.  `CConnectManager` adds a
handler when it is listed and for every packet, and removes it on close.  Hard:
the place of a handler is recorded twice; a cell is a resource; a tick and the
close it causes are far apart.  Correct when a silent connection is reported at
the end of its turn and an active one is not.

**Workers, `Message/MessageService.cpp`, `Message/Message.cpp`,
`Common/MakePacket.cpp`.**  State: per worker a pool of messages, an ACE message
queue, statistics.  Reactors and UDP handlers take a message from the pool of
the worker that serves a connection, fill it and queue it; the worker takes it,
calls the modules, returns it.  The console, after a command that changes the
modules, and each worker whose update reloaded one send every worker an
`MB_USER` block.  `Close` flushes, sends `MB_STOP` and waits on a condition.
Hard: several producers and several broadcasts at a time, a queue limit tested
outside the queue's lock, a message read after it was returned, a wait without a
loop.  Correct when no message has two users, a connection's events stay in
order, the queue is bounded, and `Close` returns.

**Modules and command lists, `Message/MessageManager.cpp`,
`Message/LoadModule.cpp`, the copies in `Message/MessageService.cpp`.**  State:
the manager's lists of subscriptions, the table of libraries, the list of
libraries waiting to be unloaded, and a copy of the subscriptions in every
worker.  The console changes the lists and sends every worker an update; the
first worker that takes it unloads the library, and may load it again while the
console loads one; each makes a new copy.  Hard: a load that holds a lock only
while it opens the library, copies that are stale while code is unmapped, a
broadcast that can stop half way, entries released by address.  Correct when
every open library has one owner, the manager lists only objects of mapped
libraries, and all copies converge.

**TCP connections, `Reactor/ConnectHandler.cpp`.**  State: a pool of handlers,
a list from connect ids to handlers, per handler a connection state, a queue of
blocks, and the events its reactor watches; a queue of posted requests.  Hard:
acceptor, reactor and send thread touch a handler without a common lock, a
handler is used again for the next connection, the wakeup of `handle_output` and
its cancellation race.  Correct when pool and list agree, the events of a
connection are connect, packets and answers to what was sent, disconnect, and
data goes out in order, to the right peer, all of it.

**Guard against slow commands, `Message/WorkThreadAI.cpp`, `Common/Ring.h`.**
State: per worker a ring of times for every command that has been charged, a
list of forbidden commands, the settings.  `ProcessMessage` asks before it calls
the modules and charges afterwards; the console changes the settings.  Hard: one
list for all commands, entries made under different settings, one expired entry
erased at a time, a charge that reads a message that was given back.  Correct
when a refusal has enough recent charges of the same command behind it, and a
slow command is refused.

**Outgoing connections, `Reactor/ClientReConnectManager.cpp`,
`Reactor/ConnectClient.cpp`.**  State: the manager's list of records by server
number, per record a pointer to a client and a connection state, per client a
queue, the events the reactor watches, a lock.  Modules connect, send, reconnect
and close; a timer rebuilds what is broken; clients clear the pointer of their
record and delete themselves.  Hard: two kinds of recursive locks taken in both
orders, records read and run by the timer without a lock, a client that the
thread connecting it knows only by the shared pointer of the record, a pointer
that is cleared by number, objects deleted under waiting threads.  Correct when
a record points to a living client of its server, no thread uses a deleted
client, and a broken connection is rebuilt.

**Not modelled** (`components` in `PROJECT.json` lists them with the reason):
the send cache (`Common/SendCacheManager.cpp`), the callbacks' own thread
(`Common/ServerMessageTask.cpp`), start and shutdown
(`Reactor/ServerManager.cpp`), address limits (`Common/ForbiddenIP.cpp`,
`Common/IPAccount.h`), packet parsers and buffers, UDP sending, configuration,
console text commands, module messages, statistics, logs and mail, the Windows
Proactor twins, vendored code and tools.

### How they interact

    peer -> client reactor -> CMakePacket -> message pool and queue of a worker
         -> CMessageService::svc -> copy of the command lists -> module
    module -> CConnectManager::PostMessage -> send thread -> queue of the handler
         -> schedule_wakeup -> handle_output on the client reactor -> peer
    timer -> time wheel -> CloseConnect_By_Queue -> send thread -> MB_STOP block
         -> handle_output returns -1 -> handle_close -> pool of handlers
    console -> CMessageManager, CLoadModule -> MB_USER block to every worker
         -> UnloadListUpdate, CopyMessageManagerList
    module -> CClientReConnectManager -> CConnectClient -> server
    reactor of the clients -> module's callback -> CClientReConnectManager

The seams between modules follow these arrows.  `ConnectHandler` raises events;
what the workers do with an event is `MessageService`.  `MessageService` gives
an `MB_USER` block a place in the queue; what it does is `CommandLists`.
`ConnectHandler` lets anybody post a close for any connect id the workers have
heard of, which covers the timer; when the timer does so is `TimeWheel`.
`MessageService` lets a worker refuse any command; which ones it refuses is
`WorkThreadAI`.  `ClientReConnect` is called by modules and shares nothing else
with the others.

## 2. The modules

| module | models | kind |
|---|---|---|
| `KeyedPool` | what users of the hash table rely on | abstract specification |
| `Selection` | the entries of a list that lie in a set, a list without one entry | operators |
| `Selection_proofs` | what these return, and how they follow an append and an erasure | lemmas |
| `HashTable` | `CHashTable` with its cells, links and cursors | detailed, refines `KeyedPool` |
| `HashTable_proofs` | type correctness, `ChainsSound`, `ImplementsKeyedPool` | proofs |
| `TimeWheel` | `CTimeWheelLink` and the calls `CConnectManager` makes | component |
| `TimeWheel_proofs` | type correctness, `IndexSound`, `KeepsTime`, `ReportsOnTime`, `LostByTimeouts` | proofs |
| `MessageService` | producers, workers, pools, close | component |
| `MessageService_proofs` | type correctness, `SingleOwner`, `InOrder`, `QueueBound`, `LostWhenFull` | proofs |
| `SlowWindow` | what the guard is to its worker: one window of charges per command | abstract specification |
| `WorkThreadAI` | rings, list of forbidden commands, the calls of `ProcessMessage` | component, refines `SlowWindow` |
| `WorkThreadAI_proofs` | type correctness, `RefusedForCharges`, `ImplementsSlowWindow` | proofs |
| `CommandLists` | load, unload, reload, update of the copies, calls | component |
| `CommandLists_proofs` | type correctness, `OpenOnce`, `RegisteredMapped` | proofs |
| `ConnectHandler` | acceptor, reactors, pool, list, send thread | component |
| `ConnectHandler_proofs` | type correctness, `HandlerOwned`, `EventsInOrder`, `SendOrder`, `NothingAfterStop` | proofs |
| `ClientReConnect` | records, clients, locks, timer, reactor of outgoing connections | component |
| `ClientReConnect_proofs` | type correctness, `OwnClient`, `CallerSafe`, `OnlyTimerDisturbs` | proofs |
| `MC*` | constants and symmetry for TLC | instances |

In every module a variable carries the name of the member it stands for, or a
comment with it; an action carries the name of the function or, where other
threads may run in the middle of a function, of the part of it between two such
points.  An operator with a comment such as "the entries are kept", placed just
before the definition it resembles, is a plausible mistake in that definition.
No specification uses it; it is there to show that the runs would notice.

**`HashTable`.**  `cell` and `link` are the two blocks of `CHashPool` and
`CHashLinkPool`, `table` the heads of the chains, `cellCurr`, `linkCurr` and
`popCurr` the cursors.  Each operation is one action: the module is about what a
sequence of calls does to the table.  Most users hold a lock around the call; for
those that do not (section 1) two calls can overlap in the code, which is not
modelled.  Keys are model values; `Bucket` is the hash function, and a key
that does not fit a cell is in `LongKeys`.  `answer` is the return value of the
last call, so that the refinement is about answers too.

**`TimeWheel`.**  `contain`, `index`, `blockOf` and `cursor` are the members of
the class; `handle_timeout` is the timer around `Tick`.  `silent` and
`exhausted` are not in the code: the ticks since a handler was last added, and
whether `Get_BlockIDList_Cell` has ever found no cell.  They are only read by
properties.  The operations are atomic, although in the code the tick runs
without the lock the others hold (hazard at 2441).

**`MessageService`.**  A producer goes through `CreateMessage`, `CountQueue` and
`PutQueue`, because `CMessageService::PutMessage` reads `message_count()` first
and calls `putq` later.  A worker goes through `TakeMessage`, then
`RefuseCommand` or `DoMessage`, then `Account`, which reads the message again
although it has been given back.  The guard is a nondeterministic refusal here.
Broadcasts of updates have senders of their own (`Senders`): the console thread
(`ConsoleUpdate`) and every worker, which begins one in `TakeUpdate` when
`UnloadListUpdate` answered 1 and takes nothing else until it is through.  Each
goes from service to service with `CountUpdate` and `PutUpdate`, the two steps
of a put again, gives up at the first refusal, and overlaps with all the others.
The closer goes through `CloseFlush`, `CloseLock`, `ClosePut`, `CloseWait`,
`CloseEnd`; `m_mutex` is derived from where it is (`MutexFree`).  Queues are
bounded by `HighMark`, the number of blocks at which ACE's byte counter reaches
the high water mark.  A UDP thread takes messages like a reactor, from any
worker; TLC's instance has no such thread, the proofs cover any number of them.

**`WorkThreadAI`.**  `ring` is `m_vecCommandTime`, a ring and its position per
command, `forbidden` is `m_vecCommandTimeout`.  `Refuse` and `Admit` are
`CheckCurrTimeout`, `DoMessage` the modules and the deletion of the message,
`CreateMessage` another thread that fills the deleted message, `Save` the charge.
The worker's own `command` and the `content` of its message are two variables, as
`ProcessMessage` reads both.  `Second` is the clock.  `charges` and `slowRuns` are
histories.

**`CommandLists`.**  `info` is the heap of `_ClientCommandInfo` entries by
address, because the code releases them by address and an address can be used
again.  `refs` counts the `dlopen`s of a library and `mapped` how often it was
mapped anew; an object is a library with such a number, so a copy that outlives
its library can be told from a fresh one.  The console thread and the workers
interleave between the release of the entries, the move to the waiting list, the
update index and each queue of the broadcast.  `LoadModule` is a sequence of
steps, for the console and for a worker that reloads:  `LoadModuleInfo`, which
alone takes `m_tmModule` and may find no library to open; `Find`, the search for
an old entry; `Retire`, which closes that entry's library and removes its name;
`List` or `ListRefused`, the insertion and its refusal; `Register`, the
`LoadModuleData`.  `loading` is the object of the library a thread has opened.
A worker is in `UnloadListUpdate` all this time and has `m_tmModule`, so
`Unlocked` keeps other workers, the opening of a library by the console and
`Move` out of it, but not the console's other steps.  An unload in
`UnloadListUpdate` and the release and registration of the entries of one module
are one action each, and so is each call of a table; an entry or a record of a
library that one thread frees under another reads as it was.  `collided` is a
history: the modules that a worker has opened again while the console had them
open and not yet in the table.  The test of the queue length and the `putq` are
one action here; they are two in `MessageService`.  `due` and `skipped` are
histories: the workers for whom an update that they take has been under way
since the lists last changed, and those whose full queue has cost them one.

**`ConnectHandler`.**  `opening` is where the acceptor is inside `open`,
`upcall` where a reactor thread is inside the handler; `watch` is the reactor's
event mask for it.  The send thread is `Take` (`SendMessage` or `CloseConnect`
of the manager), then `Check`, `Put`, or `PutStop`, `Mark`, then `Wakeup`: the
lock of the manager protects only the `Lookup`.  `events`, `sent` and `stopped`
are histories for properties.  A packet is one event, the byte counters of
`CheckSendMask` are a nondeterministic refusal, and a failed write is a
nondeterministic end of `PutSendPacket`, which tells the worker of it
(`senderror`) or of a success the module asked for (`sendok`).  What the send
thread refuses is reported under the connect id 0 and raises nothing here.

**`ClientReConnect`.**  `listed` is the list of the manager, `client` and
`state` are members of a record; `life`, `home`, `closing`, `out` and `watch`
belong to a client object.  `manager` and `owner` are the two kinds of locks,
held by a thread; both are recursive, so `Managing` and `Owning` let the owner
in again.  `pc`, `op`, `server`, `record` and `hand` are where a thread is and
its local variables.  A call of the manager starts with `Call`, its action
(`Connect`, `SendData`, `ReConnect`, `Close`) runs under the lock, and the steps
of `CReactorClientInfo::Run` are shared with the timer, which runs them without
the lock.  Between these steps the client is known only by the pointer of the
record, which each reads again:  `Run` is the test at line 47, `NewClient` line
59, `SetServerID` lines 67 and 68, `MakeHandler` the beginning of `connect`,
which gets the pointer by reference and makes a client itself when it is NULL,
`Connected` or `ConnectFails` its end.  Only then is the client in the thread's
hands, for `Refused` (its `Close`) or for `Open`, `GetClientMessage`, `Register`
and `CancelWakeup`.  `EndRun` writes the connection state.  A step through a
NULL pointer ends the process (`"crash"`, after which nothing moves); a step
through a deleted client finds the members as they were left, unless a new
client has the address.  `disturbed` is a history: some step has changed the
pointer of a record while another thread was between the `new` and the read of
the pointer for `open`.  `SendData` and `Close` test the pointer and read it
again in one step, since with the manager's lock held it is not cleared in
between.  `Vanish` is the end of a client:  `CloseByClient` and `delete this`.
The reactor's upcalls are `Input`, in which a module may call the manager with
the client's lock held, `Output` and `Drop`.  `Connect` deletes a record behind
which a client already stands and then calls `Close`, which finds it in the list
(`Reactor/ClientReConnectManager.cpp:287`); what it reads there is undefined,
and the model gives it what the record held.

## 3. What is checked

Run a configuration with `tlc -config X.cfg M`; `runs` in `PROJECT.json` pairs
them.  Symmetry is used only in runs without liveness properties, over handlers
or addresses that the specification never compares by order.

### Runs that pass

| run | distinct states | what it shows |
|---|---|---|
| `hashtable` | 13 thousand | `ChainsSound`: links are inverse, a link hangs in its key's chain, a slot is in use exactly when a chain reaches it, and the counters count. `ImplementsKeyedPool`: call by call and answer by answer the table is a bounded keyed collection; in particular removals from the head, the middle and the end of a chain, duplicates from `Push`, and a refused `Add` to a full table |
| `timewheel` | 3.7 million | `IndexSound` always; `KeepsTime` and `ReportsOnTime` until the cells run out; `LostByTimeouts`: they run out because every timeout costs the cell of its handler, for good, and nothing else does |
| `message_service` | 0.77 million | `SingleOwner` and `InOrder` with two producers, broadcasts by the console and by workers, modules that keep messages, refusals, queues that fill, and a close at any moment; `QueueBound`: producers and senders of updates pass `Msg_MaxQueue`, but a group of them by less than it has members; `LostWhenFull`: a message is lost only in the hands of a producer that a full queue has refused; `EventuallyTaken`; `CloseReturns`: the signal of a worker cannot be lost between the put of `MB_STOP` and the wait |
| `worker_ai` | 2.2 million | `RefusedForCharges`, and `ImplementsSlowWindow`: the rings and the common list are one window per command, whatever settings the console gives in between |
| `command_lists` | 1.8 million | `OpenOnce` and `RegisteredMapped` for every order of two commands and two workers, with loads of one module by the console and by a worker step by step, and with entries freed and used again at any address; `Settles`: a quiet console ends with nothing waiting, and every worker that was sent the last update has the lists of the manager, but for what full queues have cost |
| `connect` | 7.7 million | `HandlerOwned`, `EventsInOrder`, `SendOrder`, `NothingAfterStop` with two handlers that carry two connections and three posted requests |
| `reconnect` | 1.6 million | `OnlyTimerDisturbs` with a module, the reactor in a module's callback and the timer on one server: among calls, callbacks and clients that delete themselves nobody takes the pointer of a record from a thread that connects it; `OwnClient` and `CallerSafe` until the timer has; `Rebuilt`: a server that nothing is received from is received from again or given up by a close, unless the locks have met the wrong way round or the timer has interfered |

Each property of these runs has a mutant in `PROJECT.json`: a plausible error in
one definition under which TLC finds it violated.

### Runs that show a disagreement

| run | property and the statement behind it | what TLC finds |
|---|---|---|
| `worker_ai_slow` | `SlowRefused`; `Message/WorkThreadAI.h:276` and 277: a limit on the slow packets of a command, and the time it is then stopped | `ProcessMessage` charges the command it reads from the message after `DeleteMessage` has cleared it (`Message/MessageService.cpp:390`), so the slow command is not charged and goes on running |
| `command_deaf` | `CopiesFollow`; `Console/ConsoleMessage.cpp:876`: when a module is loaded all workers update their copies | a load sends the update index 0, which `svc` ignores (`Message/MessageService.cpp:164`); the workers do not see the new module until the next unload |
| `command_unmapped` | `RunsMappedCode`; `Message/LoadModule.h:81`: a library is released when all worker threads have called back | the first worker that takes the update closes the library (`Message/LoadModule.cpp:188`) while the second is inside its code |
| `connect_stale` | `SentToOwner`; `Reactor/ConnectHandler.cpp:1203`: when another thread has closed the connection nothing is done | the send thread has looked the handler up, the handler is closed and opened for another peer, and gets the data |
| `connect_wakeup` | `Flushed`; `Reactor/ConnectHandler.cpp:1418`: what is queued is sent by `handle_output` | `handle_output` finds its queue empty, the sender puts a block and asks for a wakeup, `cancel_wakeup` (line 451) takes it back. The block stays until something else is posted |

### Bounds, and why they are enough

- `hashtable`: three cells, two keys in one bucket, one in another, one too
  long, two objects.  Chains of three links, collisions, duplicates and a full
  table occur; the number of calls is not bounded.
- `timewheel`: two handlers, three containers, six cells.  A third container
  separates "current", "about to expire" and "in between".  Six timeouts use up
  all cells, and all states after that are reached too.
- `message_service`: two workers so that order between workers could be lost;
  two producers of one connection, one with two events, the least for an order;
  two objects per pool so that a message can be used again while another is
  queued; `MaxQueue = 1` and `HighMark = 3` so that the limit, the race past it
  and the high water mark occur; two broadcasts, the first by the console or by
  a worker that took it, so that two senders are between the test and the `putq`
  of one queue.  Three events, two packets and a link event, keep the run within
  minutes.
- `worker_ai`: two charges to a ring, three settings (on, on with the shortest
  times, off), the clock from 2 to 5, four messages.  Charges that fill a ring,
  an expiry and a second prohibition, and a change of settings between any two
  of these occur.  Besides one command the cleared message and link events are
  charged or not, so the common list holds entries of two commands.
- `worker_ai_slow`: two commands, one setting.
- `command_lists`: two modules with a command each, two workers, two console
  commands, two addresses, so that a freed address comes back for another entry.
  Two commands are the least for a reload during an unload.  Queues hold one
  block, so broadcasts are cut short.  In `command_deaf` and `command_unmapped`
  queues hold four and never fill.
- `connect`: two handlers, two connections, three requests, queues of two.  Two
  connections on one handler are the least for a stale handler, three requests
  for data, close, data.  One packet per connection is enough to be out of order
  with the connect and the disconnect.
- `reconnect`: one server, two records, three clients, a module's thread, the
  reactor and the timer, three calls, one failing connect, one broken
  connection.  A client of the timer, one of a caller and one of an earlier
  record can live at once; two threads connect one record, the pointer of which
  is replaced, cleared, and set to a deleted client; the locks meet the wrong
  way round.  Queues hold one block, so a `Close` can be refused.

`MaxEvents`, `MaxUpdates`, `MaxCommands`, `MaxTime`, `MaxOps`, `MaxMessages`,
`MaxConnects`, `MaxPosts`, `MaxPackets`, `MaxRefusals` and `MaxDrops` bound what
the outside does; the server's own steps are not bounded.  Runs of
`WorkThreadAI`, `CommandLists`, `ConnectHandler` and `ClientReConnect` turn the
deadlock check off: the threads may wait for a next message, command, connection
or call that the bound rules out, and those of `ClientReConnect` can really wait
for each other, which `Rebuilt` names (`Deadlocked`).  The other runs check for
deadlock.

### Fairness

Weak fairness of each thread, and of nothing else: threads are scheduled, and
every blocking call in a modelled thread is a guard (`getq` on an empty queue,
`m_mutex`, `m_cond.wait`).  Events, packets, posted requests, console commands
and the decision to shut down have no fairness, nor have calls of modules,
failing connects and the servers that end a connection.  For `MessageService`
each worker, its own broadcasts included, and the closer are fair: modules are
assumed to return.  Producers and the console are not.  For `CommandLists` the
console's continuation of a command and every worker.  For `ConnectHandler` the
acceptor inside an `open`, the reactor for each handler and the send thread; the
reactor's fairness assumes that a peer reads what is sent to it or goes away.
Even with all this `Flushed` fails.  For `ClientReConnect` each thread inside a
call, the timer, which comes again by itself, and the reactor: a lock that stays
free is given to a waiting thread some time, since no thread holds one for ever
unless two wait for each other.  None of it holds after a crash.

### Limits of the passing runs

Some runs pass because a situation in which the code misbehaves is named in the
property or kept out of the model.  These are the situations:

- `KeepsTime` and `ReportsOnTime` say nothing once `exhausted` holds;
  `LostByTimeouts` says when that happens.
- `LostWhenFull` allows the loss of a message whose queue was full, at the limit
  or at the high water mark (`Message/MessageService.cpp:921`: the refusal is
  not passed on).
- `CloseReturns` uses one wakeup per wait.  POSIX allows spurious ones and the
  code does not wait in a loop; those are left out.
- The operations of `TimeWheel` are atomic, although the timer ticks without the
  lock of the others; a `ReSet` of the guard is atomic, although the worker
  reads the settings one by one; the console reads the lists of the guard
  without a lock, and those queries are left out.
- `Settles` says nothing of loads, whose index 0 makes nobody `due`, nor of the
  workers in `skipped`: the broadcast stops at the first full queue
  (`Message/MessageService.cpp:942`).
- `SingleOwner` speaks of who may use a message.  It leaves out the worker's
  reads of the message it has deleted (`Message/MessageService.cpp` 381–390);
  what comes of them is `SlowRefused`.  `InOrder` is about the events that one
  thread raises; in which order different threads raise them is `EventsInOrder`.
- `OpenOnce` says less of the modules in `collided`: when a worker reloads a
  module that the console is loading, the table can refuse one of the two
  (`Message/LoadModule.cpp:93`), and the library it had opened stays open with
  no owner.  The run reaches this.  What remains is that no library that has an
  owner is closed.
- Calls of the table of modules and of the command lists from two threads are
  one after the other in `CommandLists`, although no lock sees to it.  The
  console's queries (`GetModuleInfo`) are left out, and so is the worker's walk
  over the manager's lists while the console deletes one
  (`Message/MessageService.cpp:630`, `Message/MessageManager.cpp:333`): each
  list is copied in one step.
- `OpenOnce` does not cover libraries whose `LoadModuleData` fails: the table
  then keeps a freed entry (`Message/LoadModule.cpp:103`).  Nor does it cover a
  library that opens but lacks one of the expected functions: it stays open with
  no owner (`Message/LoadModule.cpp:264`).  Both kinds are left out.
- `CommandLists` releases entries by address as the code does, and an address
  can belong to another module by then (`Message/MessageManager.cpp:306`).  What
  is released too much is not a property of any run.
- `OwnClient`, `CallerSafe` and `Rebuilt` say nothing once `disturbed` holds:
  the timer and a caller, both past the test at
  `Reactor/ClientReConnectManager.cpp:47`, have met on one record.  The run
  reaches this, and without the guard TLC shows what follows: the two connect
  the same client, one fails and deletes it, the other's `open` puts it back
  into the record; a caller then gets the deleted client; a thread can find the
  pointer NULL at line 67 or in `connect` and end the process.
  `OnlyTimerDisturbs` says that it takes the timer.
- `Rebuilt` also excuses the deadlock of the two kinds of locks
  (`Reactor/ConnectClient.cpp:151`), which the run reaches: a caller has the
  manager's lock and waits for a client's, whose thread is in `open` or in a
  callback and waits for the manager's.  The code does nothing against it.
- A close that comes between `NewClient` and `Open` is undone by `Open`, which
  clears the closing state again; no property speaks of it.  For `GetTimeout`
  the timer reads the pointer of a record a second time
  (`Reactor/ClientReConnectManager.cpp:785`), which is left out, and the freed
  record at line 287 reads as it was.
- The weight of a block is one in all queues; ACE counts bytes.

## 4. What is proved

The proofs hold for every value of the constants that the named assumptions
allow, and are checked by `tlapm`.  Every safety property of the runs is among
them, and both refinements.

**`Selection_proofs`** (no assumptions).  A list that is walked in search of
some of its entries is a sequence, and what the walk sees is `Picked`.  The
lemmas say what is picked from a sequence after an append (`PickedAppend`) and
after one entry has been taken out (`PickedErased`, and `PickedFirst` when it
was the first that was looked for), and that it is empty only when nothing was
there to find (`PickedNothing`).  The library's induction theorems are out of
the provers' reach; `ByInduction` draws what is needed from the fact that a set
of natural numbers has a least element (`SmallestOf`), which the library states
without an operator parameter, and each use names the set of lengths at which
its claim holds.

**`HashTable_proofs`** (`CountAssumption`: at least one cell;
`BucketAssumption`: the hash function yields bucket numbers;
`LongKeysAssumption`; `NilAssumption`).  `TypeCorrect`, `ChainsStaySound`
(`ChainsSound`) and `TableIsAKeyedPool` (`ImplementsKeyedPool`), for any number
of cells, any keys and objects and any hash function.

The module reads a chain by walking from its head, as the code does, so a step
that changes one pointer changes what the walk finds in a way that cannot be
seen from the step.  The invariant therefore speaks of `Chains`, one sequence of
links per bucket:

    IInv == TypeOK /\ Shape(Chains, table, link) /\ Filled(Chains, link, cell)
            /\ the two counters are the number of links on the chains

`Shape` says that the heads and both pointers of the links make these sequences,
that no link is at two places, and that a link on none is free; `Filled` that
the cell of a link holds a key of the link's bucket, that no two links share a
cell, and that a cell without a link is free.  It is stated for any sequences:
`ChainsAre` shows that whenever some sequences satisfy `Shape`, the walk finds
exactly them.  A step is then the choice of the sequences after it.  `HungShape`
and `HungFilled` add a link at the end of one, `CutShape` and `CutFilled` take
one out of any place, which is where the head and both neighbours have to be got
right; `AppendLinkStep` and `UnlinkStep` connect them to the two pieces of code
the operations share, and there is one lemma per operation.  That a cell is free
exactly when a link is (`RoomForBoth`) is why the branch of `Add_Hash_Data` in
which a cell is taken and no link is left cannot be reached.  `ChainsSound`
follows from the invariant alone (`SoundNow`).

For the refinement the objects of a key are those of the links picked from the
chain of its bucket.  The same lemmas carry what they become: an object more at
the end for the key of an appended link, the first one less for the key of the
link taken out, no change for any other key (`CutHeld`).  `PlacesCount` counts
the objects of all keys by a bijection with the links, so the abstract table is
full exactly when the pools are.

**`TimeWheel_proofs`** (`BlockAssumption`: at least two containers;
`SizeAssumption`: finitely many handlers, no more than a container holds, as the
manager's pool guarantees; `NilAssumption`).  `TypeCorrect`, `IndexAlwaysSound`,
`WheelKeepsTime`, `WheelReportsOnTime`, `OnlyTimeoutsLose`.

`KeepsTime` alone is not inductive: whether `Add` moves a handler or duplicates
it depends on its index entry.  The invariant is

    IInv == TypeOK /\ IndexSound /\ KeepsTime /\ Indexed

where `Indexed` says that until the cells run out every handler in a container
has an entry.  `PlaceStep` proves what the common end of both branches of
`Add_TimeWheel_Object` does, `AddStep` builds the three branches on it,
`AddPreserves`, `ClosePreserves` and `TickPreserves` follow.  `AgeInjective`
holds the modular arithmetic: ages of containers are distinct and the next
container is the oldest.  `Room` shows with the cardinality lemmas that a
container never refuses a handler.  `ReportsOnTime` is then a consequence of
`KeepsTime` for the oldest container.  `OnlyTimeoutsLose` (`LostByTimeouts`)
needs no more than `IInv`:  `PlaceLosesNothing`, `AddLosesNothing` and
`DelLosesNothing` show that these reuse or release the cell of the handler they
move, `TickLosesReported` that a tick leaves the cells of the connections it
reports without an owner.

**`MessageService_proofs`** (`CountAssumption`, `SourceAssumption`,
`ThreadAssumption`: the threads are finitely many; `NilAssumption`).
`TypeCorrect`; `MessagesHaveOneOwner` (`SingleOwner`), `EventsStayInOrder`
(`InOrder`) and `QueuesStayBounded` (`QueueBound`), whatever the number of
producers, workers, broadcasts and messages; `MessagesAreLostOnlyWhenFull`
(`LostWhenFull`).

`SingleOwner` speaks of a set of places; the inductive invariant says the same
pairwise and adds what makes it inductive: `AtHome` (a message is only ever in
the pool and the queue of its own service), `FilledIn` (a message in use carries
an event, so the fields `DoMessage` reads are there), `InHand` (program counters
and messages in hand agree), `HeldAlone`, `QueuedAlone`, `HandledAlone`.  There is
one lemma per action; `Append1` and `Tail1` carry what happens to positions in the
queues.  `AloneMeansSingle` leads back from the pairs to the places.

`InOrder` rests on `InLine`: the running numbers of what a thread has raised for a
connection increase along the line handled, in the worker's hands, in the
queue from its head to its end, in the thread's hands, and all of these are
with the one worker of `GetWorkThreadID`.  `LineThins` covers the steps that only
take from the line; `CreateMessageInLine`, `PutQueueInLine` and
`TakeMessageInLine` the three that move something along it.

`QueueBound` rests on `Bounded`: the blocks of a group of producers and senders of
updates in a queue and the members who have seen room there and not put yet are
together at most `MaxQueue` and the
size of the group less one.  A put moves a member from one count to the other
(`RoomPut`); an admission happens only below `MaxQueue`, where the bound holds by
itself (`RoomWhenShort`); `AheadThins` compares the blocks before and after a step
with an injection.

`LostWhenFull` is about the moment of a loss, so it needs no further invariant
than `Open`: until somebody closes the service, every worker is active and no
stop block is queued.  The lemmas follow a message from a pool through a
thread's hands, a queue and a worker's hands to the pool or to the module that
keeps it (`AtHand`, `WaitingStays`, `WaitingMovesUp`); `CreateKeeps` and
`WorkKeeps` show that none of these steps drops it, `ProduceKeeps` that a thread
drops it only at a full queue.

**`WorkThreadAI_proofs`** (`CountAssumption`, `RuleAssumption`,
`NameAssumption`).  `TypeCorrect`, and `RefusalsAreEarned`, that
`RefusedForCharges` holds for any commands, settings, ring size and clock.  The
invariant is

    IInv == TypeOK /\ Start =< now /\ Remembers /\ Justified /\ RefusedForCharges

`Remembers` says that the entry a ring gives for n charges back is the time of
that charge in `charges`, or 0, which lies before every check time, when there
were not so many.  `Justified` says that every entry of the list of forbidden
commands was made by a charge that filled its window and ends when that charge
said.

`GuardIsAWindow` (`ImplementsSlowWindow`) maps the common list to one queue of
ends per command, the seconds of the entries picked for it.  `ForbidAppends`
shows that a new entry goes to the end of the queue of its own command,
`EraseTakesHead` that the entry `CheckCurrTimeout` stops at is the head of that
queue and that its erasure from the middle of the list takes the head off this
queue and leaves the others; `SaveTimeoutIsCharge`, `RefuseIsRefuse` and
`AdmitIsAdmit` match the actions.

**`ConnectHandler_proofs`** (the constants' assumptions).  `TypeCorrect`,
`HandlersOwned`, `EventsOrdered`, `DataInOrder`, `NothingGoesAfterStop`, for any
number of handlers, connections and requests.  The invariant is

    IInv == TypeOK /\ Life /\ Order

`Life` says where a handler can be between the pool, the acceptor inside `open`
and the reactor's upcalls, that a connect id has one handler and the list leads
to it, and what the workers have been told by then: nothing before the acceptor
has told them of the connection, a disconnect only from `handle_close`.  `Order`
says that requests keep the order of their numbers from the manager's queue over
the send thread's hands and the handler's queue to the peer (`Past`: a number
that has left the send thread's hands), and `StopsHold`: the `MB_STOP` block of
a close waits in the queue of its handler or the handler is closing already,
whatever `open` does to the connection state.  There is one lemma per action for
each half.

**`CommandLists_proofs`** (the constants' assumptions).  `TypeCorrect`,
`LibrariesOwnedOnce` (`OpenOnce`) and `ListsLeadToMapped` (`RegisteredMapped`),
for any modules, commands, addresses, workers and queue length.  The invariant
has two halves besides `TypeOK`.  `Counted` is about libraries:

- `OneLoader`: only one worker is in a load, since it holds `m_tmModule`;
- `Opened`: what a thread has in `loading` is an object of a mapped library;
- `Exact`: a module that has not collided is open once for each owner and each
  load under way; there is one load of it at most, which finds the entry it has
  come to retire and none when it comes to insert its own;
- `Enough`: every module is open at least as often as its owners and the closes
  that are still to come require (`Need`), so that none of these takes away a
  library that has an owner;
- `Registering`: a module whose commands are being registered has an owner or
  another load under way.

`Entered` is about the lists, and needs the first to know that a library is still
mapped.  It is `RegisteredMapped` and

- `Remembered`: the addresses the manager remembers of a module cover the
  entries the module has, and these are of commands it subscribes to;
- `Single`: when the table has given a module up and no load has it, and while
  the console is between `Release` and `Move`, there is at most one entry per
  command of it;
- `Emptied`: while a worker loads what the console is about to move, there is
  none;
- `NamedKnown`, `OpenIsMapped`, `Budget`: the console moves a known module, an
  open library was mapped, and every mapping has cost a console command.

`UnLoadModuleData` removes one entry per command.  With `Single` nothing is left
in the lists when the library is closed, and that is `RegisteredMapped`.  The
lemmas about `Waits` count in the waiting list by bijections; `SameHeld` serves
all the steps that leave the loader alone.

**`ClientReConnect_proofs`** (`ThreadAssumption`, `NilAssumption`,
`BoundAssumption`).  `TypeCorrect`, `OnlyTimerDisturbsHolds`, `OwnClientHolds`,
`CallerSafeHolds`, for any servers, records, clients, modules and queue length.
The invariant has parts that hold always:  `RecordsKnown` (records are used
before they are listed and serve the server they are listed for), `ThreadsKnown`
(what a thread has fetched by the time it uses it), `ReactorKnown` (the client
of an upcall), and `ManagerHeld`: a thread in a call holds the manager's lock.
A change of a pointer under a thread in `Run` takes two threads, of which
`ManagerHeld` allows only one to be a caller or a client that deletes itself
(`TimerMeets`, `TimerDisturbs`); that is `OnlyTimerDisturbs`.

The other parts hold as long as no `Run` has been disturbed.  `MakersKnown`: a
thread between `NewClient` and `Register` finds, through the pointer of its
record or in its hands, a client that no other thread has deleted or opened and
the reactor does not know, with the number of the record once that is set.
`MakersApart`: no two of them have the same one.  `Alive`: the reactor sees
opened clients only, and these have a number.  With them `OwnClient` is
inductive, since a client that is put into a record is the maker's own and
alive; and since `Vanish` needs the manager's lock, a client that was fetched
under it is there until the thread leaves the manager, which is `CallerSafe`.
`QuietPreserves` serves the steps that make no client and leave pointers alone,
`BesidePreserves` what another thread keeps.

**Only model-checked.**  Liveness under fairness:  `EventuallyTaken`,
`CloseReturns`, `Settles` and `Rebuilt` are out of the prover's reach.  The five
properties that the code violates have no theorem, of course.

## 5. Plan

Done: the hash table with its abstract specification; the wheel; workers and
messages; the guard with its abstract specification; command lists; TCP
connections; outgoing connections; the proofs of section 4.

Next, in this order:

1. **`IdleConnections`**, the wheel composed with connections: the tick without
   the lock, the connect id read in the callback, the posted close that finds
   the queue full.  It covers the hazards at 2127, 2441 and 2533 of
   `Reactor/ConnectHandler.cpp`.
2. **`SendCacheManager`** and `PACKET_SEND_CACHE`: one block for connect ids that
   agree modulo the number of blocks.  Abstract specification: one cache per
   connection.
3. **`Shutdown`**: the order of `CServerManager::Close` against threads that still
   run.
4. A `LoadModuleData` that fails, in `CommandLists`; address limits; the
   conversion of `MaxConnectTime` and `CheckAliveTime` into a number of
   containers; the packet buffers.

Questions that are settled by a proof may give their run to a new module.

## 6. Not modelled, and why

Bytes: parsers, buffers, encryption and the wire format decide nothing about the
life cycles above.  Byte counters decide refusals; the modules let a refusal
happen at any time.  Console text, logs, mail and statistics are output.
Configuration is read once and appears as constants.  The Proactor classes
repeat the Reactor ones for Windows.  ACE is vendored: its message queue and the
reactor's masks are modelled from how the server uses them (`putq` waits for room
under the high water mark, `cancel_wakeup` removes and `schedule_wakeup` adds the
write event, one upcall of a handler runs at a time because each client reactor
has one thread).
