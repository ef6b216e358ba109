---------------------------- MODULE CommandLists ----------------------------
(***************************************************************************)
(* Loading and unloading modules while the workers run: CMessageManager    *)
(* (the command lists), CLoadModule (the libraries and the list of those   *)
(* waiting to be unloaded) and the copy of the lists each CMessageService  *)
(* handles messages with.                                                  *)
(*                                                                         *)
(* A console command changes the manager's lists and then puts an MB_USER  *)
(* block into the queue of every worker.  A worker that takes one unloads  *)
(* the first waiting module, tells the others again if it was a reload,    *)
(* and copies the manager's lists.  Console commands run one at a time,    *)
(* but the console can load a module while a worker reloads it: only the   *)
(* opening of the library takes m_tmModule, and a worker holds it for the  *)
(* whole of its reload.  Memory one of them has freed reads as it was.     *)
(*                                                                         *)
(* A command list entry (_ClientCommandInfo) is kept at its address,       *)
(* because m_objModuleClientList remembers entries by their addresses.     *)
(* Every waiting module has the update index 1, as in the code.            *)
(***************************************************************************)
EXTENDS Integers, Sequences, FiniteSets

CONSTANTS
    Modules,      \* names a console command can give
    Commands,     \* command ids
    Subscribes,   \* the commands the LoadModuleData of a module registers
    Loaded,       \* modules loaded when the server starts
    Infos,        \* addresses of the manager's _ClientCommandInfo objects
    WorkerCount,
    MaxQueue,     \* m_u4MaxQueue
    Operations,   \* the console commands given: "load", "unload", "reload"
    MaxOps,       \* bound: console commands
    MaxMessages,  \* bound: messages for the workers
    Console, Free, Nil

Workers == 0 .. WorkerCount - 1
Senders == Workers \cup {Console}

\* The static CClientCommand object of a module, in one mapping of its
\* library.  A pointer to it means nothing once the library is unmapped.
Objects == Modules \X (1 .. MaxOps + 1)
Library(o) == o[1]

ASSUME ModuleAssumption == /\ Subscribes \in [Modules -> SUBSET Commands]
                           /\ Loaded \subseteq Modules
                           /\ Operations \subseteq {"load", "unload", "reload"}
                           /\ Free \notin Commands \X Objects
                           /\ Nil \notin Modules \cup Objects
                           /\ Commands \cap {0, 1} = {}
ASSUME NumberAssumption == /\ WorkerCount \in Nat \ {0} /\ MaxQueue \in Nat \ {0}
                           /\ MaxOps \in Nat /\ MaxMessages \in Nat
                           /\ Console \notin Workers

VARIABLES
    info,      \* m_objClientCommandList: the entries in use, by address
    clients,   \* m_objModuleClientList: the addresses a module's entries had
    modules,   \* m_objHashModuleList
    refs,      \* how often the library of a module is open
    mapped,    \* how often it has been mapped
    waiting,   \* m_vecWaitUnloadModule
    index,     \* m_u4UpdateIndex
    pc,        \* of the console thread and of each worker
    target,    \* the service a thread puts its next update to
    sent,      \* u4UpdateIndex of the updates it puts
    loading,   \* the object of the library it has opened in a LoadModule
    named,     \* the module and kind of the console command under way
    ops,       \* console commands given
    queue,     \* of each worker: commands and update indexes
    copy,      \* m_objClientCommandList of each worker
    pending,   \* command lists CopyMessageManagerList has still to copy
    todo,      \* objects DoMessage has still to call
    running,   \* the object whose code the worker runs
    messages,  \* messages put
    collided,  \* history: modules reloaded while the console was loading them
    due,       \* history: workers for whom an update with index 1 has been under
               \* way since the lists last changed
    skipped    \* history: workers an update was not put to

loader == <<info, clients, modules, refs, mapped, waiting>>
console == <<index, named, ops>>
sending == <<target, sent>>
calls == <<todo, running>>
history == <<due, skipped>>
vars == <<loader, console, sending, loading, pc, queue, copy, pending, calls,
          messages, collided, history>>

\* Where a thread is: in LoadModule, in the rest of a console command or of an
\* update, or in DoMessage.
Loading == {"find", "retire", "add", "register"}
Points == Loading \cup {"idle", "move", "index", "notify", "unload",
                        "reloaded", "copy", "copying", "call"}

TypeOK ==
    /\ info \in [Infos -> (Commands \X Objects) \cup {Free}]
    /\ clients \in [Modules -> SUBSET Infos]
    /\ modules \in SUBSET Modules
    /\ refs \in [Modules -> Nat]
    /\ mapped \in [Modules -> 0 .. MaxOps + 1]
    /\ waiting \in Seq([module : Modules, reload : BOOLEAN])
    /\ index \in {0, 1}
    /\ pc \in [Senders -> Points]
    /\ target \in [Senders -> Workers]
    /\ sent \in [Senders -> {0, 1}]
    /\ loading \in [Senders -> Objects \cup {Nil}]
    /\ named \in [module : Modules, reload : BOOLEAN] \cup {Nil}
    /\ ops \in 0 .. MaxOps
    /\ queue \in [Workers -> Seq(Commands \cup {0, 1})]
    /\ copy \in [Workers -> SUBSET (Commands \X Objects)]
    /\ pending \in [Workers -> SUBSET Commands]
    /\ todo \in [Workers -> SUBSET Objects]
    /\ running \in [Workers -> Objects \cup {Nil}]
    /\ messages \in 0 .. MaxMessages
    /\ collided \in SUBSET Modules
    /\ due \in SUBSET Workers /\ skipped \in SUBSET Workers

-----------------------------------------------------------------------------
(* The manager's lists. *)

InUse == {a \in Infos : info[a] # Free}
Registered == {info[a] : a \in InUse}

\* AddClientCommand for each command of m, at any addresses that are free
\* in the entries e.
Additions(e, m) ==
    {f \in [Subscribes[m] -> {a \in Infos : e[a] = Free}] :
        \A c, d \in Subscribes[m] : f[c] = f[d] => c = d}

\* UnLoadModuleData of the modules: DelClientCommand for each command, which
\* removes one entry with the module's object.
UnLoadModuleData(m) ==
    LET Own(c) == {a \in Infos : info[a] = <<c, <<m, mapped[m]>>>>}
    IN  {d \in SUBSET UNION {Own(c) : c \in Subscribes[m]} :
            \A c \in Subscribes[m] : Own(c) # {} => \E a \in Own(c) : d \cap Own(c) = {a}}

Freed(d) == [a \in Infos |-> IF a \in d THEN Free ELSE info[a]]

-----------------------------------------------------------------------------
\* The server has loaded its modules and the workers have their copies.
AtStart == UNION {{<<c, <<m, 1>>>> : c \in Subscribes[m]} : m \in Loaded}

Init ==
    /\ info \in [Infos -> AtStart \cup {Free}]
    /\ \A x \in AtStart : \E a \in Infos : {b \in Infos : info[b] = x} = {a}
    /\ clients = [m \in Modules |-> {a \in InUse : Library(info[a][2]) = m}]
    /\ modules = Loaded
    /\ refs = [m \in Modules |-> IF m \in Loaded THEN 1 ELSE 0]
    /\ mapped = refs
    /\ waiting = << >>
    /\ index = 0
    /\ pc = [s \in Senders |-> "idle"]
    /\ target = [s \in Senders |-> 0]
    /\ sent = [s \in Senders |-> 0]
    /\ loading = [s \in Senders |-> Nil]
    /\ named = Nil
    /\ ops = 0
    /\ queue = [w \in Workers |-> << >>]
    /\ copy = [w \in Workers |-> Registered]
    /\ pending = [w \in Workers |-> {}]
    /\ todo = [w \in Workers |-> {}]
    /\ running = [w \in Workers |-> Nil]
    /\ messages = 0
    /\ collided = {}
    /\ due = Workers /\ skipped = {}

\* Only the workers ws are sure to copy the lists if this step changes them.
Changed(ws) == due' = IF info' = info THEN due ELSE ws

Step(s, from, to) == pc[s] = from /\ pc' = [pc EXCEPT ![s] = to]

-----------------------------------------------------------------------------
(* CLoadModule::LoadModule, by the console or by a worker that reloads. *)

\* m_tmModule: a worker has it for the whole of its reload.
Unlocked == \A w \in Workers : pc[w] \notin Loading

\* s has opened m and m_objHashModuleList does not know of it yet.
Holds(s, m) == pc[s] \in {"find", "retire", "add"} /\ Library(loading[s]) = m

\* LoadModuleInfo opens the library, which is open r times already.
LoadModuleInfo(s, m, r) ==
    LET g == IF r = 0 THEN mapped[m] + 1 ELSE mapped[m]
    IN  /\ refs' = [refs EXCEPT ![m] = r + 1]
        /\ mapped' = [mapped EXCEPT ![m] = g]
        /\ loading' = [loading EXCEPT ![s] = <<m, g>>]

\* m_objHashModuleList is searched for an old entry of the module.
Find(s) ==
    /\ \/ Step(s, "find", "retire") /\ Library(loading[s]) \in modules
       \/ Step(s, "find", "add") /\ Library(loading[s]) \notin modules
    /\ UNCHANGED <<loader, console, sending, loading, queue, copy, pending,
                   calls, messages, collided, history>>

\* The old entry's library is closed and its name removed from the table, by
\* then perhaps not for the first time, or of another entry.
Retire(s) ==
    LET m == Library(loading[s])
    IN  /\ Step(s, "retire", "add")
        /\ refs' = [refs EXCEPT ![m] = @ - 1]
        /\ modules' = modules \ {m}
        /\ UNCHANGED <<info, clients, mapped, waiting, console, sending,
                       loading, queue, copy, pending, calls, messages,
                       collided, history>>

\* Where the load of s ends: the console tells the workers of a module that
\* it has loaded, a worker does not look at the answer.
LoadEnd(s, from, loaded) ==
    /\ Step(s, from, IF s # Console THEN "reloaded"
                     ELSE IF loaded THEN "notify" ELSE "idle")
    /\ loading' = [loading EXCEPT ![s] = Nil]

\* Add_Hash_Data of the new entry.
List(s) ==
    /\ Step(s, "add", "register")
    /\ Library(loading[s]) \notin modules
    /\ modules' = modules \cup {Library(loading[s])}
    /\ UNCHANGED <<info, clients, refs, mapped, waiting, console, sending,
                   loading, queue, copy, pending, calls, messages, collided,
                   history>>

\* It refuses a name the table has: the new entry is deleted, and the library
\* it has opened stays open.
ListRefused(s) ==
    /\ LoadEnd(s, "add", FALSE)
    /\ Library(loading[s]) \in modules
    /\ UNCHANGED <<loader, console, sending, queue, copy, pending, calls,
                   messages, collided, history>>

\* LoadModuleData registers the commands of the module.  The updates the
\* console sends after it have the index 0.
Register(s) ==
    LET o == loading[s]
        m == Library(o)
    IN  /\ LoadEnd(s, "register", TRUE)
        /\ \E f \in Additions(info, m) :
            /\ info' = [a \in Infos |->
                           IF \E c \in Subscribes[m] : f[c] = a
                           THEN <<CHOOSE c \in Subscribes[m] : f[c] = a, o>>
                           ELSE info[a]]
            /\ clients' = [clients EXCEPT
                              ![m] = @ \cup {f[c] : c \in Subscribes[m]}]
        /\ sent' = IF s = Console THEN [sent EXCEPT ![s] = 0] ELSE sent
        /\ Changed({s} \cap Workers)
        /\ UNCHANGED <<modules, refs, mapped, waiting, console, target, queue,
                       copy, pending, calls, messages, collided, skipped>>

LoadModule(s) == Find(s) \/ Retire(s) \/ List(s) \/ ListRefused(s) \/ Register(s)

-----------------------------------------------------------------------------
(* The console thread. *)

\* DoMessage_LoadModule: a load that fails sends no updates.
Load(m) ==
    /\ "load" \in Operations /\ ops < MaxOps /\ ops' = ops + 1
    /\ Unlocked
    /\ \/ Step(Console, "idle", "find") /\ LoadModuleInfo(Console, m, refs[m])
       \/ Step(Console, "idle", "idle") /\ UNCHANGED <<refs, mapped, loading>>
    /\ UNCHANGED <<info, clients, modules, waiting, index, named, sending,
                   queue, copy, pending, calls, messages, collided, history>>

\* The entries of the module are left to UnLoadModuleData.
ReleaseNothing(m, kind) ==
    /\ kind \in Operations /\ ops < MaxOps /\ ops' = ops + 1
    /\ clients[m] # {}
    /\ Step(Console, "idle", "move")
    /\ named' = [module |-> m, reload |-> kind = "reload"]
    /\ UNCHANGED <<loader, index, sending, loading, queue, copy, pending,
                   calls, messages, collided, history>>

\* UnloadModuleCommand, its loop: it frees the entry at every address the
\* module ever had that is in use, whichever module uses it now.
Release(m, kind) ==
    /\ kind \in Operations /\ ops < MaxOps /\ ops' = ops + 1
    /\ clients[m] # {}
    /\ Step(Console, "idle", "move")
    /\ info' = Freed(clients[m])
    /\ named' = [module |-> m, reload |-> kind = "reload"]
    /\ Changed({})
    /\ UNCHANGED <<clients, modules, refs, mapped, waiting, index, sending,
                   loading, queue, copy, pending, calls, messages, collided,
                   skipped>>

\* UnloadModuleCommand of a module that never registered a command.
ReleaseUnknown(m, kind) ==
    /\ kind \in Operations /\ ops < MaxOps /\ ops' = ops + 1
    /\ clients[m] = {}
    /\ Step(Console, "idle", "notify")
    /\ index' = 0
    /\ sent' = [sent EXCEPT ![Console] = 0]
    /\ UNCHANGED <<loader, named, target, loading, queue, copy, pending,
                   calls, messages, collided, history>>

DoMessage_UnLoadModule(m) == Release(m, "unload") \/ ReleaseUnknown(m, "unload")

DoMessage_ReLoadModule(m) == Release(m, "reload") \/ ReleaseUnknown(m, "reload")

\* The module stays in m_objHashModuleList.
MoveKeeps ==
    /\ Unlocked /\ Step(Console, "move", "index")
    /\ waiting' = IF named.module \in modules THEN Append(waiting, named) ELSE waiting
    /\ UNCHANGED <<info, clients, modules, refs, mapped, console, sending,
                   loading, queue, copy, pending, calls, messages, collided,
                   history>>

\* MoveUnloadList.
Move ==
    /\ Unlocked /\ Step(Console, "move", "index")
    /\ waiting' = IF named.module \in modules THEN Append(waiting, named) ELSE waiting
    /\ modules' = modules \ {named.module}
    /\ UNCHANGED <<info, clients, refs, mapped, console, sending, loading,
                   queue, copy, pending, calls, messages, collided, history>>

\* m_u4UpdateIndex is set, and read for the updates.
SetIndex ==
    /\ Step(Console, "index", "notify")
    /\ index' = 1
    /\ sent' = [sent EXCEPT ![Console] = 1]
    /\ named' = Nil
    /\ due' = Workers
    /\ UNCHANGED <<loader, ops, target, loading, queue, copy, pending, calls,
                   messages, collided, skipped>>

-----------------------------------------------------------------------------
\* The last service is not recognised.
PutUpdatePast(s) ==
    LET w == target[s]
        full == Len(queue[w]) >= MaxQueue
    IN  /\ pc[s] = "notify"
        /\ queue' = IF full THEN queue ELSE [queue EXCEPT ![w] = Append(@, sent[s])]
        /\ target' = [target EXCEPT ![s] = IF full THEN 0 ELSE w + 1]
        /\ pc' = [pc EXCEPT ![s] = IF ~full THEN "notify"
                                   ELSE IF s = Console THEN "idle" ELSE "copy"]
        /\ skipped' = skipped \cup IF full THEN w .. WorkerCount - 1 ELSE {}
        /\ UNCHANGED <<loader, console, sent, loading, copy, pending, calls,
                       messages, collided, due>>

\* CMessageServiceGroup::PutUpdateCommandMessage, by the console or by a
\* worker that has reloaded a module.  The first full queue ends it.
PutUpdate(s) ==
    LET w == target[s]
        full == Len(queue[w]) >= MaxQueue
        last == full \/ w = WorkerCount - 1
    IN  /\ pc[s] = "notify"
        /\ queue' = IF full THEN queue ELSE [queue EXCEPT ![w] = Append(@, sent[s])]
        /\ target' = [target EXCEPT ![s] = IF last THEN 0 ELSE w + 1]
        /\ pc' = [pc EXCEPT ![s] = IF ~last THEN "notify"
                                   ELSE IF s = Console THEN "idle" ELSE "copy"]
        /\ skipped' = skipped \cup IF full THEN w .. WorkerCount - 1 ELSE {}
        /\ UNCHANGED <<loader, console, sent, loading, copy, pending, calls,
                       messages, collided, due>>

\* A message for a worker.
PutMessage(w, c) ==
    /\ messages < MaxMessages
    /\ Len(queue[w]) < MaxQueue
    /\ messages' = messages + 1
    /\ queue' = [queue EXCEPT ![w] = Append(@, c)]
    /\ UNCHANGED <<loader, console, sending, loading, pc, copy, pending,
                   calls, history, collided>>

-----------------------------------------------------------------------------
(* A worker: CMessageService::svc. *)

Take(w, x, to) ==
    /\ Step(w, "idle", to)
    /\ queue[w] # << >> /\ Head(queue[w]) = x
    /\ queue' = [queue EXCEPT ![w] = Tail(@)]

\* The index of the updates is 1, and svc waits for a greater one.
TakeGreaterIndex(w) ==
    /\ Take(w, 0, "idle") \/ Take(w, 1, "idle")
    /\ UNCHANGED <<loader, console, sending, loading, copy, pending, calls,
                   messages, collided, history>>

\* svc ignores an update with the index 0.
TakeUpdate(w) ==
    /\ Take(w, 0, "idle") \/ Take(w, 1, "unload")
    /\ UNCHANGED <<loader, console, sending, loading, copy, pending, calls,
                   messages, collided, history>>

\* UnloadListUpdate has m_tmModule from its first line to its last: it calls
\* UnLoadModuleData and closes the library.
UnloadModule(w) ==
    /\ waiting # << >> /\ ~Head(waiting).reload /\ Unlocked
    /\ Step(w, "unload", "copy")
    /\ waiting' = Tail(waiting)
    /\ LET m == Head(waiting).module
       IN  \E d \in UnLoadModuleData(m) :
               /\ info' = Freed(d)
               /\ refs' = [refs EXCEPT ![m] = @ - 1]
    /\ Changed({w})
    /\ UNCHANGED <<clients, modules, mapped, console, sending, loading, queue,
                   copy, pending, calls, messages, collided, skipped>>

\* A reload opens it again, if it can, and goes on in LoadModule.  (Only a
\* Retire of the console comes between the two, and its order with them makes
\* no difference: the console has the library open.)
ReloadModule(w) ==
    /\ waiting # << >> /\ Head(waiting).reload /\ Unlocked
    /\ waiting' = Tail(waiting)
    /\ LET m == Head(waiting).module
       IN  /\ \E d \in UnLoadModuleData(m) : info' = Freed(d)
           /\ \/ /\ Step(w, "unload", "find")
                 /\ LoadModuleInfo(w, m, refs[m] - 1)
                 /\ collided' = collided \cup IF Holds(Console, m) THEN {m} ELSE {}
              \/ /\ Step(w, "unload", "reloaded")
                 /\ refs' = [refs EXCEPT ![m] = @ - 1]
                 /\ UNCHANGED <<mapped, loading, collided>>
    /\ Changed({w})
    /\ UNCHANGED <<clients, modules, console, sending, queue, copy, pending,
                   calls, messages, skipped>>

NoneWaiting(w) ==
    /\ waiting = << >> /\ Unlocked
    /\ Step(w, "unload", "copy")
    /\ UNCHANGED <<loader, console, sending, loading, queue, copy, pending,
                   calls, messages, collided, history>>

\* The worker that reloaded reads m_u4UpdateIndex for the others.
Renotify(w) ==
    /\ Step(w, "reloaded", "notify")
    /\ sent' = [sent EXCEPT ![w] = index]
    /\ due' = IF index = 1 THEN Workers ELSE due
    /\ UNCHANGED <<loader, console, target, loading, queue, copy, pending,
                   calls, messages, collided, skipped>>

\* CopyMessageManagerList closes the old copy, takes the lists there are and
\* copies one after the other.
CopyBegin(w) ==
    /\ Step(w, "copy", "copying")
    /\ copy' = [copy EXCEPT ![w] = {}]
    /\ pending' = [pending EXCEPT ![w] = {x[1] : x \in Registered}]
    /\ UNCHANGED <<loader, console, sending, loading, queue, calls, messages,
                   collided, history>>

CopyList(w) ==
    /\ pc[w] = "copying"
    /\ \E c \in pending[w] :
        /\ copy' = [copy EXCEPT ![w] = @ \cup {x \in Registered : x[1] = c}]
        /\ pending' = [pending EXCEPT ![w] = @ \ {c}]
    /\ UNCHANGED <<loader, console, sending, loading, pc, queue, calls,
                   messages, collided, history>>

CopyEnd(w) ==
    /\ pending[w] = {}
    /\ Step(w, "copying", "idle")
    /\ UNCHANGED <<loader, console, sending, loading, queue, copy, pending,
                   calls, messages, collided, history>>

\* DoMessage calls every object its copy has for the command.
TakeMessage(w) ==
    /\ \E c \in Commands :
        /\ Take(w, c, "call")
        /\ todo' = [todo EXCEPT ![w] = {x[2] : x \in {y \in copy[w] : y[1] = c}}]
    /\ UNCHANGED <<loader, console, sending, loading, copy, pending, running,
                   messages, collided, history>>

Call(w) ==
    /\ pc[w] = "call"
    /\ \E o \in todo[w] :
        /\ running' = [running EXCEPT ![w] = o]
        /\ todo' = [todo EXCEPT ![w] = @ \ {o}]
    /\ UNCHANGED <<loader, console, sending, loading, pc, queue, copy,
                   pending, messages, collided, history>>

Return(w) ==
    /\ todo[w] = {}
    /\ Step(w, "call", "idle")
    /\ running' = [running EXCEPT ![w] = Nil]
    /\ UNCHANGED <<loader, console, sending, loading, queue, copy, pending,
                   todo, messages, collided, history>>

Work(w) ==
    \/ TakeUpdate(w) \/ UnloadModule(w) \/ ReloadModule(w) \/ NoneWaiting(w)
    \/ LoadModule(w) \/ Renotify(w) \/ PutUpdate(w)
    \/ CopyBegin(w) \/ CopyList(w) \/ CopyEnd(w)
    \/ TakeMessage(w) \/ Call(w) \/ Return(w)

ConsoleStep == LoadModule(Console) \/ Move \/ SetIndex \/ PutUpdate(Console)

Next ==
    \/ \E m \in Modules :
           Load(m) \/ DoMessage_UnLoadModule(m) \/ DoMessage_ReLoadModule(m)
    \/ ConsoleStep
    \/ \E w \in Workers, c \in Commands : PutMessage(w, c)
    \/ \E w \in Workers : Work(w)

Spec == Init /\ [][Next]_vars

\* The threads are scheduled; console commands and messages come as they like.
FairSpec == Spec /\ WF_vars(ConsoleStep) /\ \A w \in Workers : WF_vars(Work(w))

-----------------------------------------------------------------------------
(* Properties. *)

Owners(m) == Cardinality({m} \cap modules)
             + Cardinality({i \in DOMAIN waiting : waiting[i].module = m})

Holders(m) == {s \in Senders : Holds(s, m)}

\* Every open library has exactly one owner, m_objHashModuleList, an entry of
\* the waiting list or a load under way: no order of console commands and
\* workers closes a library twice or forgets to close one.  Only when a worker
\* reloads a module the console is loading can the table refuse one of the two
\* (LoadModule.cpp:93), whose library then stays open; and even then no
\* library that has an owner is closed.
OpenOnce ==
    \A m \in Modules :
        /\ m \notin collided => refs[m] = Owners(m) + Cardinality(Holders(m))
        /\ Holders(m) = {} => refs[m] >= Owners(m)

Mapped(o) == refs[Library(o)] > 0 /\ o[2] = mapped[Library(o)]

\* The manager never lists an object of an unmapped library, so a copy made
\* now is safe to use until the next unload.
RegisteredMapped == \A x \in Registered : Mapped(x[2])

\* LoadModule.h:81: a library is released when all the workers have answered.
\* So no worker ever runs code of an unmapped library.
RunsMappedCode == \A w \in Workers : running[w] # Nil => Mapped(running[w])

\* MessageService.cpp:170 and 934: all workers update their copies.  When the
\* console has gone quiet, every module that waits to be unloaded is unloaded,
\* and every worker for whom an update was under way since the lists last
\* changed has the lists of the manager, in whatever order the workers unload,
\* reload and copy; but for what a full queue has cost.
Settles ==
    <>[](/\ waiting = << >> \/ skipped # {}
         /\ \A w \in due \ skipped : copy[w] = Registered)

\* ConsoleMessage.cpp:876: when a module is loaded, all workers update their
\* copies.
CopiesFollow == <>[](\A w \in Workers : copy[w] = Registered)
=============================================================================
