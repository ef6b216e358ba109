------------------------------ MODULE TimeWheel ------------------------------
(***************************************************************************)
(* CTimeWheelLink<CConnectHandler> of Common/TimeWheelLink.h, with which a *)
(* CConnectManager finds the connections that have been silent for         *)
(* MaxConnectTime.  The wheel is a ring of containers (CHashTable), one    *)
(* per CheckAliveTime interval.  A handler that receives a packet is moved *)
(* to the current container; a tick advances to the next container, hands  *)
(* everything in it to the timeout callback and empties it.                *)
(*                                                                         *)
(* Where a handler sits is remembered twice: the container holds it, and   *)
(* m_htIndexList maps it to a cell of m_pBlockIDList that holds the number *)
(* of the container.                                                       *)
(***************************************************************************)
EXTENDS Integers, FiniteSets

CONSTANTS Handlers,     \* the CConnectHandler objects of the pool
          BlockCount,   \* m_nBlackCount, the containers in the ring
          ContainSize,  \* m_nContainSize, the capacity of a container
          Nil           \* NULL

ASSUME BlockAssumption == BlockCount \in Nat /\ BlockCount >= 2
ASSUME SizeAssumption == /\ ContainSize \in Nat \ {0}
                         /\ IsFiniteSet(Handlers)
                         /\ Cardinality(Handlers) <= ContainSize
ASSUME NilAssumption == Nil \notin Nat

Blocks == 0 .. BlockCount - 1
ListSize == BlockCount * ContainSize
Cells == 0 .. ListSize - 1
Invalid == -1

VARIABLES
    current,     \* m_nCurrBlockID
    contain,     \* m_vecHashContain
    index,       \* m_htIndexList, from a handler to a cell
    blockOf,     \* m_pBlockIDList, from a cell to a container
    cursor,      \* m_nBlockIDListIndex
    open,        \* the handlers that carry a connection of this manager
    silent,      \* ticks since the handler was last added, up to BlockCount
    exhausted    \* Get_BlockIDList_Cell has found no cell at least once

wheel == <<current, contain, index, blockOf, cursor>>
vars == <<wheel, open, silent, exhausted>>

TypeOK ==
    /\ current \in Blocks
    /\ contain \in [Blocks -> SUBSET Handlers]
    /\ index \in [Handlers -> Cells \cup {Nil}]
    /\ blockOf \in [Cells -> Blocks \cup {Invalid}]
    /\ cursor \in Cells
    /\ open \in SUBSET Handlers
    /\ silent \in [Handlers -> 0 .. BlockCount]
    /\ exhausted \in BOOLEAN

Init ==
    /\ current = 0
    /\ contain = [b \in Blocks |-> {}]
    /\ index = [h \in Handlers |-> Nil]
    /\ blockOf = [c \in Cells |-> Invalid]
    /\ cursor = 0
    /\ open = {}
    /\ silent = [h \in Handlers |-> 0]
    /\ exhausted = FALSE

-----------------------------------------------------------------------------
(* The wheel. *)

\* Get_BlockIDList_Cell: the first invalid cell from the cursor on, then from
\* the start of the list.
IsFreeCell(c, list) ==
    /\ c \in Cells
    /\ list[c] = Invalid
    /\ \/ c >= cursor /\ \A d \in Cells : cursor <= d /\ d < c => list[d] # Invalid
       \/ /\ c < cursor
          /\ \A d \in Cells : cursor <= d \/ d < c => list[d] # Invalid

\* The cursor never wraps.
NextCellPast(c) == c + 1

NextCell(c) == IF c = ListSize - 1 THEN 0 ELSE c + 1

Known(h) == index[h] # Nil /\ blockOf[index[h]] # Invalid

\* The common end of both branches of Add_TimeWheel_Object: h goes into the
\* current container unless that refuses it, and is then given a cell and an
\* entry of the index, if there is a cell.  The arguments are what the
\* branch has made of the containers, the list and the index.
Place(h, containers, list, entries) ==
    \/ /\ \/ h \in containers[current]
          \/ Cardinality(containers[current]) >= ContainSize
       /\ contain' = containers /\ blockOf' = list /\ index' = entries
       /\ UNCHANGED <<cursor, exhausted>>
    \/ /\ h \notin containers[current]
       /\ Cardinality(containers[current]) < ContainSize
       /\ contain' = [containers EXCEPT ![current] = @ \cup {h}]
       /\ \/ \E c \in Cells :
              /\ IsFreeCell(c, list)
              /\ blockOf' = [list EXCEPT ![c] = current]
              /\ cursor' = NextCell(c)
              /\ index' = IF entries[h] = Nil THEN [entries EXCEPT ![h] = c]
                          ELSE entries
              /\ UNCHANGED exhausted
          \/ /\ \A c \in Cells : list[c] # Invalid
             /\ blockOf' = list /\ index' = entries
             /\ exhausted' = TRUE
             /\ UNCHANGED cursor

\* A known handler stays in the container of its first packet.
AddStays(h) ==
    /\ UNCHANGED current
    /\ \/ ~Known(h) /\ Place(h, contain, blockOf, index)
       \/ Known(h) /\ UNCHANGED <<contain, index, blockOf, cursor, exhausted>>

\* Add_TimeWheel_Object.
Add(h) ==
    /\ UNCHANGED current
    /\ \/ /\ ~Known(h)
          /\ Place(h, contain, blockOf, index)
       \/ /\ Known(h)
          /\ blockOf[index[h]] = current
          /\ UNCHANGED <<contain, index, blockOf, cursor, exhausted>>
       \/ /\ Known(h)
          /\ blockOf[index[h]] # current
          /\ Place(h, [contain EXCEPT ![blockOf[index[h]]] = @ \ {h}],
                   [blockOf EXCEPT ![index[h]] = Invalid],
                   [index EXCEPT ![h] = Nil])

\* The cell is cleared before the container is looked up through it.
DelCellFirst(h) ==
    /\ blockOf' = IF Known(h) THEN [blockOf EXCEPT ![index[h]] = Invalid]
                  ELSE blockOf
    /\ index' = [index EXCEPT ![h] = Nil]
    /\ UNCHANGED <<contain, current, cursor>>

\* The cell stays taken.
DelKeepsCell(h) ==
    /\ \/ Known(h) /\ contain' = [contain EXCEPT ![blockOf[index[h]]] = @ \ {h}]
       \/ ~Known(h) /\ UNCHANGED contain
    /\ index' = [index EXCEPT ![h] = Nil]
    /\ UNCHANGED <<blockOf, current, cursor>>

\* Del_TimeWheel_Object.
Del(h) ==
    /\ \/ /\ Known(h)
          /\ contain' = [contain EXCEPT ![blockOf[index[h]]] = @ \ {h}]
          /\ blockOf' = [blockOf EXCEPT ![index[h]] = Invalid]
       \/ ~Known(h) /\ UNCHANGED <<contain, blockOf>>
    /\ index' = [index EXCEPT ![h] = Nil]
    /\ UNCHANGED <<current, cursor>>

\* The last container is skipped.
NextBlockShort == IF current >= BlockCount - 2 THEN 0 ELSE current + 1

NextBlock == IF current >= BlockCount - 1 THEN 0 ELSE current + 1

Expiring == contain[NextBlock]

\* The entries of the index are kept.
TickKeepsIndex ==
    /\ contain' = [contain EXCEPT ![NextBlock] = {}]
    /\ current' = NextBlock
    /\ UNCHANGED <<index, blockOf, cursor>>

\* Tick: the entries of the index go, the cells they named stay taken.
Tick ==
    /\ index' = [h \in Handlers |-> IF h \in Expiring THEN Nil ELSE index[h]]
    /\ contain' = [contain EXCEPT ![NextBlock] = {}]
    /\ current' = NextBlock
    /\ UNCHANGED <<blockOf, cursor>>

-----------------------------------------------------------------------------
(* Its use by CConnectManager: a handler taken from the pool is added when  *)
(* its connection is registered and again for every packet received, and is *)
(* removed when the connection is closed.  A connection handed to the       *)
(* callback is closed through the send queue, some time later or, when that *)
(* queue is full, not at all.                                               *)

AddConnect(h) ==
    /\ h \notin open
    /\ Add(h)
    /\ open' = open \cup {h}
    /\ silent' = [silent EXCEPT ![h] = 0]

SetConnectTimeWheel(h) ==
    /\ h \in open
    /\ Add(h)
    /\ silent' = [silent EXCEPT ![h] = 0]
    /\ UNCHANGED open

Close(h) ==
    /\ h \in open
    /\ Del(h)
    /\ open' = open \ {h}
    /\ UNCHANGED <<silent, exhausted>>

\* The timer, which does not take the lock of the manager.
handle_timeout ==
    /\ Tick
    /\ silent' = [h \in Handlers |->
                     IF silent[h] < BlockCount THEN silent[h] + 1 ELSE silent[h]]
    /\ UNCHANGED <<open, exhausted>>

Next ==
    \/ \E h \in Handlers :
           AddConnect(h) \/ SetConnectTimeWheel(h) \/ Close(h)
    \/ handle_timeout

Spec == Init /\ [][Next]_vars

-----------------------------------------------------------------------------
(* Properties. *)

\* The container that was current when h was last added.
Age(b) == IF b <= current THEN current - b ELSE current + BlockCount - b

\* Whatever happened before, an entry of the index can be trusted: it names
\* a cell of its own, and the container written in that cell holds the
\* handler.  A removal through the index therefore never takes a handler out
\* of the wrong container.
IndexSound ==
    /\ \A h \in Handlers : index[h] # Nil =>
           blockOf[index[h]] \in Blocks /\ h \in contain[blockOf[index[h]]]
    /\ \A g, h \in Handlers : g # h /\ index[g] # Nil => index[g] # index[h]

\* As long as a cell was found for every handler, the wheel keeps exact time:
\* an open connection that has been silent for fewer than BlockCount ticks
\* is in the container of that age and in no other, one that has been silent
\* longer has been handed to the callback, and no closed handler is left in
\* a container for a later connection to inherit.
KeepsTime ==
    ~exhausted =>
        \A h \in Handlers, b \in Blocks :
            h \in contain[b] <=> h \in open /\ silent[h] = Age(b)

\* As long as a cell was found for every handler, a tick reports a connection
\* at the BlockCount-th tick of its silence, never earlier.
ReportsOnTime ==
    [][current' # current =>
           \A h \in Expiring : ~exhausted => silent[h] + 1 = BlockCount]_vars

\* Cells that hold a container but belong to no entry of the index.
Lost == {c \in Cells : blockOf[c] # Invalid /\ \A h \in Handlers : index[h] # c}

\* A cell is lost exactly when the handler it belongs to times out, and for
\* good: an added, moved or removed handler gives its cell back or keeps it.
\* The wheel can therefore report BlockCount * ContainSize timeouts before
\* Get_BlockIDList_Cell finds no cell, and it then stays without.
LostByTimeouts ==
    [][Lost' = Lost \cup {index[h] : h \in {g \in Handlers :
                  current' # current /\ g \in Expiring /\ index[g] # Nil}}]_vars
=============================================================================
