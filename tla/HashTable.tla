------------------------------ MODULE HashTable ------------------------------
(***************************************************************************)
(* CHashTable<T> of Common/HashTable.h, with the two fixed pools it is     *)
(* built from: CHashPool (the cells that hold a key and a pointer) and     *)
(* CHashLinkPool (the nodes of the doubly linked chains).  One memory      *)
(* block of nHashCount cells, nHashCount links and nHashCount chain heads  *)
(* is allocated by Init and never grows.  The class has no lock of its     *)
(* own, and each public operation is one action: most of its users hold a  *)
(* lock around the call; those that do not are outside this module.        *)
(*                                                                         *)
(* A pool slot is named by its index, a NULL pointer is Nil.  A key is     *)
(* known to the table only through its bucket, HashString(key) % count,    *)
(* and whether strlen(key) reaches the key length of the cells.            *)
(***************************************************************************)
EXTENDS Integers, Sequences, FiniteSets, Selection

CONSTANTS Keys, LongKeys, Objects, Nil,
          Count,     \* nHashCount
          Bucket     \* HashString(key, nHashCount), a function of the key

Slots == 0 .. Count - 1

ASSUME CountAssumption == Count \in Nat \ {0}
ASSUME BucketAssumption == Bucket \in [Keys -> Slots]
ASSUME LongKeysAssumption == LongKeys \subseteq Keys
ASSUME NilAssumption == Nil \notin Objects \cup Slots \cup Keys

VARIABLES
    cell,        \* m_objHashPool.m_lpTable
    cellUsed,    \* m_objHashPool.m_nUsedCount
    cellCurr,    \* m_objHashPool.m_nCurrIndex
    link,        \* m_objHashLinkPool.m_lpTable
    linkUsed,    \* m_objHashLinkPool.m_nUsedCount
    linkCurr,    \* m_objHashLinkPool.m_nCurrIndex
    table,       \* m_lpTable, the head of each chain
    popCurr,     \* m_nCurrLinkIndex
    answer       \* what the last call returned

cells == <<cell, cellUsed, cellCurr>>
links == <<link, linkUsed, linkCurr>>
vars == <<cells, links, table, popCurr, answer>>

FreeCell == [exists |-> FALSE, key |-> Nil, value |-> Nil]
FreeLink == [exists |-> FALSE, data |-> Nil, next |-> Nil, perv |-> Nil]

TypeOK ==
    /\ cell \in [Slots -> [exists : BOOLEAN, key : Keys \cup {Nil},
                           value : Objects \cup {Nil}]]
    /\ link \in [Slots -> [exists : BOOLEAN, data : Slots \cup {Nil},
                           next : Slots \cup {Nil}, perv : Slots \cup {Nil}]]
    /\ table \in [Slots -> Slots \cup {Nil}]
    /\ cellUsed \in 0 .. Count /\ linkUsed \in 0 .. Count
    /\ cellCurr \in Slots /\ linkCurr \in Slots /\ popCurr \in Slots
    /\ answer \in Objects \cup {Nil, TRUE, FALSE}

-----------------------------------------------------------------------------
(* Reading the structure. *)

Least(S) == CHOOSE i \in S : \A j \in S : i <= j

\* The first element of S at or after the cursor, else the first before it.
RoundRobin(S, curr) ==
    LET ahead == {i \in S : i >= curr}
    IN  Least(IF ahead # {} THEN ahead ELSE S)

\* A full pool hands out the slot under its cursor.
FreeSlotUnchecked(pool, used, curr) ==
    LET free == {i \in Slots : ~pool[i].exists}
    IN  IF free = {} THEN curr ELSE RoundRobin(free, curr)

\* Create of both pools: the slot it hands out, Nil when the pool is full.
FreeSlot(pool, used, curr) ==
    LET free == {i \in Slots : ~pool[i].exists}
    IN  IF used = Count \/ free = {} THEN Nil ELSE RoundRobin(free, curr)

\* The links of a bucket in the order m_pNext gives.
Chain(b) ==
    LET after == [l \in Slots \cup {Nil} |-> IF l = Nil THEN Nil ELSE link[l].next]
        walk[n \in Slots] == IF n = 0 THEN table[b] ELSE after[walk[n - 1]]
    IN  [n \in 1 .. Cardinality({m \in Slots : walk[m] # Nil}) |-> walk[n - 1]]

KeyOf(l) == cell[link[l].data].key

\* The keys of a bucket are not compared.
MatchesBucket(k) ==
    Picked(Chain(Bucket[k]), {l \in Slots : link[l].data # Nil})

\* The links of the chain of k that carry k.
Matches(k) ==
    Picked(Chain(Bucket[k]), {l \in Slots : link[l].data # Nil /\ KeyOf(l) = k})

LastLink(b) == IF table[b] = Nil THEN Nil ELSE Chain(b)[Len(Chain(b))]

-----------------------------------------------------------------------------
(* Changing the structure. *)

Init ==
    /\ cell = [i \in Slots |-> FreeCell]
    /\ link = [i \in Slots |-> FreeLink]
    /\ table = [i \in Slots |-> Nil]
    /\ cellUsed = 0 /\ linkUsed = 0
    /\ cellCurr = 0 /\ linkCurr = 0 /\ popCurr = 0
    /\ answer = Nil

\* A cell and a link are taken from their pools and the link is hung at the
\* end of the chain.  A cell taken before the link pool proves empty is lost.
AppendLink(k, o) ==
    LET c == FreeSlot(cell, cellUsed, cellCurr)
        l == FreeSlot(link, linkUsed, linkCurr)
        last == LastLink(Bucket[k])
        linked == [link EXCEPT ![l].exists = TRUE, ![l].data = c,
                               ![l].perv = last]
    IN  \/ /\ c = Nil
           /\ answer' = FALSE
           /\ UNCHANGED <<cells, links, table>>
        \/ /\ c # Nil
           /\ cellUsed' = cellUsed + 1
           /\ cellCurr' = (c + 1) % Count
           /\ \/ /\ l = Nil
                 /\ cell' = [cell EXCEPT ![c].exists = TRUE]
                 /\ answer' = FALSE
                 /\ UNCHANGED <<links, table>>
              \/ /\ l # Nil
                 /\ cell' = [cell EXCEPT ![c] = [exists |-> TRUE, key |-> k,
                                                 value |-> o]]
                 /\ linkUsed' = linkUsed + 1
                 /\ linkCurr' = (l + 1) % Count
                 /\ \/ /\ last = Nil
                       /\ link' = linked
                       /\ table' = [table EXCEPT ![Bucket[k]] = l]
                    \/ /\ last # Nil
                       /\ link' = [linked EXCEPT ![last].next = l]
                       /\ UNCHANGED table
                 /\ answer' = TRUE

\* The successor keeps its pointer to the link taken out.
UnlinkedForward(m) ==
    [i \in Slots |->
        IF i = m THEN FreeLink
        ELSE [link[i] EXCEPT !.next = IF i = link[m].perv THEN link[m].next
                                      ELSE @]]

\* The chain of m with m taken out, as the table of links sees it.
Unlinked(m) ==
    LET p == link[m].perv
        n == link[m].next
    IN  [i \in Slots |->
            IF i = m THEN FreeLink
            ELSE [link[i] EXCEPT !.next = IF i = p THEN n ELSE @,
                                 !.perv = IF i = n THEN p ELSE @]]

\* DelHashTablePos when link m of bucket b is the first that carries the key.
Unlink(m, b) ==
    /\ link' = Unlinked(m)
    /\ table' = IF link[m].perv = Nil THEN [table EXCEPT ![b] = link[m].next]
                ELSE table
    /\ cell' = [cell EXCEPT ![link[m].data] = FreeCell]
    /\ cellUsed' = cellUsed - 1
    /\ linkUsed' = linkUsed - 1
    /\ UNCHANGED <<cellCurr, linkCurr>>

-----------------------------------------------------------------------------
(* The public operations. *)

\* Add_Hash_Data: a key that is too long or present is refused.
Add(k, o) ==
    /\ IF k \in LongKeys \/ Matches(k) # << >>
       THEN answer' = FALSE /\ UNCHANGED <<cells, links, table>>
       ELSE AppendLink(k, o)
    /\ UNCHANGED popCurr

\* Push: no test of the key.  Its callers, the object pools, use short ids.
Push(k, o) ==
    /\ k \notin LongKeys
    /\ AppendLink(k, o)
    /\ UNCHANGED popCurr

\* Get_Hash_Box_Data: the walk goes on after a match, so the last one counts.
Get(k) ==
    /\ answer' = IF Matches(k) = << >> THEN Nil
                 ELSE cell[link[Matches(k)[Len(Matches(k))]].data].value
    /\ UNCHANGED <<cells, links, table, popCurr>>

\* Del_Hash_Data: -1 (FALSE) when the bucket is empty, 0 (TRUE) when the key
\* was deleted, and 0 as well when other keys share the bucket.
Del(k) ==
    /\ IF Matches(k) # << >> THEN Unlink(Matches(k)[1], Bucket[k])
       ELSE UNCHANGED <<cells, links, table>>
    /\ answer' = (table[Bucket[k]] # Nil)
    /\ UNCHANGED popCurr

\* Pop: the object at the head of the first non-empty chain from the cursor
\* on, taken out by a deletion of its key.
Pop ==
    LET busy == {b \in Slots : table[b] # Nil}
        b == RoundRobin(busy, popCurr)
        k == KeyOf(table[b])
    IN  \/ /\ busy # {}
           /\ answer' = cell[link[table[b]].data].value
           /\ popCurr' = b
           /\ Unlink(Matches(k)[1], b)
        \/ /\ busy = {}
           /\ answer' = Nil
           /\ UNCHANGED <<cells, links, table, popCurr>>

\* Clear: every key of every chain is collected and deleted.
Clear ==
    /\ table' = [b \in Slots |-> Nil]
    /\ link' = [l \in Slots |->
                   IF \E b \in Slots : \E i \in DOMAIN Chain(b) : Chain(b)[i] = l
                   THEN FreeLink ELSE link[l]]
    /\ cell' = [c \in Slots |->
                   IF \E l \in Slots : link[l].data = c /\ link'[l] = FreeLink
                   THEN FreeCell ELSE cell[c]]
    /\ cellUsed' = Cardinality({c \in Slots : cell'[c].exists})
    /\ linkUsed' = Cardinality({l \in Slots : link'[l].exists})
    /\ UNCHANGED <<cellCurr, linkCurr, popCurr, answer>>

Next ==
    \/ \E k \in Keys, o \in Objects : Add(k, o) \/ Push(k, o)
    \/ \E k \in Keys : Get(k) \/ Del(k)
    \/ Pop
    \/ Clear

Spec == Init /\ [][Next]_vars

-----------------------------------------------------------------------------
(* Properties. *)

Linked == UNION {{Chain(b)[i] : i \in DOMAIN Chain(b)} : b \in Slots}

\* The doubly linked chains stay sound under every order of insertions and
\* removals: m_pNext and m_pPerv are inverse, a link hangs in the chain of
\* its own key and nowhere else, and a slot of either pool is marked used
\* exactly when a chain reaches it, so no slot of the fixed block is lost.
ChainsSound ==
    /\ \A l \in Slots : link[l].exists <=> l \in Linked
    /\ \A l \in Linked :
        /\ link[l].next # Nil => link[link[l].next].perv = l
        /\ link[l].perv # Nil => link[link[l].perv].next = l
        /\ link[l].perv = Nil <=> table[Bucket[KeyOf(l)]] = l
        /\ \E i \in DOMAIN Chain(Bucket[KeyOf(l)]) :
               Chain(Bucket[KeyOf(l)])[i] = l
    /\ \A c \in Slots :
        cell[c].exists <=> Cardinality({l \in Linked : link[l].data = c}) = 1
    /\ cellUsed = Cardinality({c \in Slots : cell[c].exists})
    /\ linkUsed = Cardinality(Linked)

ObjectsOf(k) ==
    [i \in DOMAIN Matches(k) |-> cell[link[Matches(k)[i]].data].value]

Abstract == INSTANCE KeyedPool
                WITH Capacity <- Count, entries <- [k \in Keys |-> ObjectsOf(k)]

\* The table of chains behaves, call by call and answer by answer, as the
\* bounded keyed collection its users have in mind.
ImplementsKeyedPool == Abstract!Spec
=============================================================================
