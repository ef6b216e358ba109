------------------------------ MODULE KeyedPool ------------------------------
(***************************************************************************)
(* What the users of CHashTable (Common/HashTable.h) rely on, without      *)
(* buckets, chains, cell pools or cursors: a table of bounded capacity     *)
(* that keeps, for each key, the objects stored under it in the order of   *)
(* their arrival.  Add_Hash_Data refuses a key that is present; Push does  *)
(* not look, so a key may hold several objects; Get_Hash_Box_Data answers  *)
(* the newest and Del_Hash_Data removes the oldest; Pop takes the oldest   *)
(* object of some key.  HashTable implements this specification.           *)
(***************************************************************************)
EXTENDS Integers, Sequences, FiniteSets

CONSTANTS Keys,      \* the keys callers use
          LongKeys,  \* those that do not fit the key buffer of a cell
          Objects,   \* the pointers stored
          Capacity,  \* nHashCount
          Nil        \* NULL

VARIABLES entries,   \* the objects held under each key, oldest first
          answer     \* what the last call returned

vars == <<entries, answer>>

Places == UNION {{k} \X DOMAIN entries[k] : k \in Keys}

Full == Cardinality(Places) = Capacity

Holds(k) == entries[k] # << >>

Store(k, o) == entries' = [entries EXCEPT ![k] = Append(@, o)]

Remove(k) == entries' = [entries EXCEPT ![k] = Tail(@)]

TypeOK ==
    /\ entries \in [Keys -> Seq(Objects)]
    /\ answer \in Objects \cup {Nil, TRUE, FALSE}

Init ==
    /\ entries = [k \in Keys |-> << >>]
    /\ answer = Nil

Add(k, o) ==
    LET accepted == k \notin LongKeys /\ ~Holds(k) /\ ~Full
    IN  /\ answer' = accepted
        /\ IF accepted THEN Store(k, o) ELSE UNCHANGED entries

Push(k, o) ==
    /\ k \notin LongKeys
    /\ answer' = ~Full
    /\ IF Full THEN UNCHANGED entries ELSE Store(k, o)

\* A lookup that finds nothing answers NULL.
Get(k) ==
    /\ answer' = IF Holds(k) THEN entries[k][Len(entries[k])] ELSE Nil
    /\ UNCHANGED entries

\* The return value of a deletion that finds nothing is left open.
Del(k) ==
    \/ Holds(k) /\ answer' = TRUE /\ Remove(k)
    \/ ~Holds(k) /\ answer' \in BOOLEAN /\ UNCHANGED entries

Pop ==
    \/ \E k \in Keys : Holds(k) /\ answer' = Head(entries[k]) /\ Remove(k)
    \/ answer' = Nil /\ Places = {} /\ UNCHANGED entries

Clear ==
    /\ entries' = [k \in Keys |-> << >>]
    /\ UNCHANGED answer

Next ==
    \/ \E k \in Keys, o \in Objects : Add(k, o) \/ Push(k, o)
    \/ \E k \in Keys : Get(k) \/ Del(k)
    \/ Pop
    \/ Clear

Spec == Init /\ [][Next]_vars
=============================================================================
