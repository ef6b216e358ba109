--------------------------- MODULE HashTable_proofs ---------------------------
(***************************************************************************)
(* Theorems about HashTable: the types, the soundness of the doubly linked *)
(* chains and of the two pools, and the refinement of KeyedPool, for every *)
(* capacity, every set of keys and objects and every hash function.        *)
(*                                                                         *)
(* The chains are read from the table by a walk along m_pNext; the proofs  *)
(* speak of a sequence of links per bucket instead.  Shape says that the   *)
(* heads and the links make these sequences, Filled that each link on them *)
(* has a cell of its own with a key of this bucket, and the invariant IInv *)
(* adds that both pools count the links.  A step is a change of one such   *)
(* sequence, a link hung at its end or taken out of its middle, and        *)
(* ChainsAre shows that the walk then finds the changed sequence.  What    *)
(* the table holds for a key, the objects of the links picked from the     *)
(* chain of its bucket, changes with it as KeyedPool says.                 *)
(***************************************************************************)
EXTENDS HashTable, Selection_proofs, FiniteSetTheorems, FunctionTheorems

-----------------------------------------------------------------------------
(* The invariant. *)

\* A sequence of links is the chain that hangs from h: m_pNext runs along it,
\* m_pPerv back.
Path(s, h, lk) ==
    /\ s \in Seq(Slots)
    /\ h = IF s = << >> THEN Nil ELSE s[1]
    /\ \A i \in 1 .. Len(s) :
           /\ lk[s[i]].next = IF i = Len(s) THEN Nil ELSE s[i + 1]
           /\ lk[s[i]].perv = IF i = 1 THEN Nil ELSE s[i - 1]

\* The links on the chains ch.
On(ch) == {l \in Slots : \E b \in Slots : Occurs(l, ch[b])}

\* The heads tb and the links lk make the chains ch: no link stands at two
\* places, and a link at no place is free.
Shape(ch, tb, lk) ==
    /\ ch \in [Slots -> Seq(Slots)]
    /\ \A b \in Slots : Path(ch[b], tb[b], lk)
    /\ \A b, d \in Slots : \A i \in 1 .. Len(ch[b]), j \in 1 .. Len(ch[d]) :
           ch[b][i] = ch[d][j] => b = d /\ i = j
    /\ \A l \in Slots \ On(ch) : lk[l] = FreeLink

UsedCell == [exists : {TRUE}, key : Keys, value : Objects]

\* Every link on a chain has a cell of its own, with a key that belongs to
\* this chain, and a cell without a link is free.
Filled(ch, lk, ce) ==
    /\ \A l \in On(ch) : lk[l].exists = TRUE /\ lk[l].data \in Slots
                         /\ ce[lk[l].data] \in UsedCell
    /\ \A b \in Slots : \A i \in 1 .. Len(ch[b]) :
           Bucket[ce[lk[ch[b][i]].data].key] = b
    /\ \A l, m \in On(ch) : lk[l].data = lk[m].data => l = m
    /\ \A c \in Slots : ce[c] = FreeCell \/ \E l \in On(ch) : lk[l].data = c

Chains == [b \in Slots |-> Chain(b)]

IInv ==
    /\ TypeOK
    /\ Shape(Chains, table, link)
    /\ Filled(Chains, link, cell)
    /\ cellUsed = Cardinality(On(Chains))
    /\ linkUsed = Cardinality(On(Chains))

-----------------------------------------------------------------------------
(* Slots, sets of slots and free slots. *)

LEMMA SlotFacts ==
    /\ Count \in Nat \ {0} /\ Nil \notin Slots /\ Slots \subseteq Nat
    /\ IsFiniteSet(Slots) /\ Cardinality(Slots) = Count
<1>1. Count \in Nat \ {0} /\ Nil \notin Slots
    BY CountAssumption, NilAssumption
<1>2. 0 \in Int /\ Count - 1 \in Int /\ ~ (0 > Count - 1) /\ (Count - 1) - 0 + 1 = Count
    BY <1>1
<1>3. IsFiniteSet(0 .. Count - 1) /\ Cardinality(0 .. Count - 1) = Count
    BY <1>2, FS_Interval
<1> QED BY <1>1, <1>3 DEF Slots

LEMMA SomeSlots ==
    ASSUME NEW S \in SUBSET Slots
    PROVE  IsFiniteSet(S) /\ Cardinality(S) \in 0 .. Count /\ (Cardinality(S) = Count => S = Slots)
<1>1. /\ IsFiniteSet(S) /\ Cardinality(S) <= Count
      /\ Cardinality(Slots) = Cardinality(S) => S = Slots
    BY SlotFacts, FS_Subset
<1>2. Cardinality(S) \in Nat
    BY <1>1, FS_CardinalityType
<1> QED BY <1>1, <1>2, SlotFacts

LEMMA RoundRobinIn ==
    ASSUME NEW S \in SUBSET Slots, S # {}, NEW curr
    PROVE  RoundRobin(S, curr) \in S
<1>1. ASSUME NEW T \in SUBSET Slots, T # {} PROVE Least(T) \in T
    <2>1. T \in SUBSET Nat
        BY SlotFacts
    <2>2. \E i \in T : \A j \in T : i <= j
        BY <1>1, <2>1, SmallestOf
    <2> QED BY <2>2 DEF Least
<1> DEFINE ahead == {i \in S : i >= curr}
<1>2. ahead \in SUBSET Slots
    OBVIOUS
<1> QED BY <1>1, <1>2 DEF RoundRobin

\* Create hands out a free slot; it fails only when the pool is full.
LEMMA FreeSlotIs ==
    ASSUME NEW pool, NEW used, NEW curr,
           used # Count, {i \in Slots : ~pool[i].exists} # {}
    PROVE  FreeSlot(pool, used, curr) \in {i \in Slots : ~pool[i].exists}
<1>1. {i \in Slots : ~pool[i].exists} \in SUBSET Slots
    OBVIOUS
<1> QED BY <1>1, RoundRobinIn DEF FreeSlot

-----------------------------------------------------------------------------
(* Chains. *)

\* Chain, for any head and any table of links.
Follow(h, lk) ==
    LET after == [l \in Slots \cup {Nil} |-> IF l = Nil THEN Nil ELSE lk[l].next]
        walk[n \in Slots] == IF n = 0 THEN h ELSE after[walk[n - 1]]
    IN  [n \in 1 .. Cardinality({m \in Slots : walk[m] # Nil}) |-> walk[n - 1]]

LEMMA ChainFollows ==
    ASSUME NEW b
    PROVE  /\ Chain(b) = Follow(table[b], link)
           /\ Chain(b)' = Follow(table'[b], link')
BY DEF Chain, Follow

\* The walk along m_pNext finds the chain.
LEMMA FollowPath ==
    ASSUME NEW s, NEW h, NEW lk, Path(s, h, lk), Len(s) <= Count
    PROVE  Follow(h, lk) = s
<1> DEFINE after == [l \in Slots \cup {Nil} |-> IF l = Nil THEN Nil ELSE lk[l].next]
           W(f) == f = [n \in Slots |-> IF n = 0 THEN h ELSE after[f[n - 1]]]
           w == [n \in Slots |-> IF n < Len(s) THEN s[n + 1] ELSE Nil]
           v == CHOOSE f : W(f)
<1>1. /\ s \in Seq(Slots) /\ Len(s) \in Nat /\ Count \in Nat \ {0} /\ Slots = 0 .. Count - 1
      /\ Nil \notin Slots /\ Len(s) <= Count
    BY SlotFacts DEF Path, Slots
<1>2. \A i \in 1 .. Len(s) : s[i] \in Slots
    BY <1>1
<1>3. /\ after[Nil] = Nil
      /\ \A i \in 1 .. Len(s) : after[s[i]] = IF i = Len(s) THEN Nil ELSE s[i + 1]
    BY <1>1, <1>2 DEF Path
<1>4. ASSUME NEW n \in Slots
      PROVE  w[n] = IF n = 0 THEN h ELSE after[w[n - 1]]
    <2> HIDE DEF after
    <2>1. CASE n = 0
        BY <1>1, <2>1 DEF Path
    <2>2. CASE n # 0
        <3>1. n - 1 \in Slots /\ (n - 1) + 1 = n
            BY <1>1, <2>2
        <3>2. CASE n - 1 < Len(s)
            <4>1. w[n - 1] = s[n] /\ n \in 1 .. Len(s)
                BY <1>1, <2>2, <3>1, <3>2
            <4>2. after[s[n]] = IF n = Len(s) THEN Nil ELSE s[n + 1]
                BY <1>3, <4>1
            <4>3. w[n] = IF n < Len(s) THEN s[n + 1] ELSE Nil
                OBVIOUS
            <4>4. n = Len(s) <=> ~ (n < Len(s))
                BY <1>1, <4>1
            <4> HIDE DEF w
            <4> QED BY <2>2, <4>1, <4>2, <4>3, <4>4
        <3>3. CASE ~ (n - 1 < Len(s))
            <4>1. w[n - 1] = Nil /\ w[n] = Nil
                BY <1>1, <3>1, <3>3
            <4> HIDE DEF w
            <4> QED BY <1>3, <2>2, <4>1
        <3> QED BY <3>2, <3>3
    <2> QED BY <2>1, <2>2
<1>5. ASSUME NEW f, W(f) PROVE f = w
    <2> DEFINE U == {n \in Nat : n \in Slots => f[n] = w[n]}
    <2>1. \A n \in Slots : f[n] = IF n = 0 THEN h ELSE after[f[n - 1]]
        BY <1>5
    <2> HIDE DEF w, after
    <2>2. 0 \in U
        BY <1>1, <1>4, <2>1
    <2>3. ASSUME NEW n \in Nat, n \in U PROVE n + 1 \in U
        <3> SUFFICES ASSUME n + 1 \in Slots PROVE f[n + 1] = w[n + 1]
            OBVIOUS
        <3>1. n \in Slots /\ (n + 1) - 1 = n /\ n + 1 # 0
            BY <1>1
        <3>2. f[n] = w[n]
            BY <2>3, <3>1
        <3> QED BY <1>4, <2>1, <3>1, <3>2
    <2>4. Nat \subseteq U
        <3> HIDE DEF U
        <3> QED BY <2>2, <2>3, ByInduction
    <2>5. \A n \in Slots : f[n] = w[n]
        BY <2>4, SlotFacts
    <2>6. f = [n \in Slots |-> f[n]] /\ w = [n \in Slots |-> w[n]]
        BY <1>5 DEF w
    <2> QED BY <2>5, <2>6
<1>6. W(w)
    <2> DEFINE d == [n \in Slots |-> IF n = 0 THEN h ELSE after[w[n - 1]]]
    <2>1. d = [n \in Slots |-> d[n]] /\ w = [n \in Slots |-> w[n]]
        OBVIOUS
    <2>2. \A n \in Slots : w[n] = d[n]
        BY <1>4
    <2>3. w = d
        <3> HIDE DEF d, w
        <3> QED BY <2>1, <2>2
    <2> QED BY <2>3
<1>7. v = w
    <2> HIDE DEF W, w
    <2> QED BY <1>5, <1>6
<1>8. Cardinality({m \in Slots : w[m] # Nil}) = Len(s)
    <2>1. ASSUME NEW m \in Slots PROVE w[m] # Nil <=> m \in 0 .. Len(s) - 1
        <3>1. CASE m < Len(s)
            <4>1. m + 1 \in 1 .. Len(s) /\ m \in 0 .. Len(s) - 1
                BY <1>1, <3>1
            <4> QED BY <1>1, <1>2, <3>1, <4>1
        <3>2. CASE ~ (m < Len(s))
            BY <1>1, <3>2
        <3> QED BY <3>1, <3>2
    <2>2. 0 .. Len(s) - 1 \subseteq Slots
        BY <1>1
    <2> HIDE DEF w
    <2>3. {m \in Slots : w[m] # Nil} = 0 .. Len(s) - 1
        BY <2>1, <2>2
    <2>4. Cardinality(0 .. Len(s) - 1) = Len(s)
        <3>1. 0 \in Int /\ Len(s) - 1 \in Int
            BY <1>1
        <3>2. Cardinality(0 .. Len(s) - 1) = IF 0 > Len(s) - 1 THEN 0 ELSE (Len(s) - 1) - 0 + 1
            BY <3>1, FS_Interval
        <3> QED BY <1>1, <3>2
    <2> QED BY <2>3, <2>4
<1>9. [n \in 1 .. Len(s) |-> w[n - 1]] = s
    <2> DEFINE d == [n \in 1 .. Len(s) |-> w[n - 1]]
    <2>1. ASSUME NEW n \in 1 .. Len(s) PROVE w[n - 1] = s[n]
        <3>1. n - 1 \in Slots /\ n - 1 < Len(s) /\ (n - 1) + 1 = n
            BY <1>1
        <3> QED BY <3>1
    <2>2. d = [n \in 1 .. Len(s) |-> d[n]] /\ s = [n \in 1 .. Len(s) |-> s[n]]
        BY <1>1
    <2>3. \A n \in 1 .. Len(s) : d[n] = s[n]
        BY <2>1
    <2> HIDE DEF d
    <2>4. d = s
        BY <2>2, <2>3
    <2> QED BY <2>4 DEF d
<1>10. Follow(h, lk) = [n \in 1 .. Cardinality({m \in Slots : v[m] # Nil}) |-> v[n - 1]]
    BY DEF Follow
<1> HIDE DEF v, w
<1> QED BY <1>7, <1>8, <1>9, <1>10

\* A chain without repetition is not longer than the pool.
LEMMA ShortChain ==
    ASSUME NEW s \in Seq(Slots), Distinct(s)
    PROVE  Len(s) <= Count
<1> DEFINE f == [i \in 1 .. Len(s) |-> s[i]]
<1>1. Len(s) \in Nat /\ \A i \in 1 .. Len(s) : s[i] \in Slots
    OBVIOUS
<1>2. f \in Injection(1 .. Len(s), Slots)
    BY <1>1 DEF Injection, Distinct, IsInjective
<1>3. Cardinality(1 .. Len(s)) <= Count
    <2> HIDE DEF f
    <2> QED BY <1>2, SlotFacts, FS_Injection
<1>4. Cardinality(1 .. Len(s)) = Len(s)
    <2>1. 1 \in Int /\ Len(s) \in Int
        BY <1>1
    <2>2. Cardinality(1 .. Len(s)) = IF 1 > Len(s) THEN 0 ELSE Len(s) - 1 + 1
        BY <2>1, FS_Interval
    <2> QED BY <1>1, <2>2
<1> QED BY <1>3, <1>4

\* Whatever makes the chains is what Chain finds.
LEMMA ShapeChains ==
    ASSUME NEW ch, NEW tb, NEW lk, Shape(ch, tb, lk), NEW b \in Slots
    PROVE  Follow(tb[b], lk) = ch[b]
<1>1. ch[b] \in Seq(Slots) /\ Path(ch[b], tb[b], lk) /\ Distinct(ch[b])
    BY DEF Shape, Distinct
<1> QED BY <1>1, ShortChain, FollowPath

LEMMA ChainsAre ==
    ASSUME NEW ch
    PROVE  /\ Shape(ch, table, link) => Chains = ch
           /\ Shape(ch, table', link') => Chains' = ch
<1>1. ASSUME Shape(ch, table, link) PROVE Chains = ch
    <2>1. \A b \in Slots : Chain(b) = ch[b]
        BY <1>1, ShapeChains, ChainFollows
    <2>2. ch = [b \in Slots |-> ch[b]]
        BY <1>1 DEF Shape
    <2> QED BY <2>1, <2>2 DEF Chains
<1>2. ASSUME Shape(ch, table', link') PROVE Chains' = ch
    <2>1. \A b \in Slots : Chain(b)' = ch[b]
        BY <1>2, ShapeChains, ChainFollows
    <2>2. ch = [b \in Slots |-> ch[b]]
        BY <1>2 DEF Shape
    <2> QED BY <2>1, <2>2 DEF Chains
<1> QED BY <1>1, <1>2
-----------------------------------------------------------------------------
(* Places and counts. *)

\* A link on a chain has one place, and what stands at a place is on a chain.
LEMMA Places ==
    ASSUME NEW ch, NEW tb, NEW lk, Shape(ch, tb, lk)
    PROVE  /\ \A b \in Slots : ch[b] \in Seq(Slots) /\ Len(ch[b]) \in Nat
           /\ \A b \in Slots : \A i \in 1 .. Len(ch[b]) : ch[b][i] \in On(ch)
           /\ \A l \in On(ch) : l \in Slots /\ \E b \in Slots : \E i \in 1 .. Len(ch[b]) : ch[b][i] = l
<1>1. \A b \in Slots : ch[b] \in Seq(Slots)
    BY DEF Shape
<1>2. ASSUME NEW b \in Slots, NEW i \in 1 .. Len(ch[b]) PROVE ch[b][i] \in On(ch)
    <2>1. ch[b][i] \in Slots
        BY <1>1
    <2> QED BY <2>1 DEF On, Occurs
<1>3. \A l \in On(ch) : l \in Slots /\ \E b \in Slots : \E i \in 1 .. Len(ch[b]) : ch[b][i] = l
    BY DEF On, Occurs
<1>4. \A b \in Slots : Len(ch[b]) \in Nat
    BY <1>1
<1> QED BY <1>1, <1>2, <1>3, <1>4

\* A cell is used exactly when a link has it, so there are as many of the ones
\* as of the others.
LEMMA CellsUsed ==
    ASSUME NEW ch, NEW lk, NEW ce, Filled(ch, lk, ce)
    PROVE  /\ \A c \in Slots : ce[c].exists <=> \E l \in On(ch) : lk[l].data = c
           /\ Cardinality({c \in Slots : ce[c].exists}) = Cardinality(On(ch))
<1> DEFINE D == {c \in Slots : ce[c].exists}
           f == [l \in On(ch) |-> lk[l].data]
<1>1. ASSUME NEW c \in Slots PROVE ce[c].exists <=> \E l \in On(ch) : lk[l].data = c
    <2>1. \A l \in On(ch) : lk[l].data = c => ce[c].exists
        BY DEF Filled, UsedCell
    <2>2. ce[c] = FreeCell => ~ ce[c].exists
        BY DEF FreeCell
    <2> QED BY <2>1, <2>2 DEF Filled
<1>2. On(ch) \in SUBSET Slots
    BY DEF On
<1>3. f \in [On(ch) -> D]
    <2>1. \A l \in On(ch) : lk[l].data \in D
        BY <1>1 DEF Filled
    <2> QED BY <2>1
<1>4. \A l, m \in On(ch) : f[l] = f[m] => l = m
    BY DEF Filled
<1>5. \A c \in D : \E l \in On(ch) : f[l] = c
    BY <1>1
<1>6. f \in Bijection(On(ch), D)
    <2> HIDE DEF f, D
    <2> QED BY <1>3, <1>4, <1>5 DEF Bijection, Injection, Surjection, IsInjective
<1>7. ExistsBijection(On(ch), D)
    BY <1>6 DEF ExistsBijection
<1>8. Cardinality(D) = Cardinality(On(ch))
    <2> HIDE DEF D
    <2> QED BY <1>2, <1>7, SomeSlots, FS_Bijection
<1> QED BY <1>1, <1>8

\* While the links in use are fewer than the pool, both pools have a free slot.
LEMMA RoomForBoth ==
    ASSUME NEW ch, NEW tb, NEW lk, NEW ce, Shape(ch, tb, lk), Filled(ch, lk, ce),
           Cardinality(On(ch)) # Count
    PROVE  {c \in Slots : ~ ce[c].exists} # {} /\ {l \in Slots : ~ lk[l].exists} # {}
<1>1. On(ch) \in SUBSET Slots /\ {c \in Slots : ce[c].exists} \in SUBSET Slots
    BY DEF On
<1>2. On(ch) # Slots /\ {c \in Slots : ce[c].exists} # Slots
    <2>1. Cardinality({c \in Slots : ce[c].exists}) # Count
        BY CellsUsed
    <2> QED BY <2>1, SlotFacts
<1>3. PICK l \in Slots : l \notin On(ch)
    BY <1>1, <1>2
<1>4. ~ lk[l].exists
    BY <1>3 DEF Shape, FreeLink
<1> QED BY <1>2, <1>4

\* The free links are those on no chain, the free cells those without a link.
LEMMA FreeOnes ==
    ASSUME NEW ch, NEW tb, NEW lk, NEW ce, Shape(ch, tb, lk), Filled(ch, lk, ce)
    PROVE  /\ \A l \in Slots : ~ lk[l].exists => l \notin On(ch) /\ lk[l] = FreeLink
           /\ \A c \in Slots : ~ ce[c].exists =>
                  ce[c] = FreeCell /\ \A l \in On(ch) : lk[l].data # c
<1>1. ASSUME NEW l \in Slots, ~ lk[l].exists PROVE l \notin On(ch) /\ lk[l] = FreeLink
    <2>1. l \notin On(ch)
        BY <1>1 DEF Filled
    <2> QED BY <2>1 DEF Shape
<1>2. ASSUME NEW c \in Slots, ~ ce[c].exists
      PROVE  ce[c] = FreeCell /\ \A l \in On(ch) : lk[l].data # c
    <2>1. \A l \in On(ch) : lk[l].data = c => ce[c].exists
        BY DEF Filled, UsedCell
    <2> QED BY <1>2, <2>1 DEF Filled
<1> QED BY <1>1, <1>2

-----------------------------------------------------------------------------
(* A link hung at the end of a chain. *)

LastOf(s) == IF s = << >> THEN Nil ELSE s[Len(s)]

\* The chains and the heads after it.
Longer(ch, b, l) == [ch EXCEPT ![b] = Append(@, l)]
Grows(ch, ch2, l) == On(ch2) = On(ch) \cup {l}
HeadHung(tb, b, l, last) == IF last = Nil THEN [tb EXCEPT ![b] = l] ELSE tb

\* The table of links after it, entry by entry.
Hung(lk, lk2, l, c, last) ==
    /\ lk2[l].exists = TRUE /\ lk2[l].data = c /\ lk2[l].next = Nil /\ lk2[l].perv = last
    /\ \A x \in Slots \ {l} :
           /\ lk2[x].exists = lk[x].exists /\ lk2[x].data = lk[x].data
           /\ lk2[x].perv = lk[x].perv
           /\ lk2[x].next = IF x = last THEN l ELSE lk[x].next
    /\ \A x \in Slots \ {l, last} : lk2[x] = lk[x]

LEMMA HungShape ==
    ASSUME NEW ch, NEW tb, NEW lk, Shape(ch, tb, lk), tb \in [Slots -> Slots \cup {Nil}],
           NEW b \in Slots, NEW l \in Slots, l \notin On(ch), NEW c, NEW lk2,
           Hung(lk, lk2, l, c, LastOf(ch[b])), NEW tb2,
           tb2 = HeadHung(tb, b, l, LastOf(ch[b])), NEW ch2, ch2 = Longer(ch, b, l)
    PROVE  Shape(ch2, tb2, lk2) /\ Grows(ch, ch2, l)
<1> DEFINE s == ch[b]
           t == Append(s, l)
           last == LastOf(s)
<1>1. /\ ch \in [Slots -> Seq(Slots)] /\ s \in Seq(Slots) /\ Len(s) \in Nat
      /\ Nil \notin Slots
    BY Places, SlotFacts DEF Shape
<1>2. /\ t \in Seq(Slots) /\ Len(t) = Len(s) + 1
      /\ \A i \in 1 .. Len(s) : t[i] = s[i]
      /\ t[Len(s) + 1] = l
    BY <1>1, Appended
<1>3. /\ ch2 \in [Slots -> Seq(Slots)] /\ ch2[b] = t
      /\ \A d \in Slots : d # b => ch2[d] = ch[d]
    BY <1>1, <1>2 DEF Longer
<1>4. /\ \A d \in Slots : \A i \in 1 .. Len(ch[d]) : ch[d][i] \in On(ch)
      /\ \A d \in Slots : \A i \in 1 .. Len(ch[d]) : ch[d][i] \in Slots \ {l}
    BY Places
<1>5. last = Nil <=> s = << >>
    <2>1. s # << >> => Len(s) \in 1 .. Len(s)
        BY <1>1
    <2> QED BY <1>1, <1>4, <2>1 DEF LastOf
<1>6. \A d \in Slots : \A i \in 1 .. Len(ch[d]) :
          ch[d][i] = last <=> d = b /\ i = Len(s)
    <2> SUFFICES ASSUME NEW d \in Slots, NEW i \in 1 .. Len(ch[d])
                 PROVE  ch[d][i] = last <=> d = b /\ i = Len(s)
        OBVIOUS
    <2>1. CASE s = << >>
        <3>1. last = Nil /\ ch[d][i] # Nil
            BY <1>1, <1>4, <2>1 DEF LastOf
        <3>2. d # b
            BY <2>1
        <3> QED BY <3>1, <3>2
    <2>2. CASE s # << >>
        <3>1. last = s[Len(s)] /\ Len(s) \in 1 .. Len(s)
            BY <1>1, <2>2 DEF LastOf
        <3>2. ch[d][i] = ch[b][Len(s)] => d = b /\ i = Len(s)
            BY <3>1 DEF Shape
        <3> QED BY <3>1, <3>2
    <2> QED BY <2>1, <2>2
<1> HIDE DEF t, s, last
<1>7. ASSUME NEW d \in Slots PROVE Path(ch2[d], tb2[d], lk2)
    <2>1. Path(ch[d], tb[d], lk)
        BY DEF Shape
    <2>2. \A i \in 1 .. Len(ch[d]) :
              /\ lk2[ch[d][i]].perv = lk[ch[d][i]].perv
              /\ lk2[ch[d][i]].next = IF d = b /\ i = Len(s) THEN l ELSE lk[ch[d][i]].next
        BY <1>4, <1>6 DEF Hung, last, s
    <2>3. CASE d # b
        <3>1. tb2[d] = tb[d] /\ ch2[d] = ch[d]
            BY <1>3, <2>3 DEF HeadHung
        <3> QED BY <2>1, <2>2, <2>3, <3>1 DEF Path
    <2>4. CASE d = b
        <3>1. tb2[b] = IF t = << >> THEN Nil ELSE t[1]
            <4>1. t # << >>
                BY <1>1, <1>2
            <4>2. CASE s = << >>
                <5>1. tb2[b] = l
                    BY <1>5, <4>2 DEF last, s, HeadHung
                <5>2. Len(s) + 1 = 1
                    BY <4>2
                <5> QED BY <1>2, <4>1, <5>1, <5>2
            <4>3. CASE s # << >>
                <5>1. tb2[b] = tb[b] /\ tb[b] = s[1]
                    BY <1>5, <2>1, <2>4, <4>3 DEF last, s, Path, HeadHung
                <5>2. 1 \in 1 .. Len(s)
                    BY <1>1, <4>3
                <5> QED BY <1>2, <4>1, <5>1, <5>2
            <4> QED BY <4>2, <4>3
        <3>2. ASSUME NEW i \in 1 .. Len(t)
              PROVE  /\ lk2[t[i]].next = IF i = Len(t) THEN Nil ELSE t[i + 1]
                     /\ lk2[t[i]].perv = IF i = 1 THEN Nil ELSE t[i - 1]
            <4>1. CASE i = Len(s) + 1
                <5>1. t[i] = l /\ lk2[l].next = Nil /\ lk2[l].perv = last
                    BY <1>2, <4>1 DEF Hung, last, s
                <5>2. last = IF i = 1 THEN Nil ELSE t[i - 1]
                    <6>1. CASE s = << >>
                        BY <1>5, <4>1, <6>1
                    <6>2. CASE s # << >>
                        <7>1. i # 1 /\ i - 1 = Len(s) /\ Len(s) \in 1 .. Len(s)
                            BY <1>1, <4>1, <6>2
                        <7>2. last = s[Len(s)]
                            BY <6>2 DEF last, LastOf
                        <7> QED BY <1>2, <7>1, <7>2
                    <6> QED BY <6>1, <6>2
                <5> QED BY <1>2, <4>1, <5>1, <5>2
            <4>2. CASE i # Len(s) + 1
                <5>1. i \in 1 .. Len(s) /\ i # Len(t)
                    BY <1>1, <1>2, <4>2
                <5>2. /\ lk[s[i]].next = IF i = Len(s) THEN Nil ELSE s[i + 1]
                      /\ lk[s[i]].perv = IF i = 1 THEN Nil ELSE s[i - 1]
                    BY <2>1, <2>4, <5>1 DEF Path, s
                <5>3. lk2[s[i]].perv = lk[s[i]].perv
                      /\ lk2[s[i]].next = IF i = Len(s) THEN l ELSE lk[s[i]].next
                    BY <2>2, <2>4, <5>1 DEF s
                <5>4. t[i] = s[i]
                    BY <1>2, <5>1
                <5>5. i # 1 => i - 1 \in 1 .. Len(s)
                    BY <1>1, <5>1
                <5>6. lk2[t[i]].perv = IF i = 1 THEN Nil ELSE t[i - 1]
                    BY <1>2, <5>2, <5>3, <5>4, <5>5
                <5>7. CASE i = Len(s)
                    BY <1>2, <5>1, <5>3, <5>4, <5>6, <5>7
                <5>8. CASE i # Len(s)
                    <6>1. i + 1 \in 1 .. Len(s)
                        BY <1>1, <5>1, <5>8
                    <6> QED BY <1>2, <5>1, <5>2, <5>3, <5>4, <5>6, <5>8, <6>1
                <5> QED BY <5>7, <5>8
            <4> QED BY <4>1, <4>2
        <3> QED BY <1>2, <1>3, <2>4, <3>1, <3>2 DEF Path
    <2> QED BY <2>3, <2>4
<1>8. ASSUME NEW d \in Slots, NEW i \in 1 .. Len(ch2[d])
      PROVE  \/ i \in 1 .. Len(ch[d]) /\ ch2[d][i] = ch[d][i]
             \/ d = b /\ i = Len(s) + 1 /\ ch2[d][i] = l
    <2>1. CASE d # b
        BY <1>3, <2>1
    <2>2. CASE d = b
        <3>1. i \in 1 .. Len(s) \/ i = Len(s) + 1
            <4>1. Len(ch2[d]) = Len(s) + 1
                BY <1>2, <1>3, <2>2
            <4> QED BY <1>1, <4>1
        <3>2. ch2[d] = t /\ ch[d] = s
            BY <1>3, <2>2 DEF s
        <3>3. CASE i \in 1 .. Len(s)
            BY <1>2, <3>2, <3>3
        <3>4. CASE i = Len(s) + 1
            BY <1>2, <2>2, <3>2, <3>4
        <3> QED BY <3>1, <3>3, <3>4
    <2> QED BY <2>1, <2>2
<1>9. ASSUME NEW d \in Slots, NEW e \in Slots, NEW i \in 1 .. Len(ch2[d]),
             NEW j \in 1 .. Len(ch2[e]), ch2[d][i] = ch2[e][j]
      PROVE  d = e /\ i = j
    <2>1. /\ i \in 1 .. Len(ch[d]) => ch[d][i] # l
          /\ j \in 1 .. Len(ch[e]) => ch[e][j] # l
        BY <1>4
    <2>2. i \in 1 .. Len(ch[d]) /\ j \in 1 .. Len(ch[e]) /\ ch[d][i] = ch[e][j] => d = e /\ i = j
        BY DEF Shape
    <2> QED BY <1>8, <1>9, <2>1, <2>2
<1>10. On(ch2) = On(ch) \cup {l}
    <2>1. ASSUME NEW x \in On(ch2) PROVE x \in On(ch) \cup {l}
        <3>1. PICK d \in Slots : Occurs(x, ch2[d])
            BY <2>1 DEF On
        <3>2. PICK i \in 1 .. Len(ch2[d]) : ch2[d][i] = x
            BY <3>1 DEF Occurs
        <3> QED BY <1>4, <1>8, <3>2
    <2>2. ASSUME NEW x \in On(ch) PROVE x \in On(ch2)
        <3>1. PICK d \in Slots : Occurs(x, ch[d])
            BY <2>2 DEF On
        <3>2. PICK i \in 1 .. Len(ch[d]) : ch[d][i] = x
            BY <3>1 DEF Occurs
        <3>3. i \in 1 .. Len(ch2[d]) /\ ch2[d][i] = x
            <4>1. CASE d # b
                BY <1>3, <3>2, <4>1
            <4>2. CASE d = b
                <5>1. i \in 1 .. Len(t)
                    BY <1>1, <1>2, <3>2, <4>2 DEF s
                <5> QED BY <1>2, <1>3, <3>2, <4>2, <5>1 DEF s
            <4> QED BY <4>1, <4>2
        <3>4. x \in Slots
            BY <2>2 DEF On
        <3> QED BY <3>3, <3>4 DEF On, Occurs
    <2>3. l \in On(ch2)
        <3>1. Occurs(l, t)
            <4>1. Len(s) + 1 \in 1 .. Len(t)
                BY <1>1, <1>2
            <4> QED BY <1>2, <4>1 DEF Occurs
        <3> QED BY <1>3, <3>1 DEF On
    <2> QED BY <2>1, <2>2, <2>3
<1>11. \A x \in Slots \ On(ch2) : lk2[x] = FreeLink
    <2> SUFFICES ASSUME NEW x \in Slots, x \notin On(ch2) PROVE lk2[x] = FreeLink
        OBVIOUS
    <2>1. x # l /\ x \notin On(ch)
        BY <1>10
    <2>2. x # last
        <3>1. CASE s = << >>
            BY <1>1, <1>5, <3>1
        <3>2. CASE s # << >>
            <4>1. Len(s) \in 1 .. Len(s) /\ last = s[Len(s)]
                BY <1>1, <3>2 DEF last, LastOf
            <4> QED BY <1>4, <2>1, <4>1 DEF s
        <3> QED BY <3>1, <3>2
    <2>3. lk2[x] = lk[x]
        BY <2>1, <2>2 DEF Hung, last, s
    <2> QED BY <2>1, <2>3 DEF Shape
<1>12. Shape(ch2, tb2, lk2)
    BY <1>3, <1>7, <1>9, <1>11 DEF Shape
<1> QED BY <1>10, <1>12 DEF Grows

-----------------------------------------------------------------------------
(* Sequences through a function. *)

\* A sequence through a function.
Mapped(s, v) == [i \in 1 .. Len(s) |-> v[s[i]]]

LEMMA MappedType ==
    ASSUME NEW S, NEW s \in Seq(S), NEW v
    PROVE  /\ Mapped(s, v) \in Seq({v[x] : x \in S}) /\ Len(Mapped(s, v)) = Len(s)
           /\ \A i \in 1 .. Len(s) : Mapped(s, v)[i] = v[s[i]]
<1>1. Len(s) \in Nat /\ \A i \in 1 .. Len(s) : s[i] \in S
    OBVIOUS
<1>2. \A i \in 1 .. Len(s) : v[s[i]] \in {v[x] : x \in S}
    BY <1>1
<1> QED BY <1>1, <1>2 DEF Mapped

LEMMA MappedSame ==
    ASSUME NEW S, NEW s \in Seq(S), NEW v, NEW w, \A i \in 1 .. Len(s) : v[s[i]] = w[s[i]]
    PROVE  Mapped(s, v) = Mapped(s, w)
BY DEF Mapped

LEMMA MappedAppend ==
    ASSUME NEW S, NEW s \in Seq(S), NEW e \in S, NEW v
    PROVE  Mapped(Append(s, e), v) = Append(Mapped(s, v), v[e])
<1> DEFINE V == {v[x] : x \in S}
           q == Append(s, e)
           m == Mapped(s, v)
           u == Append(m, v[e])
<1>1. /\ q \in Seq(S) /\ Len(q) = Len(s) + 1 /\ Len(s) \in Nat
      /\ \A i \in 1 .. Len(s) : q[i] = s[i]
      /\ q[Len(s) + 1] = e
    BY Appended
<1>2. /\ m \in Seq(V) /\ Len(m) = Len(s) /\ v[e] \in V
      /\ \A i \in 1 .. Len(s) : m[i] = v[s[i]]
    <2>1. v[e] \in V
        OBVIOUS
    <2>2. /\ m \in Seq(V) /\ Len(m) = Len(s)
          /\ \A i \in 1 .. Len(s) : m[i] = v[s[i]]
        BY MappedType
    <2> QED BY <2>1, <2>2
<1> HIDE DEF m, V, q
<1>3. /\ u \in Seq(V) /\ Len(u) = Len(s) + 1
      /\ \A i \in 1 .. Len(s) : u[i] = m[i]
      /\ u[Len(s) + 1] = v[e]
    BY <1>2, Appended
<1> HIDE DEF u
<1>4. /\ Mapped(q, v) \in Seq(V) /\ Len(Mapped(q, v)) = Len(s) + 1
      /\ \A i \in 1 .. Len(s) + 1 : Mapped(q, v)[i] = v[q[i]]
    BY <1>1, MappedType DEF V
<1>5. ASSUME NEW i \in 1 .. Len(s) + 1 PROVE Mapped(q, v)[i] = u[i]
    <2>1. i \in 1 .. Len(s) \/ i = Len(s) + 1
        BY <1>1
    <2> QED BY <1>1, <1>2, <1>3, <1>4, <2>1
<1>6. Mapped(q, v) = u
    BY <1>3, <1>4, <1>5, SeqEqual
<1> QED BY <1>6 DEF q, u, m

LEMMA MappedTail ==
    ASSUME NEW S, NEW s \in Seq(S), NEW v, s # << >>
    PROVE  /\ Mapped(s, v) # << >> /\ Head(Mapped(s, v)) = v[s[1]]
           /\ Mapped(Tail(s), v) = Tail(Mapped(s, v))
<1> DEFINE V == {v[x] : x \in S}
           m == Mapped(s, v)
<1>1. Len(s) \in Nat /\ Len(s) >= 1 /\ 1 \in 1 .. Len(s)
    OBVIOUS
<1>2. m \in Seq(V) /\ Len(m) = Len(s) /\ \A i \in 1 .. Len(s) : m[i] = v[s[i]]
    BY MappedType, ZenonT(60)
<1> HIDE DEF m, V
<1>3. m # << >>
    BY <1>1, <1>2
<1>4. Head(m) = m[1]
    BY <1>2, <1>3, HeadTailProperties
<1>5. /\ Tail(s) \in Seq(S) /\ Len(Tail(s)) = Len(s) - 1
      /\ \A i \in 1 .. Len(Tail(s)) : Tail(s)[i] = s[i + 1]
    BY HeadTailProperties
<1>6. /\ Tail(m) \in Seq(V) /\ Len(Tail(m)) = Len(s) - 1
      /\ \A i \in 1 .. Len(s) - 1 : Tail(m)[i] = m[i + 1]
    BY <1>2, <1>3, HeadTailProperties
<1>7. /\ Mapped(Tail(s), v) \in Seq(V) /\ Len(Mapped(Tail(s), v)) = Len(s) - 1
      /\ \A i \in 1 .. Len(s) - 1 : Mapped(Tail(s), v)[i] = v[Tail(s)[i]]
    <2> DEFINE t == Tail(s)
    <2>1. t \in Seq(S) /\ Len(t) = Len(s) - 1
        BY <1>5
    <2> HIDE DEF t
    <2>2. /\ Mapped(t, v) \in Seq(V) /\ Len(Mapped(t, v)) = Len(t)
          /\ \A i \in 1 .. Len(t) : Mapped(t, v)[i] = v[t[i]]
        BY <2>1, MappedType DEF V
    <2> QED BY <2>1, <2>2 DEF t
<1>8. ASSUME NEW i \in 1 .. Len(s) - 1 PROVE Mapped(Tail(s), v)[i] = Tail(m)[i]
    <2>1. i + 1 \in 1 .. Len(s)
        BY <1>1
    <2> QED BY <1>2, <1>5, <1>6, <1>7, <2>1
<1>9. Mapped(Tail(s), v) = Tail(m)
    BY <1>6, <1>7, <1>8, SeqEqual
<1> QED BY <1>1, <1>2, <1>3, <1>4, <1>9 DEF m

-----------------------------------------------------------------------------
(* What the table holds. *)

\* The links that carry k.
With(k, lk, ce) == {l \in Slots : lk[l].data # Nil /\ ce[lk[l].data].key = k}

ValueOf(lk, ce) == [l \in Slots |-> ce[lk[l].data].value]

\* The objects stored under each key, oldest first.
Held(ch, lk, ce) ==
    [k \in Keys |-> Mapped(Picked(ch[Bucket[k]], With(k, lk, ce)), ValueOf(lk, ce))]

LinkRecord == [exists : BOOLEAN, data : Slots \cup {Nil},
               next : Slots \cup {Nil}, perv : Slots \cup {Nil}]
CellRecord == [exists : BOOLEAN, key : Keys \cup {Nil}, value : Objects \cup {Nil}]

\* The links of s keep their cells, and these what they hold.
Keeps(s, lk, ce, lk2, ce2) ==
    \A i \in 1 .. Len(s) : /\ lk2[s[i]].data = lk[s[i]].data
                           /\ ce2[lk[s[i]].data] = ce[lk[s[i]].data]

LEMMA SameLinks ==
    ASSUME NEW s \in Seq(Slots), NEW k, NEW lk, NEW ce, NEW lk2, NEW ce2,
           Keeps(s, lk, ce, lk2, ce2)
    PROVE  Picked(s, With(k, lk2, ce2)) = Picked(s, With(k, lk, ce))
<1>1. \A i \in 1 .. Len(s) : s[i] \in Slots
    OBVIOUS
<1>2. \A i \in 1 .. Len(s) : s[i] \in With(k, lk2, ce2) <=> s[i] \in With(k, lk, ce)
    BY <1>1 DEF With, Keeps
<1> QED BY <1>2, PickedSame

LEMMA SameObjects ==
    ASSUME NEW s \in Seq(Slots), NEW k, NEW lk, NEW ce, NEW lk2, NEW ce2,
           Keeps(s, lk, ce, lk2, ce2)
    PROVE  Mapped(Picked(s, With(k, lk, ce)), ValueOf(lk2, ce2)) =
               Mapped(Picked(s, With(k, lk, ce)), ValueOf(lk, ce))
<1> DEFINE q == Picked(s, With(k, lk, ce))
<1>1. \A i \in 1 .. Len(s) : s[i] \in Slots
    OBVIOUS
<1>2. q \in Seq(Slots)
    BY PickedType
<1>3. ASSUME NEW i \in 1 .. Len(q) PROVE ValueOf(lk2, ce2)[q[i]] = ValueOf(lk, ce)[q[i]]
    <2>1. Occurs(q[i], q)
        BY <1>3 DEF Occurs
    <2>2. Occurs(q[i], s)
        BY <2>1, PickedElements
    <2>3. PICK j \in 1 .. Len(s) : s[j] = q[i]
        BY <2>2 DEF Occurs
    <2>4. /\ lk2[s[j]].data = lk[s[j]].data /\ s[j] \in Slots
          /\ ce2[lk[s[j]].data] = ce[lk[s[j]].data]
        BY <1>1 DEF Keeps
    <2>5. ValueOf(lk2, ce2)[s[j]] = ValueOf(lk, ce)[s[j]]
        BY <2>4 DEF ValueOf
    <2> QED BY <2>3, <2>5
<1> HIDE DEF q
<1>4. Mapped(q, ValueOf(lk2, ce2)) = Mapped(q, ValueOf(lk, ce))
    BY <1>2, <1>3, MappedSame
<1> QED BY <1>4 DEF q

\* The cells and the objects held after it.
Entered(ce, c, k, o) == [ce EXCEPT ![c] = [exists |-> TRUE, key |-> k, value |-> o]]
Gains(held, held2, k, o) == held2 = [held EXCEPT ![k] = Append(@, o)]

\* A link hung at the end of the chain of k with cell c for k and o.
LEMMA HungFilled ==
    ASSUME NEW ch, NEW tb, NEW lk, NEW ce, Shape(ch, tb, lk), Filled(ch, lk, ce),
           ce \in [Slots -> CellRecord],
           NEW k \in Keys, NEW o \in Objects, NEW l \in Slots, l \notin On(ch),
           NEW c \in Slots, ~ ce[c].exists, NEW lk2,
           Hung(lk, lk2, l, c, LastOf(ch[Bucket[k]])),
           NEW ch2, ch2 = Longer(ch, Bucket[k], l),
           Grows(ch, ch2, l),
           NEW ce2, ce2 = Entered(ce, c, k, o)
    PROVE  /\ Filled(ch2, lk2, ce2)
           /\ Gains(Held(ch, lk, ce), Held(ch2, lk2, ce2), k, o)
<1> DEFINE b == Bucket[k]
           new == [exists |-> TRUE, key |-> k, value |-> o]
<1>1. /\ b \in Slots /\ ch \in [Slots -> Seq(Slots)] /\ c # Nil
      /\ \A j \in Keys : Bucket[j] \in Slots
    BY BucketAssumption, SlotFacts DEF Shape
<1>2. \A x \in On(ch) : /\ x \in Slots \ {l} /\ lk2[x].data = lk[x].data
                        /\ lk2[x].exists = lk[x].exists
                        /\ lk[x].data \in Slots /\ lk[x].data # c
                        /\ ce2[lk[x].data] = ce[lk[x].data]
    <2>1. \A x \in On(ch) : x \in Slots \ {l} /\ lk[x].data \in Slots /\ lk[x].data # c
        <3>1. \A x \in On(ch) : lk[x].data # c
            BY FreeOnes
        <3>2. \A x \in On(ch) : lk[x].data \in Slots
            BY DEF Filled
        <3>3. \A x \in On(ch) : x \in Slots \ {l}
            BY DEF On
        <3> QED BY <3>1, <3>2, <3>3
    <2>2. \A x \in On(ch) : ce2[lk[x].data] = ce[lk[x].data]
        BY <2>1 DEF Entered
    <2> QED BY <2>1, <2>2 DEF Hung
<1>3. lk2[l].exists = TRUE /\ lk2[l].data = c /\ ce2[c] = new /\ new \in UsedCell
    BY DEF Hung, UsedCell, Entered
<1>4. ch2[b] = Append(ch[b], l) /\ \A d \in Slots : d # b => ch2[d] = ch[d]
    BY <1>1 DEF Longer
<1>5. On(ch2) = On(ch) \cup {l}
    BY DEF Grows
<1>6. ch[b] \in Seq(Slots) /\ Len(ch[b]) \in Nat
    BY <1>1, Places
<1>7. /\ Len(ch2[b]) = Len(ch[b]) + 1 /\ ch2[b][Len(ch[b]) + 1] = l
      /\ \A i \in 1 .. Len(ch[b]) : ch2[b][i] = ch[b][i]
    BY <1>4, <1>6, Appended
<1>8. \A d \in Slots : \A i \in 1 .. Len(ch[d]) : ch[d][i] \in On(ch)
    BY Places
<1> HIDE DEF b, new
<1>9. Filled(ch2, lk2, ce2)
    <2>1. ASSUME NEW x \in On(ch2)
          PROVE  lk2[x].exists = TRUE /\ lk2[x].data \in Slots /\ ce2[lk2[x].data] \in UsedCell
        <3>1. CASE x \in On(ch)
            BY <1>2, <3>1 DEF Filled
        <3>2. CASE x = l
            BY <1>3, <3>2
        <3> QED BY <1>5, <3>1, <3>2
    <2>2. ASSUME NEW d \in Slots, NEW i \in 1 .. Len(ch2[d])
          PROVE  Bucket[ce2[lk2[ch2[d][i]].data].key] = d
        <3>1. ASSUME i \in 1 .. Len(ch[d]), ch2[d][i] = ch[d][i]
              PROVE  Bucket[ce2[lk2[ch2[d][i]].data].key] = d
            <4>1. ch[d][i] \in On(ch)
                BY <1>8, <3>1
            <4>2. Bucket[ce[lk[ch[d][i]].data].key] = d
                BY <3>1 DEF Filled
            <4> QED BY <1>2, <3>1, <4>1, <4>2
        <3>2. CASE d # b
            BY <1>4, <3>1, <3>2
        <3>3. CASE d = b
            <4>1. CASE i = Len(ch[b]) + 1
                BY <1>3, <1>7, <3>3, <4>1 DEF b, new
            <4>2. CASE i # Len(ch[b]) + 1
                <5>1. i \in 1 .. Len(ch[b])
                    BY <1>6, <1>7, <3>3, <4>2
                <5> QED BY <1>7, <3>1, <3>3, <5>1
            <4> QED BY <4>1, <4>2, SMTT(30)
        <3> QED BY <3>2, <3>3
    <2>3. ASSUME NEW x \in On(ch2), NEW y \in On(ch2), lk2[x].data = lk2[y].data
          PROVE  x = y
        <3>1. x \in On(ch) /\ y \in On(ch) => x = y
            BY <1>2, <2>3 DEF Filled
        <3> QED BY <1>2, <1>3, <1>5, <2>3, <3>1
    <2>4. ASSUME NEW e \in Slots
          PROVE  ce2[e] = FreeCell \/ \E x \in On(ch2) : lk2[x].data = e
        <3>1. CASE e = c
            BY <1>3, <1>5, <3>1
        <3>2. CASE e # c
            <4>1. ce2[e] = ce[e]
                BY <3>2 DEF Entered
            <4>2. ce[e] = FreeCell \/ \E x \in On(ch) : lk[x].data = e
                BY DEF Filled
            <4> QED BY <1>2, <1>5, <4>1, <4>2
        <3> QED BY <3>1, <3>2
    <2> QED BY <2>1, <2>2, <2>3, <2>4 DEF Filled
<1>10. ASSUME NEW j \in Keys
       PROVE  Held(ch2, lk2, ce2)[j] =
                  IF j = k THEN Append(Held(ch, lk, ce)[j], o) ELSE Held(ch, lk, ce)[j]
    <2> DEFINE s == ch[Bucket[j]]
               A == With(j, lk, ce)
               B == With(j, lk2, ce2)
               q == Picked(s, A)
               v == ValueOf(lk, ce)
               w == ValueOf(lk2, ce2)
    <2>1. s \in Seq(Slots) /\ \A i \in 1 .. Len(s) : s[i] \in On(ch)
        BY <1>1, <1>8
    <2>2. Picked(s, B) = q /\ Mapped(q, w) = Mapped(q, v)
        <3>1. Keeps(s, lk, ce, lk2, ce2)
            BY <1>2, <2>1 DEF Keeps
        <3> HIDE DEF s
        <3>2. Picked(s, With(j, lk2, ce2)) = Picked(s, With(j, lk, ce))
            BY <2>1, <3>1, SameLinks
        <3>3. Mapped(Picked(s, With(j, lk, ce)), ValueOf(lk2, ce2)) =
                  Mapped(Picked(s, With(j, lk, ce)), ValueOf(lk, ce))
            BY <2>1, <3>1, SameObjects
        <3> QED BY <3>2, <3>3
    <2>3. /\ Held(ch, lk, ce)[j] = Mapped(q, v)
          /\ Held(ch2, lk2, ce2)[j] = Mapped(Picked(ch2[Bucket[j]], B), w)
        BY DEF Held
    <2>4. l \in B <=> j = k
        BY <1>1, <1>3 DEF With, new
    <2>5. w[l] = o
        BY <1>3 DEF ValueOf, new
    <2>6. q \in Seq(Slots)
        BY <2>1, PickedType
    <2> HIDE DEF s, A, B, q, v, w
    <2>7. CASE Bucket[j] # b
        <3>1. ch2[Bucket[j]] = s /\ j # k
            BY <1>1, <1>4, <2>7 DEF s, b
        <3> QED BY <2>2, <2>3, <3>1
    <2>8. CASE Bucket[j] = b
        <3>1. ch2[Bucket[j]] = Append(s, l)
            BY <1>4, <2>8 DEF s
        <3>2. Picked(Append(s, l), B) = IF l \in B THEN Append(q, l) ELSE q
            BY <2>1, <2>2, PickedAppend
        <3>3. Mapped(Append(q, l), w) = Append(Mapped(q, w), o)
            BY <2>5, <2>6, MappedAppend
        <3> QED BY <2>2, <2>3, <2>4, <3>1, <3>2, <3>3
    <2> QED BY <2>7, <2>8
<1>11. Gains(Held(ch, lk, ce), Held(ch2, lk2, ce2), k, o)
    <2> DEFINE f == Held(ch2, lk2, ce2)
               g == Held(ch, lk, ce)
    <2>1. f = [j \in Keys |-> f[j]] /\ g = [j \in Keys |-> g[j]]
        BY DEF Held
    <2>2. \A j \in Keys : f[j] = IF j = k THEN Append(g[j], o) ELSE g[j]
        BY <1>10
    <2> HIDE DEF f, g
    <2>3. Gains(g, f, k, o)
        BY <2>1, <2>2 DEF Gains
    <2> QED BY <2>3 DEF f, g
<1> QED BY <1>9, <1>11

-----------------------------------------------------------------------------
(* A link taken out of its chain. *)

\* The chains and the heads after it.
Shorter(ch, b, i) == [ch EXCEPT ![b] = Erased(@, i)]
Shrinks(ch, ch2, m) == On(ch2) = On(ch) \ {m}
HeadCut(tb, b, p, n) == IF p = Nil THEN [tb EXCEPT ![b] = n] ELSE tb

\* The table of links after it, entry by entry: m is the link, p and n are its
\* neighbours.
Cut(lk, lk2, m, p, n) ==
    /\ lk2[m] = FreeLink
    /\ \A x \in Slots \ {m} :
           /\ lk2[x].exists = lk[x].exists /\ lk2[x].data = lk[x].data
           /\ lk2[x].next = IF x = p THEN n ELSE lk[x].next
           /\ lk2[x].perv = IF x = n THEN p ELSE lk[x].perv
    /\ \A x \in Slots \ {m, p, n} : lk2[x] = lk[x]

\* Where an entry of the shortened chain stood.
Was(j, i) == IF j < i THEN j ELSE j + 1

LEMMA WasFirst ==
    ASSUME NEW n \in Nat, NEW i \in 1 .. n, i # 1 \/ n # 1
    PROVE  1 \in 1 .. n - 1 /\ n # 1
OBVIOUS

LEMMA WasPlace ==
    ASSUME NEW n \in Nat, NEW i \in 1 .. n, NEW j \in 1 .. n - 1
    PROVE  /\ j \in Nat /\ Was(j, i) \in 1 .. n /\ Was(j, i) # i
           /\ j # 1 => j - 1 \in 1 .. n - 1
           /\ j # n - 1 => j + 1 \in 1 .. n - 1
BY DEF Was

LEMMA WasOnce ==
    ASSUME NEW i \in Nat, NEW j \in Nat, NEW h \in Nat, Was(j, i) = Was(h, i)
    PROVE  j = h
<1>1. CASE j < i
    BY <1>1 DEF Was
<1>2. CASE ~ (j < i)
    BY <1>2 DEF Was
<1> QED BY <1>1, <1>2

LEMMA CutShape ==
    ASSUME NEW ch, NEW tb, NEW lk, Shape(ch, tb, lk), tb \in [Slots -> Slots \cup {Nil}],
           NEW b \in Slots, NEW i \in 1 .. Len(ch[b]), NEW m, m = ch[b][i], NEW lk2,
           Cut(lk, lk2, m, lk[m].perv, lk[m].next), NEW tb2,
           tb2 = HeadCut(tb, b, lk[m].perv, lk[m].next),
           NEW ch2, ch2 = Shorter(ch, b, i)
    PROVE  Shape(ch2, tb2, lk2) /\ Shrinks(ch, ch2, m)
<1> DEFINE s == ch[b]
           t == Erased(s, i)
           p == lk[m].perv
           n == lk[m].next
<1>1. /\ ch \in [Slots -> Seq(Slots)] /\ s \in Seq(Slots) /\ Len(s) \in Nat
      /\ Nil \notin Slots /\ i \in 1 .. Len(s) /\ i \in Nat
    BY Places, SlotFacts DEF Shape
<1>2. /\ t \in Seq(Slots) /\ Len(t) = Len(s) - 1
      /\ \A j \in 1 .. Len(s) - 1 : t[j] = s[Was(j, i)]
    <2>1. /\ t \in Seq(Slots) /\ Len(t) = Len(s) - 1
          /\ \A j \in 1 .. Len(s) - 1 : t[j] = IF j < i THEN s[j] ELSE s[j + 1]
        <3> HIDE DEF s
        <3> QED BY <1>1, ErasedEntries
    <2> HIDE DEF t, s
    <2> QED BY <2>1 DEF Was
<1>3. /\ ch2 \in [Slots -> Seq(Slots)] /\ ch2[b] = t
      /\ \A d \in Slots : d # b => ch2[d] = ch[d]
    BY <1>1, <1>2 DEF Shorter
<1>4. \A d \in Slots : \A j \in 1 .. Len(ch[d]) : ch[d][j] \in On(ch) /\ ch[d][j] \in Slots
    BY Places
<1>5. /\ n = IF i = Len(s) THEN Nil ELSE s[i + 1]
      /\ p = IF i = 1 THEN Nil ELSE s[i - 1]
    BY <1>1 DEF Shape, Path
<1>6. \A d, e \in Slots : \A j \in 1 .. Len(ch[d]), h \in 1 .. Len(ch[e]) :
           ch[d][j] = ch[e][h] => d = e /\ j = h
    BY DEF Shape
<1>7. ASSUME NEW d \in Slots, NEW j \in 1 .. Len(ch[d])
      PROVE  /\ ch[d][j] = m <=> d = b /\ j = i
             /\ ch[d][j] = p <=> d = b /\ j = i - 1
             /\ ch[d][j] = n <=> d = b /\ j = i + 1
    <2>1. ch[d][j] = m <=> d = b /\ j = i
        BY <1>6
    <2>2. ch[d][j] = p <=> d = b /\ j = i - 1
        <3>1. CASE i = 1
            <4>1. ch[d][j] # p
                BY <1>1, <1>4, <1>5, <3>1
            <4> QED BY <3>1, <4>1
        <3>2. CASE i # 1
            <4>1. i - 1 \in 1 .. Len(s) /\ p = s[i - 1]
                BY <1>1, <1>5, <3>2
            <4> HIDE DEF p
            <4> QED BY <1>6, <4>1
        <3> QED BY <3>1, <3>2
    <2>3. ch[d][j] = n <=> d = b /\ j = i + 1
        <3>1. CASE i = Len(s)
            <4>1. ch[d][j] # n
                BY <1>1, <1>4, <1>5, <3>1
            <4>2. d = b => j # i + 1
                BY <1>1, <3>1
            <4> QED BY <4>1, <4>2
        <3>2. CASE i # Len(s)
            <4>1. i + 1 \in 1 .. Len(s) /\ n = s[i + 1]
                BY <1>1, <1>5, <3>2
            <4> HIDE DEF n
            <4> QED BY <1>6, <4>1
        <3> QED BY <3>1, <3>2
    <2> QED BY <2>1, <2>2, <2>3
<1>8. Cut(lk, lk2, m, p, n) /\ tb2 = IF p = Nil THEN [tb EXCEPT ![b] = n] ELSE tb
    BY DEF HeadCut
<1>9. \A d \in Slots : ch[d] \in Seq(Slots) /\ Path(ch[d], tb[d], lk)
    BY DEF Shape
<1>10. s = ch[b] /\ m = s[i]
    OBVIOUS
<1> HIDE DEF s, t, p, n
<1>11. i \in Nat /\ Len(s) \in Nat /\ 1 <= i /\ i <= Len(s)
    BY <1>1
<1>12. (i # 1 \/ Len(s) # 1) => 1 \in 1 .. Len(s) - 1 /\ Len(s) # 1
    BY <1>1, WasFirst
<1>13. \A j \in 1 .. Len(s) - 1 : /\ j \in Nat /\ Was(j, i) \in 1 .. Len(s) /\ Was(j, i) # i
                                  /\ j # 1 => j - 1 \in 1 .. Len(s) - 1
                                  /\ j # Len(s) - 1 => j + 1 \in 1 .. Len(s) - 1
    BY <1>1, WasPlace
\* What a link that stays points to.
<1>14. ASSUME NEW d \in Slots, NEW j \in 1 .. Len(ch[d]), ~ (d = b /\ j = i)
       PROVE  /\ lk2[ch[d][j]].next = IF d = b /\ j = i - 1 THEN n
                                      ELSE IF j = Len(ch[d]) THEN Nil ELSE ch[d][j + 1]
              /\ lk2[ch[d][j]].perv = IF d = b /\ j = i + 1 THEN p
                                      ELSE IF j = 1 THEN Nil ELSE ch[d][j - 1]
    <2>1. ch[d][j] \in Slots \ {m}
        BY <1>4, <1>7, <1>14
    <2>2. /\ lk[ch[d][j]].next = IF j = Len(ch[d]) THEN Nil ELSE ch[d][j + 1]
          /\ lk[ch[d][j]].perv = IF j = 1 THEN Nil ELSE ch[d][j - 1]
        BY <1>9 DEF Path
    <2>3. /\ lk2[ch[d][j]].next = IF ch[d][j] = p THEN n ELSE lk[ch[d][j]].next
          /\ lk2[ch[d][j]].perv = IF ch[d][j] = n THEN p ELSE lk[ch[d][j]].perv
        BY <1>8, <2>1 DEF Cut
    <2> QED BY <1>7, <2>2, <2>3
<1>15. ASSUME NEW d \in Slots, d # b PROVE Path(ch2[d], tb2[d], lk2)
    <2>1. ch2[d] = ch[d] /\ tb2[d] = tb[d]
        BY <1>3, <1>8, <1>15
    <2>2. \A j \in 1 .. Len(ch[d]) :
              /\ lk2[ch[d][j]].next = IF j = Len(ch[d]) THEN Nil ELSE ch[d][j + 1]
              /\ lk2[ch[d][j]].perv = IF j = 1 THEN Nil ELSE ch[d][j - 1]
        BY <1>14, <1>15
    <2>3. tb[d] = IF ch[d] = << >> THEN Nil ELSE ch[d][1]
        BY <1>9 DEF Path
    <2> QED BY <1>9, <2>1, <2>2, <2>3 DEF Path
<1>16. Path(t, tb2[b], lk2)
    <2>1. tb2[b] = IF t = << >> THEN Nil ELSE t[1]
        <3>1. tb[b] = s[1] /\ (t = << >> <=> Len(s) = 1)
            <4>1. s # << >>
                BY <1>1
            <4>2. tb[b] = s[1]
                BY <1>9, <1>10, <4>1 DEF Path
            <4>3. t = << >> <=> Len(s) = 1
                <5>1. t = << >> <=> Len(t) = 0
                    BY <1>2
                <5> QED BY <1>1, <1>2, <5>1
            <4> QED BY <4>2, <4>3
        <3>2. CASE i = 1
            <4>1. tb2[b] = n
                BY <1>5, <1>8, <3>2
            <4>2. CASE Len(s) = 1
                BY <1>5, <3>1, <3>2, <4>1, <4>2
            <4>3. CASE Len(s) # 1
                <5>1. 1 \in 1 .. Len(s) - 1
                    BY <1>12, <4>3
                <5>2. Was(1, i) = i + 1
                    BY <3>2 DEF Was
                <5>3. t[1] = s[i + 1] /\ i # Len(s) /\ t # << >>
                    BY <1>2, <3>1, <3>2, <4>3, <5>1, <5>2
                <5> QED BY <1>5, <4>1, <5>3
            <4> QED BY <4>2, <4>3
        <3>3. CASE i # 1
            <4>1. i - 1 \in 1 .. Len(s) /\ p # Nil
                <5>1. i - 1 \in 1 .. Len(ch[b])
                    BY <1>1, <1>10, <3>3
                <5>2. p = ch[b][i - 1]
                    BY <1>5, <1>10, <3>3
                <5> QED BY <1>1, <1>4, <1>10, <5>1, <5>2
            <4>2. tb2[b] = tb[b]
                BY <1>8, <4>1
            <4>3. Len(s) # 1 /\ 1 \in 1 .. Len(s) - 1
                BY <1>12, <3>3
            <4>4. Was(1, i) = 1
                BY <1>11, <3>3 DEF Was
            <4>5. t[1] = s[1] /\ t # << >>
                BY <1>2, <3>1, <4>3, <4>4
            <4> QED BY <3>1, <4>2, <4>5
        <3> QED BY <3>2, <3>3
    <2>2. ASSUME NEW j \in 1 .. Len(t)
          PROVE  /\ lk2[t[j]].next = IF j = Len(t) THEN Nil ELSE t[j + 1]
                 /\ lk2[t[j]].perv = IF j = 1 THEN Nil ELSE t[j - 1]
        <3> DEFINE q == Was(j, i)
        <3>1. /\ q \in 1 .. Len(s) /\ q # i /\ j \in 1 .. Len(s) - 1 /\ j \in Nat
              /\ Len(t) = Len(s) - 1
            BY <1>2, <1>13
        <3>2. t[j] = s[q]
            BY <1>2, <3>1
        <3>3. /\ lk2[s[q]].next = IF q = i - 1 THEN n
                                  ELSE IF q = Len(s) THEN Nil ELSE s[q + 1]
              /\ lk2[s[q]].perv = IF q = i + 1 THEN p
                                  ELSE IF q = 1 THEN Nil ELSE s[q - 1]
            <4> HIDE DEF q
            <4> QED BY <1>10, <1>14, <3>1
        <3>4. (IF q = i - 1 THEN n ELSE IF q = Len(s) THEN Nil ELSE s[q + 1]) =
                  IF j = Len(t) THEN Nil ELSE t[j + 1]
            <4>1. CASE j = Len(t)
                <5>1. (j < i /\ i = Len(s) /\ q = i - 1) \/ q = Len(s)
                    BY <1>11, <3>1, <4>1 DEF Was
                <5>2. q = Len(s) => q # i - 1
                    BY <1>1
                <5> HIDE DEF q
                <5> QED BY <1>5, <4>1, <5>1, <5>2
            <4>2. CASE j # Len(t)
                <5>1. j + 1 \in 1 .. Len(s) - 1
                    BY <1>13, <3>1, <4>2
                <5>2. t[j + 1] = s[Was(j + 1, i)]
                    BY <1>2, <5>1
                <5>3. CASE q = i - 1
                    <6>1. j + 1 = i
                        <7>1. CASE j < i
                            BY <1>11, <3>1, <5>3, <7>1 DEF Was
                        <7>2. CASE ~ (j < i)
                            BY <1>11, <3>1, <5>3, <7>2 DEF Was
                        <7> QED BY <7>1, <7>2
                    <6>2. i # Len(s)
                        BY <1>11, <3>1, <5>1, <6>1
                    <6>3. Was(j + 1, i) = i + 1
                        BY <1>11, <6>1 DEF Was
                    <6> QED BY <1>5, <4>2, <5>2, <5>3, <6>1, <6>2, <6>3
                <5>4. CASE q # i - 1
                    <6>1. Was(j + 1, i) = q + 1 /\ q # Len(s)
                        BY <1>11, <3>1, <4>2, <5>4 DEF Was
                    <6> HIDE DEF q
                    <6> QED BY <4>2, <5>2, <5>4, <6>1
                <5> QED BY <5>3, <5>4
            <4> QED BY <4>1, <4>2
        <3>5. (IF q = i + 1 THEN p ELSE IF q = 1 THEN Nil ELSE s[q - 1]) =
                  IF j = 1 THEN Nil ELSE t[j - 1]
            <4>1. CASE j = 1
                <5>1. (q = 1 /\ q # i + 1) \/ (i = 1 /\ q = i + 1)
                    BY <1>11, <4>1 DEF Was
                <5> HIDE DEF q
                <5> QED BY <1>5, <4>1, <5>1
            <4>2. CASE j # 1
                <5>1. j - 1 \in 1 .. Len(s) - 1
                    BY <1>13, <3>1, <4>2
                <5>2. t[j - 1] = s[Was(j - 1, i)]
                    BY <1>2, <5>1
                <5>3. CASE q = i + 1
                    <6>1. j = i /\ i # 1 /\ Was(j - 1, i) = i - 1
                        BY <1>11, <3>1, <4>2, <5>3 DEF Was
                    <6> QED BY <1>5, <4>2, <5>2, <5>3, <6>1
                <5>4. CASE q # i + 1
                    <6>1. Was(j - 1, i) = q - 1 /\ q # 1
                        BY <1>11, <3>1, <4>2, <5>4 DEF Was
                    <6> HIDE DEF q
                    <6> QED BY <4>2, <5>2, <5>4, <6>1
                <5> QED BY <5>3, <5>4
            <4> QED BY <4>1, <4>2
        <3> HIDE DEF q
        <3> QED BY <3>2, <3>3, <3>4, <3>5
    <2> QED BY <1>2, <2>1, <2>2 DEF Path
<1>17. \A d \in Slots : Path(ch2[d], tb2[d], lk2)
    BY <1>3, <1>15, <1>16
<1>18. ASSUME NEW d \in Slots, NEW j \in 1 .. Len(ch2[d])
       PROVE  \E h \in 1 .. Len(ch[d]) : /\ ch2[d][j] = ch[d][h]
                                         /\ h = IF d = b THEN Was(j, i) ELSE j
                                         /\ ~ (d = b /\ h = i)
    <2>1. CASE d # b
        BY <1>3, <2>1
    <2>2. CASE d = b
        <3>1. j \in 1 .. Len(s) - 1 /\ Was(j, i) \in 1 .. Len(s) /\ Was(j, i) # i
            <4>1. j \in 1 .. Len(s) - 1
                BY <1>2, <1>3, <2>2
            <4> QED BY <1>13, <4>1
        <3>2. ch2[d][j] = s[Was(j, i)]
            BY <1>2, <1>3, <2>2, <3>1
        <3> QED BY <1>10, <2>2, <3>1, <3>2
    <2> QED BY <2>1, <2>2
<1>19. ASSUME NEW d \in Slots, NEW e \in Slots, NEW j \in 1 .. Len(ch2[d]),
              NEW h \in 1 .. Len(ch2[e]), ch2[d][j] = ch2[e][h]
       PROVE  d = e /\ j = h
    <2>1. PICK j2 \in 1 .. Len(ch[d]) : ch2[d][j] = ch[d][j2] /\ j2 = IF d = b THEN Was(j, i) ELSE j
        BY <1>18
    <2>2. PICK h2 \in 1 .. Len(ch[e]) : ch2[e][h] = ch[e][h2] /\ h2 = IF e = b THEN Was(h, i) ELSE h
        BY <1>18
    <2>3. d = e /\ j2 = h2
        <3>1. ch[d][j2] = ch[e][h2]
            BY <1>19, <2>1, <2>2
        <3>2. d = e
            BY <1>6, <3>1, SMTT(60)
        <3>3. ch[d][j2] = ch[d][h2] /\ h2 \in 1 .. Len(ch[d])
            BY <3>1, <3>2
        <3> QED BY <1>6, <3>2, <3>3, SMTT(60)
    <2>4. j \in Nat /\ h \in Nat
        <3>1. Len(ch2[d]) \in Nat /\ Len(ch2[e]) \in Nat
            BY <1>3
        <3> QED BY <3>1
    <2>5. Was(j, i) = Was(h, i) => j = h
        BY <1>11, <2>4, WasOnce
    <2> QED BY <2>1, <2>2, <2>3, <2>5
<1>20. On(ch2) = On(ch) \ {m}
    <2>1. ASSUME NEW x \in On(ch2) PROVE x \in On(ch) \ {m}
        <3>1. PICK d \in Slots : Occurs(x, ch2[d])
            BY <2>1 DEF On
        <3>2. PICK j \in 1 .. Len(ch2[d]) : ch2[d][j] = x
            BY <3>1 DEF Occurs
        <3>3. PICK h \in 1 .. Len(ch[d]) : x = ch[d][h] /\ ~ (d = b /\ h = i)
            BY <1>18, <3>2
        <3> QED BY <1>4, <1>7, <3>3
    <2>2. ASSUME NEW x \in On(ch), x # m PROVE x \in On(ch2)
        <3>1. PICK d \in Slots : Occurs(x, ch[d])
            BY <2>2 DEF On
        <3>2. PICK h \in 1 .. Len(ch[d]) : ch[d][h] = x
            BY <3>1 DEF Occurs
        <3>3. x \in Slots
            BY <1>4, <3>2
        <3>4. Occurs(x, ch2[d])
            <4>1. CASE d # b
                BY <1>3, <3>1, <4>1
            <4>2. CASE d = b
                <5>1. h # i /\ h \in 1 .. Len(s) /\ s[h] = x
                    BY <1>7, <1>10, <2>2, <3>2, <4>2
                <5> DEFINE j == IF h < i THEN h ELSE h - 1
                <5>2. j \in 1 .. Len(s) - 1 /\ Was(j, i) = h
                    BY <1>1, <5>1 DEF Was
                <5> HIDE DEF j
                <5>3. t[j] = x /\ j \in 1 .. Len(t)
                    BY <1>2, <5>1, <5>2
                <5> QED BY <1>3, <4>2, <5>3 DEF Occurs
            <4> QED BY <4>1, <4>2
        <3> QED BY <3>3, <3>4 DEF On
    <2> QED BY <2>1, <2>2
<1>21. ASSUME NEW x \in Slots, x \notin On(ch2) PROVE lk2[x] = FreeLink
    <2>1. CASE x = m
        BY <1>8, <2>1 DEF Cut
    <2>2. CASE x # m
        <3>1. x \notin On(ch)
            BY <1>20, <1>21, <2>2
        <3>2. x # p /\ x # n
            <4>1. x # p
                <5>1. CASE i = 1
                    BY <1>1, <1>5, <5>1
                <5>2. CASE i # 1
                    <6>1. i - 1 \in 1 .. Len(ch[b]) /\ p = ch[b][i - 1]
                        BY <1>1, <1>5, <1>10, <5>2
                    <6> QED BY <1>4, <3>1, <6>1
                <5> QED BY <5>1, <5>2
            <4>2. x # n
                <5>1. CASE i = Len(s)
                    BY <1>1, <1>5, <5>1
                <5>2. CASE i # Len(s)
                    <6>1. i + 1 \in 1 .. Len(ch[b]) /\ n = ch[b][i + 1]
                        BY <1>1, <1>5, <1>10, <5>2
                    <6> QED BY <1>4, <3>1, <6>1
                <5> QED BY <5>1, <5>2
            <4> QED BY <4>1, <4>2
        <3>3. lk2[x] = lk[x]
            BY <1>8, <2>2, <3>2 DEF Cut
        <3> QED BY <3>1, <3>3 DEF Shape
    <2> QED BY <2>1, <2>2
<1>22. Shape(ch2, tb2, lk2)
    BY <1>3, <1>17, <1>19, <1>21 DEF Shape
<1> QED BY <1>20, <1>22 DEF Shrinks

LEMMA ErasedLeft ==
    ASSUME NEW s \in Seq(Slots), NEW i \in 1 .. Len(s)
    PROVE  \A j \in 1 .. Len(Erased(s, i)) : \E h \in 1 .. Len(s) : Erased(s, i)[j] = s[h]
<1>1. /\ Len(Erased(s, i)) = Len(s) - 1 /\ Len(s) \in Nat
      /\ \A j \in 1 .. Len(s) - 1 : Erased(s, i)[j] = IF j < i THEN s[j] ELSE s[j + 1]
    BY ErasedEntries
<1> SUFFICES ASSUME NEW j \in 1 .. Len(s) - 1
             PROVE  \E h \in 1 .. Len(s) : Erased(s, i)[j] = s[h]
    BY <1>1
<1>2. j \in 1 .. Len(s) /\ j + 1 \in 1 .. Len(s)
    BY <1>1
<1> QED BY <1>1, <1>2

\* The cells and the objects held after it.
Freed(ce, c) == [ce EXCEPT ![c] = FreeCell]
\* The links on the chains ch have kept their cells, and these what they hold.
SameOn(ch, lk, ce, lk2, ce2) ==
    \A x \in On(ch) : lk2[x].data = lk[x].data /\ ce2[lk[x].data] = ce[lk[x].data]
\* No link of s before i carries k.
NoneBefore(s, i, k, lk, ce) == \A j \in 1 .. i - 1 : s[j] \notin With(k, lk, ce)
OldestOf(held, k, b, o) ==
    k \in Keys /\ b = Bucket[k] /\ held[k] # << >> /\ Head(held[k]) = o
Loses(held, held2, k) == held2 = [held EXCEPT ![k] = Tail(@)]

\* The cell of a link taken out is freed.
LEMMA CutFilled ==
    ASSUME NEW ch, NEW tb, NEW lk, NEW ce, Shape(ch, tb, lk), Filled(ch, lk, ce),
           ce \in [Slots -> CellRecord],
           NEW b \in Slots, NEW i \in 1 .. Len(ch[b]), NEW m, m = ch[b][i],
           NEW p, NEW n, NEW lk2, Cut(lk, lk2, m, p, n),
           NEW ch2, ch2 = Shorter(ch, b, i), Shrinks(ch, ch2, m),
           NEW ce2, ce2 = Freed(ce, lk[m].data)
    PROVE  /\ Filled(ch2, lk2, ce2)
           /\ SameOn(ch2, lk, ce, lk2, ce2)
<1>1. m \in On(ch) /\ lk[m].data \in Slots
    <2>1. m \in On(ch)
        BY Places
    <2> QED BY <2>1 DEF Filled
<1>2. \A x \in On(ch2) : /\ x \in On(ch) /\ x # m /\ x \in Slots
                         /\ lk[x].data \in Slots /\ lk[x].data # lk[m].data
    <2>1. \A x \in On(ch2) : x \in On(ch) /\ x # m
        BY DEF Shrinks
    <2>2. \A x \in On(ch) : x \in Slots
        BY DEF On
    <2>3. \A x \in On(ch) : lk[x].data \in Slots /\ (lk[x].data = lk[m].data => x = m)
        BY <1>1 DEF Filled
    <2> QED BY <2>1, <2>2, <2>3
<1>3. \A x \in On(ch2) : ce2[lk[x].data] = ce[lk[x].data]
    BY <1>2 DEF Freed
<1>4. \A x \in On(ch2) : lk2[x].data = lk[x].data /\ lk2[x].exists = lk[x].exists
    BY <1>2 DEF Cut
<1>5. \A x \in On(ch2) : lk2[x].exists = TRUE /\ lk2[x].data \in Slots /\ ce2[lk2[x].data] \in UsedCell
    <2>1. \A x \in On(ch2) : lk[x].exists = TRUE /\ lk[x].data \in Slots /\ ce[lk[x].data] \in UsedCell
        BY <1>2 DEF Filled
    <2> QED BY <1>3, <1>4, <2>1
<1>6. ASSUME NEW d \in Slots, NEW j \in 1 .. Len(ch2[d])
      PROVE  Bucket[ce2[lk2[ch2[d][j]].data].key] = d
    <2>1. ch \in [Slots -> Seq(Slots)]
        BY DEF Shape
    <2>2. ch2[d][j] \in On(ch2)
        <3>1. ch2 \in [Slots -> Seq(Slots)]
            <4>1. ch[b] \in Seq(Slots)
                BY <2>1
            <4>2. Erased(ch[b], i) \in Seq(Slots)
                BY <4>1, ErasedEntries
            <4> QED BY <2>1, <4>2 DEF Shorter
        <3>2. ch2[d][j] \in Slots /\ Occurs(ch2[d][j], ch2[d])
            BY <3>1 DEF Occurs
        <3> QED BY <3>2 DEF On
    <2>3. \E h \in 1 .. Len(ch[d]) : ch2[d][j] = ch[d][h]
        <3>1. CASE d # b
            BY <2>1, <3>1 DEF Shorter
        <3>2. CASE d = b
            <4> DEFINE s == ch[b]
            <4>1. s \in Seq(Slots) /\ i \in 1 .. Len(s) /\ ch2[d] = Erased(s, i) /\ s = ch[d]
                BY <2>1, <3>2 DEF Shorter
            <4> HIDE DEF s
            <4>2. \A h \in 1 .. Len(Erased(s, i)) : \E g \in 1 .. Len(s) : Erased(s, i)[h] = s[g]
                BY <4>1, ErasedLeft
            <4> QED BY <4>1, <4>2
        <3> QED BY <3>1, <3>2
    <2>4. PICK h \in 1 .. Len(ch[d]) : ch2[d][j] = ch[d][h]
        BY <2>3
    <2>5. Bucket[ce[lk[ch[d][h]].data].key] = d
        BY DEF Filled
    <2> QED BY <1>3, <1>4, <2>2, <2>4, <2>5
<1>7. ASSUME NEW x \in On(ch2), NEW y \in On(ch2), lk2[x].data = lk2[y].data PROVE x = y
    <2>1. lk[x].data = lk[y].data
        BY <1>4, <1>7
    <2> QED BY <1>2, <2>1 DEF Filled
<1>8. ASSUME NEW c \in Slots PROVE ce2[c] = FreeCell \/ \E x \in On(ch2) : lk2[x].data = c
    <2>1. CASE c = lk[m].data
        BY <2>1 DEF Freed
    <2>2. CASE c # lk[m].data
        <3>1. ce2[c] = ce[c]
            BY <2>2 DEF Freed
        <3>2. ce[c] = FreeCell \/ \E x \in On(ch) : lk[x].data = c
            BY DEF Filled
        <3>3. ASSUME NEW x \in On(ch), lk[x].data = c PROVE x \in On(ch2) /\ lk2[x].data = c
            <4>1. x \in On(ch2)
                BY <2>2, <3>3, SMTT(30) DEF Shrinks
            <4> QED BY <1>4, <3>3, <4>1
        <3> QED BY <3>1, <3>2, <3>3
    <2> QED BY <2>1, <2>2
<1>9. Filled(ch2, lk2, ce2)
    BY <1>5, <1>6, <1>7, <1>8, ZenonT(60) DEF Filled
<1> QED BY <1>3, <1>4, <1>9 DEF SameOn

\* When the link is the first that carries its key, the oldest object of this
\* key is gone and nothing else.
LEMMA CutHeld ==
    ASSUME NEW ch, NEW tb, NEW lk, NEW ce, Shape(ch, tb, lk), Filled(ch, lk, ce),
           ce \in [Slots -> CellRecord],
           NEW b \in Slots, NEW i \in 1 .. Len(ch[b]), NEW m, m = ch[b][i],
           NEW k, k = ce[lk[m].data].key,
           NoneBefore(ch[b], i, k, lk, ce),
           NEW ch2, ch2 = Shorter(ch, b, i), Shrinks(ch, ch2, m),
           NEW lk2, NEW ce2,
           SameOn(ch2, lk, ce, lk2, ce2),
           Filled(ch2, lk2, ce2)
    PROVE  /\ OldestOf(Held(ch, lk, ce), k, b, ce[lk[m].data].value)
           /\ Loses(Held(ch, lk, ce), Held(ch2, lk2, ce2), k)
<1> DEFINE s == ch[b]
           A(j) == With(j, lk, ce)
           v == ValueOf(lk, ce)
<1>1. /\ ch \in [Slots -> Seq(Slots)] /\ s \in Seq(Slots) /\ Len(s) \in Nat /\ m \in On(ch) /\ m \in Slots
      /\ s = ch[b] /\ i \in 1 .. Len(s)
      /\ \A j \in Keys : Bucket[j] \in Slots
    BY Places, BucketAssumption DEF Shape
<1>2. lk[m].data \in Slots /\ ce[lk[m].data] \in UsedCell /\ b = Bucket[k]
    <2>1. lk[m].data \in Slots /\ ce[lk[m].data] \in UsedCell
        BY <1>1, SMTT(30) DEF Filled
    <2>2. Bucket[ce[lk[ch[b][i]].data].key] = b
        BY SMTT(30) DEF Filled
    <2> QED BY <2>1, <2>2
<1>3. k \in Keys /\ lk[m].data # Nil
    BY <1>2, SlotFacts DEF UsedCell
<1>4. m \in A(k) /\ v[m] = ce[lk[m].data].value /\ m = s[i]
    BY <1>1, <1>3 DEF With, ValueOf
<1>5. /\ ch2[b] = Erased(s, i) /\ Erased(s, i) \in Seq(Slots)
      /\ \A d \in Slots : d # b => ch2[d] = ch[d]
    <2>1. Erased(s, i) \in Seq(Slots)
        <3> HIDE DEF s
        <3> QED BY <1>1, ErasedEntries
    <2>2. \A d \in Slots : ch2[d] = IF d = b THEN Erased(ch[b], i) ELSE ch[d]
        BY <1>1 DEF Shorter
    <2> QED BY <2>1, <2>2
<1>6. ch2 \in [Slots -> Seq(Slots)]
    BY <1>1, <1>5 DEF Shorter
<1>7. ASSUME NEW j \in Keys
      PROVE  Held(ch2, lk2, ce2)[j] = Mapped(Picked(ch2[Bucket[j]], A(j)), v)
    <2> DEFINE t == ch2[Bucket[j]]
    <2>1. t \in Seq(Slots) /\ Bucket[j] \in Slots
        BY <1>1, <1>6
    <2>2. \A h \in 1 .. Len(t) : t[h] \in On(ch2)
        BY <2>1 DEF On, Occurs
    <2> HIDE DEF t
    <2>3. Keeps(t, lk, ce, lk2, ce2)
        BY <2>2 DEF Keeps, SameOn
    <2>4. Picked(t, With(j, lk2, ce2)) = Picked(t, With(j, lk, ce))
        BY <2>1, <2>3, SameLinks
    <2>5. Mapped(Picked(t, With(j, lk, ce)), ValueOf(lk2, ce2)) =
              Mapped(Picked(t, With(j, lk, ce)), ValueOf(lk, ce))
        BY <2>1, <2>3, SameObjects
    <2>6. Held(ch2, lk2, ce2)[j] = Mapped(Picked(t, With(j, lk2, ce2)), ValueOf(lk2, ce2))
        BY DEF Held, t
    <2> QED BY <2>4, <2>5, <2>6 DEF t
<1>8. \A j \in Keys : Held(ch, lk, ce)[j] = Mapped(Picked(ch[Bucket[j]], A(j)), v)
    BY SMTT(30) DEF Held
<1>9. /\ Picked(s, A(k)) # << >> /\ Picked(s, A(k))[1] = m /\ Picked(s, A(k)) \in Seq(Slots)
      /\ Picked(Erased(s, i), A(k)) = Tail(Picked(s, A(k)))
    <2> DEFINE B == A(k)
    <2>1. \A j \in 1 .. i - 1 : s[j] \notin B
        BY DEF NoneBefore
    <2>2. s[i] \in B
        BY <1>4
    <2> HIDE DEF A, B, s
    <2>3. s \in Seq(Slots) /\ i \in 1 .. Len(s)
        BY <1>1
    <2>4. Picked(s, B) # << >> /\ Picked(s, B)[1] = s[i]
        BY <2>1, <2>2, <2>3, PickedFirst, ZenonT(60)
    <2>5. Picked(Erased(s, i), B) = Tail(Picked(s, B))
        BY <2>1, <2>2, <2>3, PickedFirst
    <2>6. Picked(s, B) \in Seq(Slots)
        BY <1>1, PickedType
    <2> QED BY <1>4, <2>4, <2>5, <2>6 DEF B
<1>10. /\ Held(ch, lk, ce)[k] # << >> /\ Head(Held(ch, lk, ce)[k]) = v[m]
       /\ Held(ch2, lk2, ce2)[k] = Tail(Held(ch, lk, ce)[k])
    <2> DEFINE q == Picked(s, A(k))
    <2> HIDE DEF A, v, s
    <2>1. Held(ch, lk, ce)[k] = Mapped(q, v)
        BY <1>1, <1>2, <1>3, <1>8, ZenonT(60)
    <2>2. Held(ch2, lk2, ce2)[k] = Mapped(Picked(Erased(s, i), A(k)), v)
        BY <1>1, <1>2, <1>3, <1>5, <1>7, ZenonT(60)
    <2>3. /\ Held(ch, lk, ce)[k] = Mapped(q, v) /\ q \in Seq(Slots) /\ q # << >> /\ q[1] = m
          /\ Held(ch2, lk2, ce2)[k] = Mapped(Tail(q), v)
        BY <1>9, <2>1, <2>2
    <2> HIDE DEF q
    <2>4. /\ Mapped(q, v) # << >> /\ Head(Mapped(q, v)) = v[q[1]]
          /\ Mapped(Tail(q), v) = Tail(Mapped(q, v))
        BY <2>3, MappedTail
    <2> QED BY <2>3, <2>4
<1>11. ASSUME NEW j \in Keys, j # k PROVE Held(ch2, lk2, ce2)[j] = Held(ch, lk, ce)[j]
    <2>1. CASE Bucket[j] # b
        BY <1>1, <1>5, <1>7, <1>8, <2>1
    <2>2. CASE Bucket[j] = b
        <3>1. m \notin A(j)
            BY <1>11 DEF With
        <3> HIDE DEF A, s
        <3>2. Picked(Erased(s, i), A(j)) = Picked(s, A(j))
            BY <1>1, <1>4, <3>1, PickedErased
        <3>3. Held(ch, lk, ce)[j] = Mapped(Picked(s, A(j)), v)
            BY <1>1, <1>8, <2>2
        <3>4. Held(ch2, lk2, ce2)[j] = Mapped(Picked(Erased(s, i), A(j)), v)
            BY <1>5, <1>7, <2>2
        <3> QED BY <3>2, <3>3, <3>4
    <2> QED BY <2>1, <2>2
<1>12. Loses(Held(ch, lk, ce), Held(ch2, lk2, ce2), k)
    <2> DEFINE f == Held(ch2, lk2, ce2)
               g == Held(ch, lk, ce)
    <2>1. f = [j \in Keys |-> f[j]] /\ g = [j \in Keys |-> g[j]]
        BY SMTT(30) DEF Held
    <2>2. \A j \in Keys : f[j] = IF j = k THEN Tail(g[j]) ELSE g[j]
        BY <1>10, <1>11, ZenonT(60)
    <2> HIDE DEF f, g
    <2>3. Loses(g, f, k)
        BY <1>3, <2>1, <2>2 DEF Loses
    <2> QED BY <2>3 DEF f, g
<1> QED BY <1>2, <1>3, <1>4, <1>10, <1>12 DEF OldestOf

-----------------------------------------------------------------------------
(* The empty table. *)

NoChains == [b \in Slots |-> << >>]

LEMMA EmptyTable ==
    ASSUME NEW lk, NEW ce, NEW tb, tb = [b \in Slots |-> Nil],
           \A l \in Slots : lk[l] = FreeLink, \A c \in Slots : ce[c] = FreeCell
    PROVE  /\ Shape(NoChains, tb, lk) /\ Filled(NoChains, lk, ce)
           /\ On(NoChains) = {} /\ Cardinality({}) = 0
           /\ Held(NoChains, lk, ce) = [k \in Keys |-> << >>]
<1>1. /\ NoChains \in [Slots -> Seq(Slots)] /\ \A b \in Slots : NoChains[b] = << >>
      /\ Len(<< >>) = 0 /\ << >> \in Seq(Slots)
    BY DEF NoChains
<1>2. On(NoChains) = {}
    BY <1>1 DEF On, Occurs
<1>3. \A b \in Slots : Path(NoChains[b], tb[b], lk)
    BY <1>1 DEF Path
<1>4. Shape(NoChains, tb, lk)
    BY <1>1, <1>2, <1>3 DEF Shape
<1>5. Filled(NoChains, lk, ce)
    BY <1>1, <1>2 DEF Filled
<1>6. ASSUME NEW k \in Keys PROVE Held(NoChains, lk, ce)[k] = << >>
    <2> DEFINE A == With(k, lk, ce)
               v == ValueOf(lk, ce)
    <2>1. Bucket[k] \in Slots
        BY BucketAssumption
    <2>2. Held(NoChains, lk, ce)[k] = Mapped(Picked(<< >>, A), v)
        BY <1>1, <2>1 DEF Held
    <2> HIDE DEF A, v
    <2>3. Picked(<< >>, A) = << >>
        BY PickedEmpty
    <2>4. Mapped(<< >>, v) = << >>
        <3>1. \A s \in Seq(Slots) : Len(Mapped(s, v)) = Len(s)
                                    /\ Mapped(s, v) \in Seq({v[x] : x \in Slots})
            BY MappedType
        <3>2. << >> \in Seq(Slots) /\ Len(<< >>) = 0
            OBVIOUS
        <3> DEFINE q == Mapped(<< >>, v)
                   V == {v[x] : x \in Slots}
        <3>3. q \in Seq(V) /\ Len(q) = 0
            BY <3>1, <3>2
        <3> HIDE DEF q, V
        <3>4. q = << >>
            BY <3>3
        <3> QED BY <3>4 DEF q
    <2> QED BY <2>2, <2>3, <2>4
<1>7. Held(NoChains, lk, ce) = [k \in Keys |-> << >>]
    BY <1>6 DEF Held
<1> QED BY <1>2, <1>4, <1>5, <1>7, FS_EmptySet

-----------------------------------------------------------------------------
(* The steps. *)

\* The objects under each key, as the table has them.
Stored == Held(Chains, link, cell)

LEMMA NextCursor ==
    ASSUME NEW c \in Slots PROVE (c + 1) % Count \in Slots
<1>1. Count \in Nat /\ Count > 0 /\ c + 1 \in Int
    BY CountAssumption DEF Slots
<1>2. (c + 1) % Count \in 0 .. Count - 1
    BY <1>1
<1> QED BY <1>2 DEF Slots

\* After a step it is enough to name the chains.
LEMMA AfterStep ==
    ASSUME NEW ch, TypeOK', Shape(ch, table', link'), Filled(ch, link', cell'),
           cellUsed' = Cardinality(On(ch)), linkUsed' = Cardinality(On(ch))
    PROVE  IInv' /\ Stored' = Held(ch, link', cell')
<1>1. Chains' = ch
    BY ChainsAre
<1> QED BY <1>1 DEF IInv, Stored

LEMMA NoChange ==
    ASSUME IInv, UNCHANGED <<cells, links, table>>, popCurr' \in Slots,
           answer' \in Objects \cup {Nil, TRUE, FALSE}
    PROVE  IInv' /\ Stored' = Stored
<1>1. /\ cell' = cell /\ cellUsed' = cellUsed /\ cellCurr' = cellCurr
      /\ link' = link /\ linkUsed' = linkUsed /\ linkCurr' = linkCurr /\ table' = table
    BY DEF cells, links
<1>2. TypeOK'
    BY <1>1 DEF IInv, TypeOK
<1>3. Shape(Chains, table', link') /\ Filled(Chains, link', cell')
    BY <1>1 DEF IInv
<1>4. cellUsed' = Cardinality(On(Chains)) /\ linkUsed' = Cardinality(On(Chains))
    BY <1>1 DEF IInv
<1>5. IInv' /\ Stored' = Held(Chains, link', cell')
    BY <1>2, <1>3, <1>4, AfterStep
<1> QED BY <1>1, <1>5 DEF Stored

LEMMA LastLinkIs ==
    ASSUME IInv, NEW b \in Slots
    PROVE  LastLink(b) = LastOf(Chains[b])
<1>1. Chains[b] = Chain(b) /\ Path(Chains[b], table[b], link) /\ Chains[b] \in Seq(Slots)
    BY DEF IInv, Shape, Chains
<1>2. table[b] = Nil <=> Chains[b] = << >>
    <2>1. Chains[b] # << >> => Chains[b][1] \in Slots
        BY <1>1
    <2> QED BY <1>1, <2>1, SlotFacts DEF Path
<1> QED BY <1>1, <1>2 DEF LastLink, LastOf

\* Both pools answer alike: they are full together.
LEMMA PoolsAlike ==
    ASSUME IInv
    PROVE  /\ cellUsed = linkUsed /\ linkUsed \in 0 .. Count
           /\ linkUsed = Count => /\ FreeSlot(cell, cellUsed, cellCurr) = Nil
                                  /\ FreeSlot(link, linkUsed, linkCurr) = Nil
           /\ linkUsed # Count =>
                  /\ FreeSlot(cell, cellUsed, cellCurr) \in Slots
                  /\ ~ cell[FreeSlot(cell, cellUsed, cellCurr)].exists
                  /\ FreeSlot(link, linkUsed, linkCurr) \in Slots
                  /\ ~ link[FreeSlot(link, linkUsed, linkCurr)].exists
<1>1. cellUsed = linkUsed /\ linkUsed = Cardinality(On(Chains)) /\ linkUsed \in 0 .. Count
    BY DEF IInv, TypeOK
<1>2. CASE linkUsed = Count
    BY <1>1, <1>2 DEF FreeSlot
<1>3. CASE linkUsed # Count
    <2>1. {c \in Slots : ~ cell[c].exists} # {} /\ {l \in Slots : ~ link[l].exists} # {}
        BY <1>1, <1>3, RoomForBoth DEF IInv
    <2>2. FreeSlot(cell, cellUsed, cellCurr) \in {c \in Slots : ~ cell[c].exists}
        BY <1>1, <1>3, <2>1, FreeSlotIs
    <2>3. FreeSlot(link, linkUsed, linkCurr) \in {l \in Slots : ~ link[l].exists}
        BY <1>1, <1>3, <2>1, FreeSlotIs
    <2> QED BY <1>1, <1>3, <2>2, <2>3
<1> QED BY <1>2, <1>3

LEMMA MoreChains ==
    ASSUME NEW ch, NEW l \in Slots, l \notin On(ch), NEW ch2, Grows(ch, ch2, l)
    PROVE  Cardinality(On(ch2)) = Cardinality(On(ch)) + 1
<1>1. On(ch) \in SUBSET Slots
    BY DEF On
<1>2. IsFiniteSet(On(ch))
    BY <1>1, SomeSlots
<1> QED BY <1>2, FS_AddElement DEF Grows

LEMMA FewerChains ==
    ASSUME NEW ch, NEW m \in On(ch), NEW ch2, Shrinks(ch, ch2, m)
    PROVE  /\ Cardinality(On(ch2)) = Cardinality(On(ch)) - 1
           /\ Cardinality(On(ch)) \in 1 .. Count
<1>1. On(ch) \in SUBSET Slots /\ On(ch) # {}
    BY DEF On
<1>2. IsFiniteSet(On(ch)) /\ Cardinality(On(ch)) \in 0 .. Count
    BY <1>1, SomeSlots
<1>3. Cardinality(On(ch)) # 0
    BY <1>1, <1>2, FS_EmptySet
<1>4. Cardinality(On(ch) \ {m}) = Cardinality(On(ch)) - 1
    BY <1>2, FS_RemoveElement
<1> QED BY <1>2, <1>3, <1>4, CountAssumption DEF Shrinks

\* The link taken from its pool, with its cell and the end of the chain.
Taken(r, c, last) == [r EXCEPT !.exists = TRUE, !.data = c, !.perv = last]

LEMMA TakenLink ==
    ASSUME NEW r \in LinkRecord, NEW c \in Slots, NEW last \in Slots \cup {Nil}
    PROVE  /\ Taken(r, c, last).exists = TRUE /\ Taken(r, c, last).data = c
           /\ Taken(r, c, last).next = r.next /\ Taken(r, c, last).perv = last
           /\ Taken(r, c, last) \in LinkRecord
<1> DEFINE q == Taken(r, c, last)
<1>1. q.exists = TRUE /\ q.data = c /\ q.next = r.next /\ q.perv = last
    BY DEF LinkRecord, Taken
<1>2. q \in LinkRecord
    BY DEF LinkRecord, Taken
<1> QED BY <1>1, <1>2

\* The table of links with it.
Taking(lk, l, c, last) == [lk EXCEPT ![l].exists = TRUE, ![l].data = c, ![l].perv = last]

IsTaken(lk, lk2, l, c, last) ==
    /\ lk2 \in [Slots -> LinkRecord]
    /\ lk2[l].exists = TRUE /\ lk2[l].data = c /\ lk2[l].next = lk[l].next
    /\ lk2[l].perv = last
    /\ \A x \in Slots : x # l => lk2[x] = lk[x]

LEMMA LinkTaken ==
    ASSUME NEW lk \in [Slots -> LinkRecord], NEW l \in Slots, NEW c \in Slots,
           NEW last \in Slots \cup {Nil}, NEW lk2,
           lk2 = Taking(lk, l, c, last)
    PROVE  IsTaken(lk, lk2, l, c, last)
<1>1. lk[l] \in LinkRecord
    OBVIOUS
<1>2. lk2 = [lk EXCEPT ![l] = Taken(lk[l], c, last)]
    BY DEF Taken, Taking
<1>3. Taken(lk[l], c, last) \in LinkRecord
    BY <1>1, TakenLink
<1>4. /\ Taken(lk[l], c, last).exists = TRUE /\ Taken(lk[l], c, last).data = c
      /\ Taken(lk[l], c, last).next = lk[l].next /\ Taken(lk[l], c, last).perv = last
    BY <1>1, TakenLink
<1>5. lk2[l] = Taken(lk[l], c, last) /\ \A x \in Slots : x # l => lk2[x] = lk[x]
    BY <1>2
<1>6. lk2 \in [Slots -> LinkRecord]
    BY <1>2, <1>3
<1> QED BY <1>4, <1>5, <1>6 DEF IsTaken

\* AppendLink fails when the pools are full; else the object is the newest of
\* its key.
LEMMA AppendLinkStep ==
    ASSUME IInv, NEW k \in Keys, NEW o \in Objects, AppendLink(k, o), popCurr' = popCurr
    PROVE  /\ IInv'
           /\ answer' = (linkUsed # Count)
           /\ IF linkUsed = Count THEN Stored' = Stored ELSE Gains(Stored, Stored', k, o)
<1> DEFINE c == FreeSlot(cell, cellUsed, cellCurr)
           l == FreeSlot(link, linkUsed, linkCurr)
           b == Bucket[k]
           last == LastLink(b)
           linked == Taking(link, l, c, last)
           ch == Chains
           ch2 == Longer(ch, b, l)
<1>1. /\ b \in Slots /\ Nil \notin Slots /\ popCurr \in Slots
      /\ cell \in [Slots -> CellRecord] /\ link \in [Slots -> LinkRecord]
      /\ table \in [Slots -> Slots \cup {Nil}]
    BY BucketAssumption, SlotFacts DEF IInv, TypeOK, CellRecord, LinkRecord
<1>2. /\ cellUsed = linkUsed /\ linkUsed \in 0 .. Count
      /\ linkUsed = Count => c = Nil /\ l = Nil
      /\ linkUsed # Count => c \in Slots /\ ~ cell[c].exists /\ l \in Slots /\ ~ link[l].exists
    BY PoolsAlike
<1>3. CASE linkUsed = Count
    <2>1. answer' = FALSE /\ UNCHANGED <<cells, links, table>>
        BY <1>2, <1>3 DEF AppendLink
    <2>2. IInv' /\ Stored' = Stored
        BY <1>1, <2>1, NoChange
    <2> QED BY <1>3, <2>1, <2>2
<1>4. CASE linkUsed # Count
    <2>1. c \in Slots /\ l \in Slots /\ c # Nil /\ l # Nil
        BY <1>1, <1>2, <1>4
    <2>2. /\ cellUsed' = cellUsed + 1 /\ cellCurr' = (c + 1) % Count
          /\ cell' = Entered(cell, c, k, o)
          /\ linkUsed' = linkUsed + 1 /\ linkCurr' = (l + 1) % Count
          /\ answer' = TRUE
          /\ \/ last = Nil /\ link' = linked /\ table' = [table EXCEPT ![b] = l]
             \/ last # Nil /\ link' = [linked EXCEPT ![last].next = l] /\ table' = table
        <3> HIDE DEF c, l
        <3> QED BY <2>1 DEF AppendLink, c, l, Entered, Taking
    <2>3. last = LastOf(ch[b])
        BY <1>1, LastLinkIs
    <2>4. Shape(ch, table, link) /\ Filled(ch, link, cell) /\ cellUsed = Cardinality(On(ch))
        BY DEF IInv
    <2> HIDE DEF c, l, last, b, ch
    <2>5. l \notin On(ch) /\ link[l] = FreeLink
        BY <1>2, <1>4, <2>1, <2>4, FreeOnes
    <2>6. last = Nil \/ last \in On(ch)
        <3>1. ch[b] \in Seq(Slots) /\ \A i \in 1 .. Len(ch[b]) : ch[b][i] \in On(ch)
            BY <1>1, <2>4, Places
        <3>2. ch[b] # << >> => Len(ch[b]) \in 1 .. Len(ch[b])
            BY <3>1
        <3> QED BY <2>3, <3>1, <3>2 DEF LastOf
    <2>7. last \in Slots \cup {Nil} /\ last # l
        BY <1>1, <2>1, <2>5, <2>6 DEF On
    <2>8. Hung(link, link', l, c, last) /\ link' \in [Slots -> LinkRecord]
        <3>1. /\ linked \in [Slots -> LinkRecord]
              /\ linked[l].exists = TRUE /\ linked[l].data = c
              /\ linked[l].next = Nil /\ linked[l].perv = last
              /\ \A x \in Slots \ {l} : linked[x] = link[x]
            <4>1. IsTaken(link, linked, l, c, last)
                <5>1. linked = Taking(link, l, c, last)
                    OBVIOUS
                <5>2. link \in [Slots -> LinkRecord] /\ l \in Slots /\ c \in Slots
                      /\ last \in Slots \cup {Nil}
                    BY <1>1, <2>1, <2>7
                <5> HIDE DEF linked
                <5> QED BY <5>1, <5>2, LinkTaken
            <4> HIDE DEF linked
            <4> QED BY <2>5, <4>1 DEF FreeLink, IsTaken
        <3> HIDE DEF linked
        <3>2. CASE last = Nil
            <4>1. link' = linked
                BY <2>2, <3>2
            <4> QED BY <1>1, <3>1, <3>2, <4>1 DEF Hung
        <3>3. CASE last # Nil
            <4>1. link' = [linked EXCEPT ![last].next = l] /\ last \in Slots
                BY <2>2, <2>7, <3>3
            <4>2. /\ link' \in [Slots -> LinkRecord]
                  /\ \A x \in Slots : x # last => link'[x] = linked[x]
                  /\ link'[last].next = l /\ link'[last].exists = linked[last].exists
                  /\ link'[last].data = linked[last].data /\ link'[last].perv = linked[last].perv
                BY <2>1, <3>1, <4>1 DEF LinkRecord
            <4> QED BY <2>1, <2>7, <3>1, <4>1, <4>2 DEF Hung
        <3> QED BY <3>2, <3>3
    <2>9. table' = IF last = Nil THEN [table EXCEPT ![b] = l] ELSE table
        BY <2>2
    <2>10. Hung(link, link', l, c, LastOf(ch[b]))
        BY <2>3, <2>8
    <2>11. table' = HeadHung(table, b, l, LastOf(ch[b]))
        BY <2>3, <2>9 DEF HeadHung
    <2>12. ch2 = Longer(ch, b, l)
        OBVIOUS
    <2> HIDE DEF ch2
    <2>13. Shape(ch2, table', link') /\ Grows(ch, ch2, l)
        BY <1>1, <2>1, <2>4, <2>5, <2>10, <2>11, <2>12, HungShape
    <2>14. /\ Filled(ch2, link', cell')
           /\ Gains(Held(ch, link, cell), Held(ch2, link', cell'), k, o)
        <3>1. Hung(link, link', l, c, LastOf(ch[Bucket[k]]))
            BY <2>10 DEF b
        <3>2. ch2 = Longer(ch, Bucket[k], l)
            BY <2>12 DEF b
        <3>3. ~ cell[c].exists
            BY <1>2, <1>4
        <3>4. cell' = Entered(cell, c, k, o)
            BY <2>2
        <3>5. Filled(ch2, link', cell')
            BY <1>1, <2>1, <2>4, <2>5, <2>13, <3>1, <3>2, <3>3, <3>4, HungFilled
        <3>6. Gains(Held(ch, link, cell), Held(ch2, link', cell'), k, o)
            BY <1>1, <2>1, <2>4, <2>5, <2>13, <3>1, <3>2, <3>3, <3>4, HungFilled
        <3> QED BY <3>5, <3>6
    <2>15. Cardinality(On(ch2)) = Cardinality(On(ch)) + 1
        BY <2>1, <2>5, <2>13, MoreChains
    <2>16. TypeOK'
        <3>1. cell' \in [Slots -> CellRecord]
            BY <1>1, <2>1, <2>2 DEF CellRecord, Entered
        <3>2. table' \in [Slots -> Slots \cup {Nil}]
            BY <1>1, <2>1, <2>9
        <3>3. cellUsed' \in 0 .. Count /\ linkUsed' \in 0 .. Count
            BY <1>2, <1>4, <2>2, CountAssumption
        <3>4. cellCurr' \in Slots /\ linkCurr' \in Slots
            BY <2>1, <2>2, NextCursor
        <3>5. popCurr' \in Slots /\ answer' \in Objects \cup {Nil, TRUE, FALSE}
            BY <1>1, <2>2
        <3> QED BY <2>8, <3>1, <3>2, <3>3, <3>4, <3>5 DEF TypeOK, CellRecord, LinkRecord
    <2>17. cellUsed' = Cardinality(On(ch2)) /\ linkUsed' = Cardinality(On(ch2))
        BY <1>2, <2>2, <2>4, <2>15
    <2>18. IInv' /\ Stored' = Held(ch2, link', cell')
        BY <2>13, <2>14, <2>16, <2>17, AfterStep
    <2> QED BY <1>4, <2>2, <2>14, <2>18 DEF Stored, ch
<1> QED BY <1>3, <1>4

\* A link with its two pointers set.
Bridged(r, n, p) == [r EXCEPT !.next = n, !.perv = p]

LEMMA BridgedLink ==
    ASSUME NEW r \in LinkRecord, NEW n \in Slots \cup {Nil}, NEW p \in Slots \cup {Nil}
    PROVE  /\ Bridged(r, n, p).exists = r.exists /\ Bridged(r, n, p).data = r.data
           /\ Bridged(r, n, p).next = n /\ Bridged(r, n, p).perv = p
           /\ Bridged(r, n, p) \in LinkRecord
           /\ n = r.next /\ p = r.perv => Bridged(r, n, p) = r
<1> DEFINE q == Bridged(r, n, p)
<1>1. q.exists = r.exists /\ q.data = r.data /\ q.next = n /\ q.perv = p
    BY DEF LinkRecord, Bridged
<1>2. q \in LinkRecord
    BY DEF LinkRecord, Bridged
<1>3. n = r.next /\ p = r.perv => q = r
    <2> SUFFICES ASSUME n = r.next, p = r.perv PROVE q = r
        OBVIOUS
    <2>1. /\ q = [exists |-> q.exists, data |-> q.data, next |-> q.next, perv |-> q.perv]
          /\ r = [exists |-> r.exists, data |-> r.data, next |-> r.next, perv |-> r.perv]
        <3> HIDE DEF q
        <3> QED BY <1>2 DEF LinkRecord
    <2> QED BY <1>1, <2>1
<1> QED BY <1>1, <1>2, <1>3

LEMMA UnlinkedIsCut ==
    ASSUME IInv, NEW m \in Slots
    PROVE  Cut(link, Unlinked(m), m, link[m].perv, link[m].next)
           /\ Unlinked(m) \in [Slots -> LinkRecord]
<1> DEFINE p == link[m].perv
           n == link[m].next
           lk2 == Unlinked(m)
           N(x) == IF x = p THEN n ELSE link[x].next
           P(x) == IF x = n THEN p ELSE link[x].perv
<1>1. link \in [Slots -> LinkRecord]
    BY DEF IInv, TypeOK, LinkRecord
<1>2. \A x \in Slots : /\ link[x] \in LinkRecord
                       /\ link[x].next \in Slots \cup {Nil} /\ link[x].perv \in Slots \cup {Nil}
    BY <1>1 DEF LinkRecord
<1>3. /\ lk2 = [x \in Slots |-> lk2[x]]
      /\ \A x \in Slots : lk2[x] = IF x = m THEN FreeLink ELSE Bridged(link[x], N(x), P(x))
    BY DEF Unlinked, Bridged
<1>4. FreeLink \in LinkRecord
    BY DEF FreeLink, LinkRecord
<1> HIDE DEF lk2
<1>5. ASSUME NEW x \in Slots, x # m
      PROVE  /\ lk2[x].exists = link[x].exists /\ lk2[x].data = link[x].data
             /\ lk2[x].next = N(x) /\ lk2[x].perv = P(x) /\ lk2[x] \in LinkRecord
             /\ x # p /\ x # n => lk2[x] = link[x]
    <2> DEFINE u == N(x)
               v == P(x)
               r == link[x]
    <2>1. u \in Slots \cup {Nil} /\ v \in Slots \cup {Nil} /\ r \in LinkRecord
        BY <1>2
    <2>2. x # p /\ x # n => u = r.next /\ v = r.perv
        OBVIOUS
    <2>3. lk2[x] = Bridged(r, u, v)
        BY <1>3, <1>5
    <2> HIDE DEF u, v, r
    <2>4. /\ Bridged(r, u, v).exists = r.exists /\ Bridged(r, u, v).data = r.data
          /\ Bridged(r, u, v).next = u /\ Bridged(r, u, v).perv = v
          /\ Bridged(r, u, v) \in LinkRecord
          /\ u = r.next /\ v = r.perv => Bridged(r, u, v) = r
        BY <2>1, BridgedLink
    <2> QED BY <2>2, <2>3, <2>4 DEF u, v, r
<1>6. lk2[m] = FreeLink
    BY <1>3
<1>7. Cut(link, lk2, m, p, n)
    BY <1>5, <1>6 DEF Cut
<1>8. lk2 \in [Slots -> LinkRecord]
    <2>1. \A x \in Slots : lk2[x] \in LinkRecord
        BY <1>4, <1>5, <1>6
    <2> QED BY <1>3, <2>1
<1> QED BY <1>7, <1>8 DEF lk2

\* The first link of a key is taken out: the oldest object of the key is gone.
LEMMA UnlinkStep ==
    ASSUME IInv, NEW b \in Slots, NEW i \in 1 .. Len(Chains[b]), NEW m, m = Chains[b][i],
           NEW k, k = KeyOf(m), NoneBefore(Chains[b], i, k, link, cell),
           Unlink(m, b), popCurr' \in Slots, answer' \in Objects \cup {Nil, TRUE, FALSE}
    PROVE  /\ IInv' /\ OldestOf(Stored, k, b, cell[link[m].data].value)
           /\ Loses(Stored, Stored', k)
<1> DEFINE ch == Chains
           ch2 == Shorter(ch, b, i)
<1>1. /\ Shape(ch, table, link) /\ Filled(ch, link, cell)
      /\ cellUsed = Cardinality(On(ch)) /\ linkUsed = Cardinality(On(ch))
      /\ cell \in [Slots -> CellRecord] /\ table \in [Slots -> Slots \cup {Nil}]
    BY DEF IInv, TypeOK, CellRecord
<1>2. m = ch[b][i] /\ i \in 1 .. Len(ch[b])
    OBVIOUS
<1>3. ch2 = Shorter(ch, b, i)
    OBVIOUS
<1>4. k = cell[link[m].data].key /\ NoneBefore(ch[b], i, k, link, cell)
    BY DEF KeyOf
<1> HIDE DEF ch, ch2
<1>5. m \in On(ch) /\ m \in Slots /\ link[m].data \in Slots
    <2>1. m \in On(ch)
        BY <1>1, <1>2, Places
    <2> QED BY <1>1, <2>1 DEF On, Filled
<1>6. /\ link' = Unlinked(m) /\ cell' = Freed(cell, link[m].data)
      /\ table' = HeadCut(table, b, link[m].perv, link[m].next)
      /\ cellUsed' = cellUsed - 1 /\ linkUsed' = linkUsed - 1
      /\ cellCurr' = cellCurr /\ linkCurr' = linkCurr
    BY DEF Unlink, Freed, HeadCut
<1>7. Cut(link, link', m, link[m].perv, link[m].next) /\ link' \in [Slots -> LinkRecord]
    BY <1>5, <1>6, UnlinkedIsCut
<1>8. Shape(ch2, table', link') /\ Shrinks(ch, ch2, m)
    BY <1>1, <1>2, <1>3, <1>6, <1>7, CutShape
<1>9. /\ Filled(ch2, link', cell')
      /\ SameOn(ch2, link, cell, link', cell')
    BY <1>1, <1>2, <1>3, <1>6, <1>7, <1>8, CutFilled
<1>10. /\ OldestOf(Held(ch, link, cell), k, b, cell[link[m].data].value)
       /\ Loses(Held(ch, link, cell), Held(ch2, link', cell'), k)
    BY <1>1, <1>2, <1>3, <1>4, <1>8, <1>9, CutHeld
<1>11. Cardinality(On(ch2)) = Cardinality(On(ch)) - 1 /\ Cardinality(On(ch)) \in 1 .. Count
    BY <1>5, <1>8, FewerChains
<1>12. TypeOK'
    <2>1. cell' \in [Slots -> CellRecord]
        <3>1. FreeCell \in CellRecord
            BY DEF FreeCell, CellRecord
        <3> QED BY <1>1, <1>5, <1>6, <3>1 DEF Freed
    <2>2. table' \in [Slots -> Slots \cup {Nil}]
        <3>1. link[m].next \in Slots \cup {Nil}
            BY <1>5 DEF IInv, TypeOK
        <3> QED BY <1>1, <1>6, <3>1 DEF HeadCut
    <2>3. cellUsed' \in 0 .. Count /\ linkUsed' \in 0 .. Count
        BY <1>1, <1>6, <1>11, CountAssumption
    <2>4. cellCurr' \in Slots /\ linkCurr' \in Slots
        BY <1>6 DEF IInv, TypeOK
    <2> QED BY <1>7, <2>1, <2>2, <2>3, <2>4 DEF TypeOK, CellRecord, LinkRecord
<1>13. cellUsed' = Cardinality(On(ch2)) /\ linkUsed' = Cardinality(On(ch2))
    BY <1>1, <1>6, <1>11
<1>14. IInv' /\ Stored' = Held(ch2, link', cell')
    BY <1>8, <1>9, <1>12, <1>13, AfterStep
<1> QED BY <1>10, <1>14 DEF Stored, ch

\* The links that carry a key, oldest first, and what they hold.
LEMMA MatchesAre ==
    ASSUME IInv, NEW k \in Keys
    PROVE  /\ Bucket[k] \in Slots /\ Chains[Bucket[k]] \in Seq(Slots)
           /\ Matches(k) = Picked(Chains[Bucket[k]], With(k, link, cell))
           /\ Matches(k) \in Seq(Slots)
           /\ Stored[k] = Mapped(Matches(k), ValueOf(link, cell))
           /\ Matches(k) # << >> <=> Stored[k] # << >>
<1>1. Bucket[k] \in Slots /\ Chains[Bucket[k]] = Chain(Bucket[k])
    BY BucketAssumption DEF Chains
<1>2. Chains[Bucket[k]] \in Seq(Slots)
    BY <1>1 DEF IInv, Shape
<1>3. Matches(k) = Picked(Chains[Bucket[k]], With(k, link, cell))
    BY <1>1 DEF Matches, With, KeyOf
<1>4. Stored[k] = Mapped(Matches(k), ValueOf(link, cell))
    BY <1>3 DEF Stored, Held
<1>5. Matches(k) \in Seq(Slots)
    BY <1>2, <1>3, PickedType
<1>6. Matches(k) # << >> <=> Stored[k] # << >>
    <2> DEFINE q == Matches(k)
               v == ValueOf(link, cell)
    <2>1. q \in Seq(Slots) /\ Stored[k] = Mapped(q, v)
        BY <1>4, <1>5
    <2> HIDE DEF q, v
    <2>2. Len(Mapped(q, v)) = Len(q) /\ Mapped(q, v) \in Seq({v[x] : x \in Slots})
        BY <2>1, MappedType
    <2> HIDE DEF Mapped
    <2> QED BY <2>1, <2>2 DEF q
<1> QED BY <1>1, <1>2, <1>3, <1>4, <1>5, <1>6

LEMMA FirstMatch ==
    ASSUME IInv, NEW k \in Keys, Matches(k) # << >>
    PROVE  \E i \in 1 .. Len(Chains[Bucket[k]]) :
               /\ Matches(k)[1] = Chains[Bucket[k]][i]
               /\ KeyOf(Chains[Bucket[k]][i]) = k
               /\ NoneBefore(Chains[Bucket[k]], i, k, link, cell)
<1> DEFINE s == Chains[Bucket[k]]
           A == With(k, link, cell)
<1>1. s \in Seq(Slots) /\ Matches(k) = Picked(s, A) /\ Picked(s, A) # << >>
    BY MatchesAre
<1>2. s = Chains[Bucket[k]] /\ \A l \in A : KeyOf(l) = k
    BY DEF With, KeyOf
<1> HIDE DEF s, A
<1>3. PICK i \in 1 .. Len(s) : /\ s[i] \in A /\ \A j \in 1 .. i - 1 : s[j] \notin A
                               /\ s[i] = Picked(s, A)[1]
    BY <1>1, PickedHead
<1> QED BY <1>1, <1>2, <1>3 DEF A, NoneBefore

LEMMA NewestMatch ==
    ASSUME IInv, NEW k \in Keys, Matches(k) # << >>
    PROVE  /\ cell[link[Matches(k)[Len(Matches(k))]].data].value = Stored[k][Len(Stored[k])]
           /\ Stored[k][Len(Stored[k])] \in Objects \cup {Nil}
<1> DEFINE q == Matches(k)
           v == ValueOf(link, cell)
           l == q[Len(q)]
<1>1. /\ q \in Seq(Slots) /\ q # << >> /\ q = Picked(Chains[Bucket[k]], With(k, link, cell))
      /\ Chains[Bucket[k]] \in Seq(Slots) /\ Stored[k] = Mapped(q, v)
    BY MatchesAre
<1>2. Len(q) \in 1 .. Len(q) /\ l \in Slots
    <2> HIDE DEF q
    <2> QED BY <1>1
<1>3. l \in With(k, link, cell)
    <2>1. Occurs(l, q)
        BY <1>2 DEF Occurs
    <2> QED BY <1>1, <2>1, PickedElements
<1>4. link[l].data \in Slots
    BY <1>2, <1>3 DEF IInv, TypeOK, With
<1>5. cell[link[l].data].value \in Objects \cup {Nil}
    BY <1>4 DEF IInv, TypeOK
<1>6. v[l] = cell[link[l].data].value
    BY <1>2 DEF ValueOf
<1>7. Stored[k][Len(Stored[k])] = v[l]
    <2> HIDE DEF q, v
    <2>1. Len(Mapped(q, v)) = Len(q) /\ \A i \in 1 .. Len(q) : Mapped(q, v)[i] = v[q[i]]
        BY <1>1, MappedType
    <2> QED BY <1>1, <1>2, <2>1
<1> QED BY <1>5, <1>6, <1>7

-----------------------------------------------------------------------------
(* The public operations. *)

\* What one public operation makes of the stored objects.
GetStep(k) ==
    answer' = (IF Stored[k] = << >> THEN Nil ELSE Stored[k][Len(Stored[k])]) /\ Stored' = Stored

LEMMA AddKeeps ==
    ASSUME IInv, NEW k \in Keys, NEW o \in Objects, Add(k, o)
    PROVE  /\ IInv'
           /\ LET accepted == k \notin LongKeys /\ Stored[k] = << >> /\ linkUsed # Count
              IN  /\ answer' = accepted
                  /\ IF accepted THEN Gains(Stored, Stored', k, o) ELSE Stored' = Stored
<1>1. popCurr' = popCurr /\ popCurr \in Slots
    BY DEF Add, IInv, TypeOK
<1>2. Matches(k) # << >> <=> Stored[k] # << >>
    BY MatchesAre
<1>3. CASE k \in LongKeys \/ Matches(k) # << >>
    <2>1. answer' = FALSE /\ UNCHANGED <<cells, links, table>>
        BY <1>3 DEF Add
    <2>2. IInv' /\ Stored' = Stored
        BY <1>1, <2>1, NoChange
    <2> QED BY <1>2, <1>3, <2>1, <2>2
<1>4. CASE ~ (k \in LongKeys \/ Matches(k) # << >>)
    <2>1. AppendLink(k, o)
        BY <1>4 DEF Add
    <2>2. /\ IInv' /\ answer' = (linkUsed # Count)
          /\ IF linkUsed = Count THEN Stored' = Stored ELSE Gains(Stored, Stored', k, o)
        BY <1>1, <2>1, AppendLinkStep
    <2> QED BY <1>2, <1>4, <2>2
<1> QED BY <1>3, <1>4

LEMMA PushKeeps ==
    ASSUME IInv, NEW k \in Keys, NEW o \in Objects, Push(k, o)
    PROVE  /\ IInv' /\ k \notin LongKeys /\ answer' = (linkUsed # Count)
           /\ IF linkUsed = Count THEN Stored' = Stored ELSE Gains(Stored, Stored', k, o)
<1>1. popCurr' = popCurr /\ AppendLink(k, o) /\ k \notin LongKeys
    BY DEF Push
<1> QED BY <1>1, AppendLinkStep

LEMMA GetKeeps ==
    ASSUME IInv, NEW k \in Keys, Get(k)
    PROVE  IInv' /\ GetStep(k)
<1>1. popCurr' \in Slots /\ UNCHANGED <<cells, links, table>>
    BY DEF Get, IInv, TypeOK
<1>2. answer' = IF Stored[k] = << >> THEN Nil ELSE Stored[k][Len(Stored[k])]
    <2>1. CASE Matches(k) = << >>
        <3>1. Stored[k] = << >>
            BY <2>1, MatchesAre
        <3> QED BY <2>1, <3>1 DEF Get
    <2>2. CASE Matches(k) # << >>
        <3>1. Stored[k] # << >>
            BY <2>2, MatchesAre
        <3>2. cell[link[Matches(k)[Len(Matches(k))]].data].value = Stored[k][Len(Stored[k])]
            BY <2>2, NewestMatch
        <3> QED BY <2>2, <3>1, <3>2 DEF Get
    <2> QED BY <2>1, <2>2
<1>3. answer' \in Objects \cup {Nil}
    <2>1. CASE Stored[k] = << >>
        BY <1>2, <2>1
    <2>2. CASE Stored[k] # << >>
        <3>1. Stored[k][Len(Stored[k])] \in Objects \cup {Nil}
            BY <2>2, MatchesAre, NewestMatch
        <3> QED BY <1>2, <2>2, <3>1
    <2> QED BY <2>1, <2>2
<1>4. IInv' /\ Stored' = Stored
    BY <1>1, <1>3, NoChange
<1> QED BY <1>2, <1>4 DEF GetStep

LEMMA DelKeeps ==
    ASSUME IInv, NEW k \in Keys, Del(k)
    PROVE  /\ IInv' /\ answer' \in BOOLEAN
           /\ \/ Stored[k] # << >> /\ answer' = TRUE /\ Loses(Stored, Stored', k)
              \/ Stored[k] = << >> /\ Stored' = Stored
<1> DEFINE b == Bucket[k]
<1>1. popCurr' \in Slots /\ answer' = (table[b] # Nil) /\ answer' \in BOOLEAN
    BY DEF Del, IInv, TypeOK
<1>2. CASE Matches(k) = << >>
    <2>1. UNCHANGED <<cells, links, table>>
        BY <1>2 DEF Del
    <2>2. IInv' /\ Stored' = Stored
        BY <1>1, <2>1, NoChange
    <2>3. Stored[k] = << >>
        BY <1>2, MatchesAre
    <2> QED BY <1>1, <2>2, <2>3
<1>3. CASE Matches(k) # << >>
    <2>1. PICK i \in 1 .. Len(Chains[b]) : /\ Matches(k)[1] = Chains[b][i]
                                           /\ KeyOf(Chains[b][i]) = k
                                           /\ NoneBefore(Chains[b], i, k, link, cell)
        BY <1>3, FirstMatch
    <2>2. b \in Slots /\ Unlink(Chains[b][i], b)
        BY <1>3, <2>1, MatchesAre DEF Del
    <2>3. IInv' /\ Loses(Stored, Stored', k)
        BY <1>1, <2>1, <2>2, UnlinkStep
    <2>4. Stored[k] # << >>
        BY <1>3, MatchesAre
    <2>5. table[b] # Nil
        <3>1. Path(Chains[b], table[b], link) /\ Chains[b] \in Seq(Slots)
            BY <2>2 DEF IInv, Shape
        <3>2. Chains[b] # << >> /\ Chains[b][1] \in Slots
            BY <2>1, <3>1
        <3> QED BY <3>1, <3>2, SlotFacts DEF Path
    <2> QED BY <1>1, <2>3, <2>4, <2>5
<1> QED BY <1>2, <1>3

\* The head of a chain is the first link that carries its key.
LEMMA HeadMatch ==
    ASSUME IInv, NEW b \in Slots, table[b] # Nil
    PROVE  /\ 1 \in 1 .. Len(Chains[b]) /\ table[b] = Chains[b][1]
           /\ KeyOf(table[b]) \in Keys /\ Bucket[KeyOf(table[b])] = b
           /\ Matches(KeyOf(table[b])) # << >> /\ Matches(KeyOf(table[b]))[1] = table[b]
           /\ NoneBefore(Chains[b], 1, KeyOf(table[b]), link, cell)
           /\ cell[link[table[b]].data].value \in Objects
<1> DEFINE s == Chains[b]
           l == table[b]
           k == KeyOf(l)
           A == With(k, link, cell)
<1>1. Path(s, table[b], link) /\ s \in Seq(Slots)
    BY DEF IInv, Shape
<1>2. s # << >> /\ l = s[1] /\ 1 \in 1 .. Len(s)
    <2>1. s # << >> /\ l = s[1]
        BY <1>1 DEF Path
    <2> QED BY <1>1, <2>1
<1>3. l \in On(Chains) /\ l \in Slots
    BY <1>1, <1>2 DEF On, Occurs
<1>4. link[l].data \in Slots /\ cell[link[l].data] \in UsedCell
    BY <1>3 DEF IInv, Filled
<1>5. k \in Keys /\ cell[link[l].data].value \in Objects /\ k = cell[link[l].data].key
    BY <1>4 DEF UsedCell, KeyOf
<1>6. Bucket[k] = b
    <2>1. Bucket[cell[link[Chains[b][1]].data].key] = b
        BY <1>2 DEF IInv, Filled
    <2> QED BY <1>2, <1>5, <2>1
<1>7. l \in A
    BY <1>3, <1>4, <1>5, SlotFacts DEF With
<1>8. Matches(k) = Picked(s, A)
    BY <1>5, <1>6, MatchesAre
<1>9. NoneBefore(s, 1, k, link, cell)
    BY DEF NoneBefore
<1>10. Picked(s, A) # << >> /\ Picked(s, A)[1] = l
    <2> HIDE DEF s, A, l
    <2>1. s[1] \in A /\ \A j \in 1 .. 1 - 1 : s[j] \notin A
        BY <1>2, <1>7
    <2>2. Picked(s, A) # << >> /\ Picked(s, A)[1] = s[1]
        BY <1>1, <1>2, <2>1, PickedFirst
    <2> QED BY <1>2, <2>2
<1> QED BY <1>2, <1>5, <1>6, <1>8, <1>9, <1>10

LEMMA PopKeeps ==
    ASSUME IInv, Pop
    PROVE  /\ IInv'
           /\ \/ \E k \in Keys : /\ Stored[k] # << >> /\ answer' = Head(Stored[k])
                                 /\ Loses(Stored, Stored', k)
              \/ answer' = Nil /\ Stored' = Stored /\ \A b \in Slots : table[b] = Nil
<1> DEFINE busy == {b \in Slots : table[b] # Nil}
           b == RoundRobin(busy, popCurr)
           k == KeyOf(table[b])
<1>1. CASE busy = {}
    <2>1. /\ answer' = Nil /\ UNCHANGED <<cells, links, table>> /\ popCurr' = popCurr
          /\ popCurr \in Slots
        BY <1>1 DEF Pop, IInv, TypeOK
    <2>2. IInv' /\ Stored' = Stored
        BY <2>1, NoChange
    <2> QED BY <1>1, <2>1, <2>2
<1>2. CASE busy # {}
    <2>1. b \in busy
        <3>1. busy \in SUBSET Slots
            OBVIOUS
        <3> HIDE DEF busy
        <3> QED BY <1>2, <3>1, RoundRobinIn
    <2>2. /\ answer' = cell[link[table[b]].data].value /\ popCurr' = b
          /\ Unlink(Matches(k)[1], b)
        BY <1>2 DEF Pop
    <2>3. b \in Slots /\ table[b] # Nil
        BY <2>1
    <2> HIDE DEF busy, b
    <2>4. /\ 1 \in 1 .. Len(Chains[b]) /\ table[b] = Chains[b][1]
          /\ k \in Keys /\ Bucket[k] = b
          /\ Matches(k) # << >> /\ Matches(k)[1] = table[b]
          /\ NoneBefore(Chains[b], 1, k, link, cell)
          /\ cell[link[table[b]].data].value \in Objects
        BY <2>3, HeadMatch
    <2>5. k = KeyOf(table[b])
        OBVIOUS
    <2> HIDE DEF k
    <2>6. /\ IInv' /\ OldestOf(Stored, k, b, cell[link[table[b]].data].value)
          /\ Loses(Stored, Stored', k)
        BY <2>2, <2>3, <2>4, <2>5, UnlinkStep
    <2> QED BY <2>2, <2>4, <2>6 DEF OldestOf
<1> QED BY <1>1, <1>2

LEMMA ClearKeeps ==
    ASSUME IInv, Clear
    PROVE  IInv' /\ answer' = answer /\ Stored' = [k \in Keys |-> << >>]
<1>1. /\ Shape(Chains, table, link) /\ Filled(Chains, link, cell) /\ TypeOK
      /\ \A b \in Slots : Chains[b] = Chain(b) /\ Chains[b] \in Seq(Slots)
    BY DEF IInv, Shape, Chains
<1>2. \A l \in Slots : (\E b \in Slots : \E i \in DOMAIN Chain(b) : Chain(b)[i] = l) <=> l \in On(Chains)
    BY <1>1 DEF On, Occurs
<1>3. \A l \in Slots : link'[l] = FreeLink
    <2>1. \A l \in Slots : link'[l] = IF l \in On(Chains) THEN FreeLink ELSE link[l]
        BY <1>2 DEF Clear
    <2> QED BY <1>1, <2>1 DEF Shape
<1>4. \A c \in Slots : cell'[c] = FreeCell
    <2>1. \A c \in Slots : cell'[c] = IF \E l \in Slots : link[l].data = c /\ link'[l] = FreeLink
                                      THEN FreeCell ELSE cell[c]
        BY DEF Clear
    <2>2. \A l \in On(Chains) : l \in Slots
        BY DEF On
    <2> QED BY <1>1, <1>3, <2>1, <2>2 DEF Filled
<1>5. /\ link' = [l \in Slots |-> link'[l]] /\ cell' = [c \in Slots |-> cell'[c]]
      /\ table' = [b \in Slots |-> Nil]
    BY DEF Clear
<1>6. /\ Shape(NoChains, table', link') /\ Filled(NoChains, link', cell')
      /\ On(NoChains) = {} /\ Cardinality({}) = 0
      /\ Held(NoChains, link', cell') = [k \in Keys |-> << >>]
    BY <1>3, <1>4, <1>5, EmptyTable
<1>7. cellUsed' = 0 /\ linkUsed' = 0
    <2>1. /\ {c \in Slots : cell'[c].exists} = {} /\ {l \in Slots : link'[l].exists} = {}
        BY <1>3, <1>4 DEF FreeLink, FreeCell
    <2> QED BY <1>6, <2>1 DEF Clear
<1>8. TypeOK'
    <2>1. link' \in [Slots -> LinkRecord] /\ cell' \in [Slots -> CellRecord]
        <3>1. FreeLink \in LinkRecord /\ FreeCell \in CellRecord
            BY DEF FreeLink, FreeCell, LinkRecord, CellRecord
        <3> QED BY <1>3, <1>4, <1>5, <3>1
    <2>2. table' \in [Slots -> Slots \cup {Nil}]
        BY <1>5
    <2>3. cellCurr' = cellCurr /\ linkCurr' = linkCurr /\ popCurr' = popCurr /\ answer' = answer
        BY DEF Clear
    <2>4. 0 \in 0 .. Count
        BY CountAssumption
    <2> QED BY <1>1, <1>7, <2>1, <2>2, <2>3, <2>4 DEF TypeOK, LinkRecord, CellRecord
<1>9. IInv' /\ Stored' = Held(NoChains, link', cell')
    BY <1>6, <1>7, <1>8, AfterStep
<1> QED BY <1>6, <1>9 DEF Clear

-----------------------------------------------------------------------------
(* The invariant. *)

LEMMA InitIInv == Init => IInv /\ Stored = [k \in Keys |-> << >>]
<1> SUFFICES ASSUME Init PROVE IInv /\ Stored = [k \in Keys |-> << >>]
    OBVIOUS
<1>1. /\ Shape(NoChains, table, link) /\ Filled(NoChains, link, cell)
      /\ On(NoChains) = {} /\ Cardinality({}) = 0
      /\ Held(NoChains, link, cell) = [k \in Keys |-> << >>]
    <2>1. /\ table = [b \in Slots |-> Nil] /\ \A l \in Slots : link[l] = FreeLink
          /\ \A c \in Slots : cell[c] = FreeCell
        BY DEF Init
    <2> QED BY <2>1, EmptyTable
<1>2. Chains = NoChains
    BY <1>1, ChainsAre
<1>3. TypeOK
    <2>1. FreeLink \in LinkRecord /\ FreeCell \in CellRecord
        BY DEF FreeLink, FreeCell, LinkRecord, CellRecord
    <2>2. 0 \in Slots /\ 0 \in 0 .. Count
        BY CountAssumption DEF Slots
    <2> QED BY <2>1, <2>2 DEF Init, TypeOK, LinkRecord, CellRecord
<1>4. cellUsed = 0 /\ linkUsed = 0
    BY DEF Init
<1> QED BY <1>1, <1>2, <1>3, <1>4 DEF IInv, Stored

LEMMA NextIInv == IInv /\ [Next]_vars => IInv'
<1> SUFFICES ASSUME IInv, [Next]_vars PROVE IInv'
    OBVIOUS
<1>1. CASE Next
    <2>1. ASSUME NEW k \in Keys, NEW o \in Objects, Add(k, o) PROVE IInv'
        BY <2>1, AddKeeps
    <2>2. ASSUME NEW k \in Keys, NEW o \in Objects, Push(k, o) PROVE IInv'
        BY <2>2, PushKeeps
    <2>3. ASSUME NEW k \in Keys, Get(k) PROVE IInv'
        BY <2>3, GetKeeps
    <2>4. ASSUME NEW k \in Keys, Del(k) PROVE IInv'
        BY <2>4, DelKeeps
    <2>5. CASE Pop
        BY <2>5, PopKeeps
    <2>6. CASE Clear
        BY <2>6, ClearKeeps
    <2> QED BY <1>1, <2>1, <2>2, <2>3, <2>4, <2>5, <2>6 DEF Next
<1>2. CASE UNCHANGED vars
    <2>1. UNCHANGED <<cells, links, table>> /\ popCurr' = popCurr /\ answer' = answer
        BY <1>2 DEF vars
    <2>2. popCurr' \in Slots /\ answer' \in Objects \cup {Nil, TRUE, FALSE}
        BY <2>1 DEF IInv, TypeOK
    <2> QED BY <2>1, <2>2, NoChange
<1> QED BY <1>1, <1>2

LEMMA AlwaysIInv == Spec => []IInv
<1>1. Init => IInv
    BY InitIInv
<1> QED BY <1>1, NextIInv, PTL DEF Spec

\* Whatever the callers ask for, the fields of the cells, of the links and of
\* the table hold what they are declared for, and the counters and the cursors
\* of both pools stay inside the block.
THEOREM TypeCorrect == Spec => []TypeOK
<1>1. IInv => TypeOK
    BY DEF IInv
<1> QED BY <1>1, AlwaysIInv, PTL

-----------------------------------------------------------------------------
(* What the invariant says of the structure. *)

LEMMA LinkedAre ==
    ASSUME IInv
    PROVE  Linked = On(Chains)
<1>1. \A b \in Slots : Chain(b) = Chains[b] /\ Chains[b] \in Seq(Slots)
    BY DEF IInv, Shape, Chains
<1>2. \A b \in Slots : DOMAIN Chain(b) = 1 .. Len(Chains[b])
    BY <1>1
<1>3. \A x : x \in Linked <=> \E b \in Slots : \E i \in 1 .. Len(Chains[b]) : Chains[b][i] = x
    BY <1>1, <1>2 DEF Linked
<1>4. \A x : x \in On(Chains) <=> \E b \in Slots : \E i \in 1 .. Len(Chains[b]) : Chains[b][i] = x
    BY <1>1 DEF On, Occurs
<1> QED BY <1>3, <1>4

\* A link at its place.
LEMMA LinkSound ==
    ASSUME IInv, NEW b \in Slots, NEW i \in 1 .. Len(Chains[b]), NEW l, l = Chains[b][i]
    PROVE  /\ link[l].next # Nil => link[link[l].next].perv = l
           /\ link[l].perv # Nil => link[link[l].perv].next = l
           /\ link[l].perv = Nil <=> table[b] = l
           /\ Bucket[KeyOf(l)] = b
<1> DEFINE s == Chains[b]
<1>1. Path(s, table[b], link) /\ s \in Seq(Slots) /\ Len(s) \in Nat /\ i \in 1 .. Len(s) /\ l = s[i]
    BY DEF IInv, Shape
<1>2. \A j \in 1 .. Len(s) : s[j] \in Slots /\ s[j] # Nil
    BY <1>1, SlotFacts
<1>3. \A j, h \in 1 .. Len(s) : s[j] = s[h] => j = h
    BY DEF IInv, Shape
<1>4. Bucket[KeyOf(l)] = b
    BY <1>1 DEF IInv, Filled, KeyOf
<1> HIDE DEF s
<1>5. \A j \in 1 .. Len(s) : /\ link[s[j]].next = IF j = Len(s) THEN Nil ELSE s[j + 1]
                             /\ link[s[j]].perv = IF j = 1 THEN Nil ELSE s[j - 1]
    BY <1>1 DEF Path
<1>6. ASSUME link[l].next # Nil PROVE link[link[l].next].perv = l
    <2>1. i + 1 \in 1 .. Len(s) /\ i + 1 # 1 /\ (i + 1) - 1 = i
        BY <1>1, <1>5, <1>6
    <2>2. link[l].next = s[i + 1]
        BY <1>1, <1>5, <1>6
    <2> QED BY <1>1, <1>5, <2>1, <2>2
<1>7. ASSUME link[l].perv # Nil PROVE link[link[l].perv].next = l
    <2>1. i - 1 \in 1 .. Len(s) /\ i - 1 # Len(s) /\ (i - 1) + 1 = i
        BY <1>1, <1>5, <1>7
    <2>2. link[l].perv = s[i - 1]
        BY <1>1, <1>5, <1>7
    <2> QED BY <1>1, <1>5, <2>1, <2>2
<1>8. link[l].perv = Nil <=> table[b] = l
    <2>1. 1 \in 1 .. Len(s) /\ table[b] = s[1]
        <3>1. s # << >> /\ 1 \in 1 .. Len(s)
            BY <1>1
        <3> QED BY <1>1, <3>1 DEF Path
    <2>2. table[b] = l <=> i = 1
        BY <1>1, <1>3, <2>1
    <2>3. link[l].perv = Nil <=> i = 1
        <3>1. i # 1 => i - 1 \in 1 .. Len(s)
            BY <1>1
        <3> QED BY <1>1, <1>2, <1>5, <3>1
    <2> QED BY <2>2, <2>3
<1> QED BY <1>4, <1>6, <1>7, <1>8

LEMMA SoundNow == IInv => ChainsSound
<1> SUFFICES ASSUME IInv PROVE ChainsSound
    OBVIOUS
<1>1. Linked = On(Chains)
    BY LinkedAre
<1>2. Shape(Chains, table, link) /\ Filled(Chains, link, cell)
    BY DEF IInv
<1>3. ASSUME NEW l \in Slots PROVE link[l].exists <=> l \in Linked
    <2>1. l \in On(Chains) => link[l].exists = TRUE
        BY <1>2 DEF Filled
    <2>2. l \notin On(Chains) => link[l].exists = FALSE
        BY <1>2 DEF Shape, FreeLink
    <2> QED BY <1>1, <2>1, <2>2
<1>4. ASSUME NEW l \in Linked
      PROVE  /\ link[l].next # Nil => link[link[l].next].perv = l
             /\ link[l].perv # Nil => link[link[l].perv].next = l
             /\ link[l].perv = Nil <=> table[Bucket[KeyOf(l)]] = l
             /\ \E i \in DOMAIN Chain(Bucket[KeyOf(l)]) : Chain(Bucket[KeyOf(l)])[i] = l
    <2>1. PICK b \in Slots : \E i \in 1 .. Len(Chains[b]) : Chains[b][i] = l
        BY <1>1, <1>2, Places
    <2>2. PICK i \in 1 .. Len(Chains[b]) : Chains[b][i] = l
        BY <2>1
    <2>3. /\ link[l].next # Nil => link[link[l].next].perv = l
          /\ link[l].perv # Nil => link[link[l].perv].next = l
          /\ link[l].perv = Nil <=> table[b] = l
          /\ Bucket[KeyOf(l)] = b
        BY <2>2, LinkSound
    <2>4. \E j \in DOMAIN Chain(b) : Chain(b)[j] = l
        <3>1. Chain(b) = Chains[b] /\ Chains[b] \in Seq(Slots)
            BY <1>2 DEF Shape, Chains
        <3> QED BY <2>2, <3>1
    <2> QED BY <2>3, <2>4
<1>5. ASSUME NEW c \in Slots
      PROVE  cell[c].exists <=> Cardinality({l \in Linked : link[l].data = c}) = 1
    <2> DEFINE S == {l \in Linked : link[l].data = c}
    <2>1. cell[c].exists <=> \E l \in On(Chains) : link[l].data = c
        <3>1. \A l \in On(Chains) : link[l].data = c => cell[c].exists = TRUE
            BY <1>2 DEF Filled, UsedCell
        <3>2. cell[c] = FreeCell => cell[c].exists = FALSE
            BY DEF FreeCell
        <3>3. cell[c] = FreeCell \/ \E l \in On(Chains) : link[l].data = c
            BY <1>2 DEF Filled
        <3> QED BY <3>1, <3>2, <3>3
    <2>2. CASE \E l \in On(Chains) : link[l].data = c
        <3>1. PICK l \in On(Chains) : link[l].data = c
            BY <2>2
        <3>2. S = {l}
            BY <1>1, <1>2, <3>1 DEF Filled
        <3>3. Cardinality(S) = 1
            BY <3>2, FS_Singleton
        <3> QED BY <2>1, <2>2, <3>3
    <2>3. CASE ~ \E l \in On(Chains) : link[l].data = c
        <3>1. S = {}
            BY <1>1, <2>3
        <3>2. Cardinality(S) = 0
            BY <3>1, FS_EmptySet
        <3> QED BY <2>1, <2>3, <3>2
    <2> QED BY <2>2, <2>3
<1>6. cellUsed = Cardinality({c \in Slots : cell[c].exists}) /\ linkUsed = Cardinality(Linked)
    <2>1. Cardinality({c \in Slots : cell[c].exists}) = Cardinality(On(Chains))
        BY <1>2, CellsUsed
    <2> QED BY <1>1, <2>1 DEF IInv
<1> QED BY <1>3, <1>4, <1>5, <1>6 DEF ChainsSound

\* No order of insertions, deletions, pops and clearings breaks the chains,
\* leaves a link in a chain that is not its key's, or loses a cell or a link
\* of the fixed block, whatever the capacity and the hash function.
THEOREM ChainsStaySound == Spec => []ChainsSound
BY AlwaysIInv, SoundNow, PTL

-----------------------------------------------------------------------------
(* The table is a bounded keyed collection. *)

LEMMA ObjectsAre ==
    ASSUME NEW s \in Seq(Slots), NEW lk, NEW ce
    PROVE  [i \in DOMAIN s |-> ce[lk[s[i]].data].value] = Mapped(s, ValueOf(lk, ce))
<1>1. DOMAIN s = 1 .. Len(s) /\ \A i \in 1 .. Len(s) : s[i] \in Slots
    OBVIOUS
<1>2. \A i \in 1 .. Len(s) : ce[lk[s[i]].data].value = ValueOf(lk, ce)[s[i]]
    BY <1>1 DEF ValueOf
<1> QED BY <1>1, <1>2 DEF Mapped

\* The refinement mapping, before and after a step.
LEMMA MappingIs ==
    /\ IInv => [k \in Keys |-> ObjectsOf(k)] = Stored
    /\ IInv' => [k \in Keys |-> ObjectsOf(k)]' = Stored'
<1>1. ASSUME IInv PROVE [k \in Keys |-> ObjectsOf(k)] = Stored
    <2>1. ASSUME NEW k \in Keys PROVE ObjectsOf(k) = Stored[k]
        <3> DEFINE s == Matches(k)
        <3>1. s \in Seq(Slots) /\ Stored[k] = Mapped(s, ValueOf(link, cell))
            BY <1>1, MatchesAre
        <3> HIDE DEF s
        <3>2. [i \in DOMAIN s |-> cell[link[s[i]].data].value] = Mapped(s, ValueOf(link, cell))
            BY <3>1, ObjectsAre
        <3> QED BY <3>1, <3>2 DEF ObjectsOf, s
    <2>2. Stored = [k \in Keys |-> Stored[k]]
        BY DEF Stored, Held
    <2> QED BY <2>1, <2>2
<1>2. ASSUME IInv' PROVE [k \in Keys |-> ObjectsOf(k)]' = Stored'
    <2>1. ASSUME NEW k \in Keys PROVE ObjectsOf(k)' = Stored'[k]
        <3> DEFINE s == Matches(k)'
                   t == Chain(Bucket[k])'
        <3>1. Bucket[k] \in Slots /\ t = Chains'[Bucket[k]]
            BY BucketAssumption DEF Chains
        <3>2. t \in Seq(Slots)
            BY <1>2, <3>1 DEF IInv, Shape
        <3>3. s = Picked(t, With(k, link', cell'))
            BY DEF Matches, With, KeyOf
        <3>4. Stored'[k] = Mapped(s, ValueOf(link', cell'))
            BY <3>1, <3>3 DEF Stored, Held
        <3>5. ObjectsOf(k)' = [i \in DOMAIN s |-> cell'[link'[s[i]].data].value]
            BY DEF ObjectsOf
        <3>6. s \in Seq(Slots)
            <4> HIDE DEF t
            <4> QED BY <3>2, <3>3, PickedType
        <3> HIDE DEF s
        <3>7. [i \in DOMAIN s |-> cell'[link'[s[i]].data].value] = Mapped(s, ValueOf(link', cell'))
            BY <3>6, ObjectsAre
        <3> QED BY <3>4, <3>5, <3>7
    <2>2. Stored' = [k \in Keys |-> Stored'[k]]
        BY DEF Stored, Held
    <2> QED BY <2>1, <2>2
<1> QED BY <1>1, <1>2

\* The places of the stored objects, counted by the abstract collection.
PlacesOf(held) == UNION {{k} \X DOMAIN held[k] : k \in Keys}

\* The collection counts its places as the table counts its slots.
LEMMA SameCardinality == ASSUME NEW S PROVE Abstract!Cardinality(S) = Cardinality(S)
BY DEF Abstract!Cardinality, Cardinality

LEMMA AbstractFull ==
    ASSUME IInv
    PROVE  /\ Abstract!Places = PlacesOf(Stored)
           /\ Abstract!Full <=> Cardinality(PlacesOf(Stored)) = Count
<1>1. [k \in Keys |-> ObjectsOf(k)] = Stored
    BY MappingIs
<1>2. Abstract!Places = PlacesOf(Stored)
    <2> DEFINE E == [k \in Keys |-> ObjectsOf(k)]
    <2>1. Abstract!Places = PlacesOf(E)
        BY DEF Abstract!Places, PlacesOf
    <2>2. E = Stored
        BY <1>1
    <2> HIDE DEF E
    <2> QED BY <2>1, <2>2
<1>3. Abstract!Full <=> Cardinality(Abstract!Places) = Count
    BY SameCardinality DEF Abstract!Full
<1> QED BY <1>2, <1>3

\* There are as many of them as links on the chains.
LEMMA PlacesCount ==
    ASSUME IInv
    PROVE  /\ Cardinality(PlacesOf(Stored)) = linkUsed
           /\ (\A b \in Slots : table[b] = Nil) => PlacesOf(Stored) = {}
<1> DEFINE T == PlacesOf(Stored)
           S == On(Chains)
           f == [t \in T |-> Matches(t[1])[t[2]]]
<1>1. \A k \in Keys : /\ Matches(k) \in Seq(Slots)
                      /\ DOMAIN Stored[k] = 1 .. Len(Matches(k))
    <2> SUFFICES ASSUME NEW k \in Keys
                 PROVE  Matches(k) \in Seq(Slots) /\ DOMAIN Stored[k] = 1 .. Len(Matches(k))
        OBVIOUS
    <2>1. Matches(k) \in Seq(Slots) /\ Stored[k] = Mapped(Matches(k), ValueOf(link, cell))
        BY MatchesAre
    <2> QED BY <2>1 DEF Mapped
<1>2. \A t : t \in T <=> \E k \in Keys : \E i \in 1 .. Len(Matches(k)) : t = <<k, i>>
    BY <1>1 DEF PlacesOf
<1>3. ASSUME NEW k \in Keys
      PROVE  /\ Distinct(Matches(k))
             /\ \A l : Occurs(l, Matches(k)) <=> Occurs(l, Chains[Bucket[k]]) /\ l \in With(k, link, cell)
    <2> DEFINE s == Chains[Bucket[k]]
               A == With(k, link, cell)
    <2>1. s \in Seq(Slots) /\ Matches(k) = Picked(s, A) /\ Bucket[k] \in Slots
        BY MatchesAre
    <2>2. Distinct(s)
        BY <2>1 DEF IInv, Shape, Distinct
    <2> HIDE DEF s, A
    <2>3. Distinct(Picked(s, A))
        BY <2>1, <2>2, PickedDistinct
    <2>4. \A l : Occurs(l, Picked(s, A)) <=> Occurs(l, s) /\ l \in A
        BY <2>1, PickedElements
    <2> QED BY <2>1, <2>3, <2>4 DEF s, A
<1>4. ASSUME NEW k \in Keys, NEW i \in 1 .. Len(Matches(k))
      PROVE  /\ Matches(k)[i] \in S /\ KeyOf(Matches(k)[i]) = k
             /\ <<k, i>> \in T /\ f[<<k, i>>] = Matches(k)[i]
    <2>1. Occurs(Matches(k)[i], Matches(k))
        BY DEF Occurs
    <2>2. /\ Occurs(Matches(k)[i], Chains[Bucket[k]]) /\ Matches(k)[i] \in With(k, link, cell)
        BY <1>3, <2>1
    <2>3. Matches(k)[i] \in S /\ KeyOf(Matches(k)[i]) = k
        BY <2>2, BucketAssumption DEF On, With, KeyOf
    <2>4. <<k, i>> \in T
        BY <1>2
    <2> HIDE DEF T
    <2> QED BY <2>3, <2>4
<1>5. ASSUME NEW l \in S
      PROVE  \E k \in Keys : \E i \in 1 .. Len(Matches(k)) : Matches(k)[i] = l
    <2>1. /\ l \in Slots /\ link[l].data \in Slots /\ cell[link[l].data] \in UsedCell
        BY DEF IInv, Filled, On
    <2>2. KeyOf(l) \in Keys /\ l \in With(KeyOf(l), link, cell)
        BY <2>1, SlotFacts DEF UsedCell, KeyOf, With
    <2>3. PICK b \in Slots : Occurs(l, Chains[b])
        BY DEF On
    <2>4. PICK i \in 1 .. Len(Chains[b]) : Chains[b][i] = l
        BY <2>3 DEF Occurs
    <2>5. Bucket[cell[link[Chains[b][i]].data].key] = b
        BY DEF IInv, Filled
    <2>6. b = Bucket[KeyOf(l)]
        BY <2>4, <2>5 DEF KeyOf
    <2>7. Occurs(l, Matches(KeyOf(l)))
        BY <1>3, <2>2, <2>3, <2>6
    <2> QED BY <2>2, <2>7 DEF Occurs
<1> HIDE DEF T, S
<1>6. f \in [T -> S]
    <2>1. ASSUME NEW t \in T PROVE f[t] \in S
        <3>1. PICK k \in Keys : \E i \in 1 .. Len(Matches(k)) : t = <<k, i>>
            BY <1>2
        <3>2. PICK i \in 1 .. Len(Matches(k)) : t = <<k, i>>
            BY <3>1
        <3> QED BY <1>4, <3>2
    <2> QED BY <2>1
<1>7. ASSUME NEW t \in T, NEW u \in T, f[t] = f[u] PROVE t = u
    <2>1. PICK k \in Keys : \E i \in 1 .. Len(Matches(k)) : t = <<k, i>>
        BY <1>2
    <2>2. PICK i \in 1 .. Len(Matches(k)) : t = <<k, i>>
        BY <2>1
    <2>3. PICK j \in Keys : \E h \in 1 .. Len(Matches(j)) : u = <<j, h>>
        BY <1>2
    <2>4. PICK h \in 1 .. Len(Matches(j)) : u = <<j, h>>
        BY <2>3
    <2> HIDE DEF f
    <2>5. /\ f[t] = Matches(k)[i] /\ KeyOf(Matches(k)[i]) = k
          /\ f[u] = Matches(j)[h] /\ KeyOf(Matches(j)[h]) = j
        BY <1>4, <2>2, <2>4
    <2>6. k = j
        BY <1>7, <2>5
    <2>7. i = h
        BY <1>3, <1>7, <2>5, <2>6 DEF Distinct
    <2> QED BY <2>2, <2>4, <2>6, <2>7
<1>8. ASSUME NEW l \in S PROVE \E t \in T : f[t] = l
    <2>1. PICK k \in Keys : \E i \in 1 .. Len(Matches(k)) : Matches(k)[i] = l
        BY <1>5
    <2>2. PICK i \in 1 .. Len(Matches(k)) : Matches(k)[i] = l
        BY <2>1
    <2> HIDE DEF f
    <2> QED BY <1>4, <2>2
<1> HIDE DEF f
<1>9. f \in Bijection(T, S)
    BY <1>6, <1>7, <1>8 DEF Bijection, Injection, Surjection, IsInjective
<1>10. ExistsBijection(S, T)
    <2>1. ExistsBijection(T, S)
        BY <1>9 DEF ExistsBijection
    <2> QED BY <2>1, Fun_ExistsBijSymmetric
<1>11. Cardinality(T) = Cardinality(S)
    <2>1. IsFiniteSet(S)
        <3>1. S \in SUBSET Slots
            BY DEF S, On
        <3> QED BY <3>1, SomeSlots
    <2> QED BY <1>10, <2>1, FS_Bijection
<1>12. ASSUME \A b \in Slots : table[b] = Nil PROVE T = {}
    <2>1. \A b \in Slots : Chains[b] \in Seq(Slots) /\ Path(Chains[b], table[b], link)
        BY DEF IInv, Shape
    <2>2. \A b \in Slots : Chains[b] = << >>
        <3> SUFFICES ASSUME NEW b \in Slots, Chains[b] # << >> PROVE FALSE
            OBVIOUS
        <3>1. Chains[b][1] \in Slots /\ table[b] = Chains[b][1]
            BY <2>1 DEF Path
        <3> QED BY <1>12, <3>1, SlotFacts
    <2>3. S = {}
        BY <2>2 DEF S, On, Occurs
    <2> QED BY <1>6, <2>3
<1> QED BY <1>11, <1>12 DEF IInv, T, S

-----------------------------------------------------------------------------
(* Step by step. *)

LEMMA InitPool == Init => Abstract!Init
<1> SUFFICES ASSUME Init PROVE Abstract!Init
    OBVIOUS
<1>1. [k \in Keys |-> ObjectsOf(k)] = [k \in Keys |-> << >>]
    BY InitIInv, MappingIs
<1> QED BY <1>1 DEF Init, Abstract!Init

LEMMA NextPool == IInv /\ [Next]_vars => [Abstract!Next]_(Abstract!vars)
<1> SUFFICES ASSUME IInv, [Next]_vars PROVE [Abstract!Next]_(Abstract!vars)
    OBVIOUS
<1> DEFINE E == [k \in Keys |-> ObjectsOf(k)]
<1>1. IInv' /\ E = Stored /\ E' = Stored'
    BY NextIInv, MappingIs
<1>2. \A k \in Keys : E[k] = Stored[k] /\ E'[k] = Stored'[k]
    BY <1>1
<1>3. /\ Abstract!Full <=> linkUsed = Count
      /\ \A k \in Keys : Abstract!Holds(k) <=> Stored[k] # << >>
      /\ (\A b \in Slots : table[b] = Nil) => Abstract!Places = {}
    <2>1. Abstract!Full <=> linkUsed = Count
        BY AbstractFull, PlacesCount
    <2>2. \A k \in Keys : Abstract!Holds(k) <=> Stored[k] # << >>
        BY <1>2 DEF Abstract!Holds
    <2>3. (\A b \in Slots : table[b] = Nil) => Abstract!Places = {}
        BY AbstractFull, PlacesCount
    <2> QED BY <2>1, <2>2, <2>3
<1>4. /\ \A k \in Keys, o \in Objects : Gains(Stored, Stored', k, o) => Abstract!Store(k, o)
      /\ \A k \in Keys : Loses(Stored, Stored', k) => Abstract!Remove(k)
    BY <1>1 DEF Gains, Loses, Abstract!Store, Abstract!Remove
<1>5. Stored' = Stored => UNCHANGED E
    BY <1>1
<1>6. CASE Next
    <2>1. ASSUME NEW k \in Keys, NEW o \in Objects, Add(k, o) PROVE Abstract!Add(k, o)
        <3> DEFINE ok == k \notin LongKeys /\ Stored[k] = << >> /\ linkUsed # Count
        <3>1. /\ answer' = ok
              /\ IF ok THEN Gains(Stored, Stored', k, o) ELSE Stored' = Stored
            BY <2>1, AddKeeps
        <3>2. ok <=> k \notin LongKeys /\ ~ Abstract!Holds(k) /\ ~ Abstract!Full
            BY <1>3
        <3> HIDE DEF ok
        <3>3. ok => Abstract!Store(k, o)
            BY <1>4, <3>1
        <3>4. ~ ok => UNCHANGED E
            BY <1>5, <3>1
        <3>5. ok = (k \notin LongKeys /\ ~ Abstract!Holds(k) /\ ~ Abstract!Full)
            BY <3>2 DEF ok
        <3> QED BY <3>1, <3>3, <3>4, <3>5 DEF Abstract!Add
    <2>2. ASSUME NEW k \in Keys, NEW o \in Objects, Push(k, o) PROVE Abstract!Push(k, o)
        <3>1. /\ k \notin LongKeys /\ answer' = (linkUsed # Count)
              /\ IF linkUsed = Count THEN Stored' = Stored ELSE Gains(Stored, Stored', k, o)
            BY <2>2, PushKeeps
        <3>2. answer' = ~ Abstract!Full
            BY <1>3, <3>1 DEF Abstract!Full
        <3>3. Abstract!Full => UNCHANGED E
            BY <1>3, <1>5, <3>1
        <3>4. ~ Abstract!Full => Abstract!Store(k, o)
            BY <1>3, <1>4, <3>1
        <3> QED BY <3>1, <3>2, <3>3, <3>4 DEF Abstract!Push
    <2>3. ASSUME NEW k \in Keys, Get(k) PROVE Abstract!Get(k)
        <3>1. /\ answer' = (IF Stored[k] = << >> THEN Nil ELSE Stored[k][Len(Stored[k])])
              /\ UNCHANGED E
            BY <1>5, <2>3, GetKeeps DEF GetStep
        <3>2. answer' = IF Abstract!Holds(k) THEN E[k][Len(E[k])] ELSE Nil
            BY <1>2, <1>3, <3>1
        <3> QED BY <3>1, <3>2 DEF Abstract!Get
    <2>4. ASSUME NEW k \in Keys, Del(k) PROVE Abstract!Del(k)
        <3>1. /\ answer' \in BOOLEAN
              /\ \/ Stored[k] # << >> /\ answer' = TRUE /\ Loses(Stored, Stored', k)
                 \/ Stored[k] = << >> /\ Stored' = Stored
            BY <2>4, DelKeeps
        <3>2. CASE Stored[k] # << >>
            BY <1>3, <1>4, <3>1, <3>2 DEF Abstract!Del
        <3>3. CASE Stored[k] = << >>
            BY <1>3, <1>5, <3>1, <3>3 DEF Abstract!Del
        <3> QED BY <3>2, <3>3
    <2>5. ASSUME Pop PROVE Abstract!Pop
        <3>1. CASE \E k \in Keys : /\ Stored[k] # << >> /\ answer' = Head(Stored[k])
                                   /\ Loses(Stored, Stored', k)
            <4>1. PICK k \in Keys : /\ Stored[k] # << >> /\ answer' = Head(Stored[k])
                                    /\ Loses(Stored, Stored', k)
                BY <3>1
            <4>2. Abstract!Holds(k) /\ answer' = Head(E[k]) /\ Abstract!Remove(k)
                BY <1>2, <1>3, <1>4, <4>1
            <4> QED BY <4>2 DEF Abstract!Pop
        <3>2. CASE answer' = Nil /\ Stored' = Stored /\ \A b \in Slots : table[b] = Nil
            BY <1>3, <1>5, <3>2 DEF Abstract!Pop
        <3> QED BY <2>5, <3>1, <3>2, PopKeeps
    <2>6. ASSUME Clear PROVE Abstract!Clear
        BY <1>1, <2>6, ClearKeeps DEF Abstract!Clear
    <2> QED BY <1>6, <2>1, <2>2, <2>3, <2>4, <2>5, <2>6 DEF Next, Abstract!Next
<1>7. CASE UNCHANGED vars
    <2>1. UNCHANGED <<cells, links, table>> /\ popCurr' = popCurr /\ answer' = answer
        BY <1>7 DEF vars
    <2>2. popCurr' \in Slots /\ answer' \in Objects \cup {Nil, TRUE, FALSE}
        BY <2>1 DEF IInv, TypeOK
    <2>3. Stored' = Stored
        BY <2>1, <2>2, NoChange
    <2> QED BY <1>5, <2>1, <2>3 DEF Abstract!vars
<1> QED BY <1>6, <1>7

\* The chains, the two pools and their cursors are a bounded collection of
\* objects per key: what Add, Push, Get, Del, Pop and Clear answer follows from
\* the objects stored and their order alone, for every capacity and every hash.
THEOREM TableIsAKeyedPool == Spec => ImplementsKeyedPool
<1>1. IInv /\ [Next]_vars => [Abstract!Next]_(Abstract!vars)
    BY NextPool
<1> QED BY <1>1, InitPool, AlwaysIInv, PTL DEF Spec, ImplementsKeyedPool, Abstract!Spec
=============================================================================
