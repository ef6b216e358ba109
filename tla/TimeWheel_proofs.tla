--------------------------- MODULE TimeWheel_proofs ---------------------------
(***************************************************************************)
(* Proofs about TimeWheel, for any number of handlers, containers and      *)
(* cells.  KeepsTime is not inductive: whether an addition replaces or     *)
(* duplicates an object depends on the index, so it is strengthened with   *)
(* IndexSound (true always) and Indexed (true until the cells run out).    *)
(***************************************************************************)
EXTENDS TimeWheel, FiniteSetTheorems, TLAPS

\* Until the cells run out, every handler in a container is in the index.
Indexed ==
    ~exhausted => \A h \in Handlers, b \in Blocks :
                      h \in contain[b] => index[h] # Nil

IInv == TypeOK /\ IndexSound /\ KeepsTime /\ Indexed

USE DEF Blocks, Invalid

\* The arithmetic of the list: it has at least one cell.
LEMMA ListSizeNat == ListSize \in Nat \ {0}
<1>1. BlockCount \in Nat \ {0} /\ ContainSize \in Nat \ {0}
    BY BlockAssumption, SizeAssumption
<1>2. \A m, n \in Nat \ {0} : m * n \in Nat \ {0}
    OBVIOUS
<1> QED BY <1>1, <1>2 DEF ListSize

\* A container that does not hold h has room for it.
LEMMA Room ==
    ASSUME NEW S \in SUBSET Handlers, NEW h \in Handlers, h \notin S
    PROVE  Cardinality(S) < ContainSize
<1>1. IsFiniteSet(Handlers) /\ Cardinality(Handlers) <= ContainSize
    BY SizeAssumption
<1>2. IsFiniteSet(S) /\ IsFiniteSet(S \cup {h}) /\ S \cup {h} \subseteq Handlers
    BY <1>1, FS_Subset
<1>3. Cardinality(S \cup {h}) <= Cardinality(Handlers)
    BY <1>1, <1>2, FS_Subset
<1>4. Cardinality(S \cup {h}) = Cardinality(S) + 1
    BY <1>2, FS_AddElement
<1>5. Cardinality(S) \in Nat /\ Cardinality(Handlers) \in Nat
    BY <1>1, <1>2, FS_CardinalityType
<1> QED BY <1>1, <1>3, <1>4, <1>5, SizeAssumption

\* Two containers never have the same age, and ages are below BlockCount.
LEMMA AgeInjective ==
    ASSUME TypeOK, NEW a \in Blocks, NEW b \in Blocks
    PROVE  /\ Age(a) \in 0 .. BlockCount - 1
           /\ Age(a) = Age(b) => a = b
           /\ Age(current) = 0
           /\ Age(NextBlock) = BlockCount - 1
           /\ NextBlock \in Blocks /\ NextBlock # current
BY BlockAssumption DEF TypeOK, Age, NextBlock

\* The index entries of a state of the wheel that Place is given.
Sound(containers, list, entries) ==
    /\ \A g \in Handlers : entries[g] # Nil =>
           list[entries[g]] \in Blocks /\ g \in containers[list[entries[g]]]
    /\ \A f, g \in Handlers : f # g /\ entries[f] # Nil => entries[f] # entries[g]

\* Whatever Place does, types and the soundness of the index survive; and if
\* the handler is new to the container and no cell was ever missing, it ends
\* up in the current container with an entry, and nothing else moves.
LEMMA PlaceStep ==
    ASSUME NEW STATE containers, containers \in [Blocks -> SUBSET Handlers],
           NEW STATE list, list \in [Cells -> Blocks \cup {Invalid}],
           NEW STATE entries, entries \in [Handlers -> Cells \cup {Nil}],
           NEW h \in Handlers,
           TypeOK, Sound(containers, list, entries), entries[h] = Nil,
           Place(h, containers, list, entries)
    PROVE  /\ contain' \in [Blocks -> SUBSET Handlers]
           /\ index' \in [Handlers -> Cells \cup {Nil}]
           /\ blockOf' \in [Cells -> Blocks \cup {Invalid}]
           /\ cursor' \in Cells
           /\ exhausted' \in BOOLEAN
           /\ Sound(contain', blockOf', index')
           /\ ~exhausted' /\ h \notin containers[current] =>
                 /\ ~exhausted
                 /\ contain' = [containers EXCEPT ![current] = @ \cup {h}]
                 /\ index'[h] # Nil
                 /\ \A g \in Handlers : g # h => index'[g] = entries[g]
<1>1. current \in Blocks /\ cursor \in Cells /\ exhausted \in BOOLEAN
    BY DEF TypeOK
<1>2. CASE /\ \/ h \in containers[current]
              \/ Cardinality(containers[current]) >= ContainSize
           /\ contain' = containers /\ blockOf' = list /\ index' = entries
           /\ UNCHANGED <<cursor, exhausted>>
    <2>1. h \notin containers[current] =>
              Cardinality(containers[current]) < ContainSize
        BY <1>1, Room
    <2>2. h \notin containers[current] =>
              Cardinality(containers[current]) \in Nat
        BY <1>1, SizeAssumption, FS_Subset, FS_CardinalityType
    <2>3. h \in containers[current]
        BY <1>2, <2>1, <2>2, SizeAssumption
    <2> QED BY <1>1, <1>2, <2>3
<1>3. CASE /\ h \notin containers[current]
           /\ contain' = [containers EXCEPT ![current] = @ \cup {h}]
           /\ \E c \in Cells :
                 /\ IsFreeCell(c, list)
                 /\ blockOf' = [list EXCEPT ![c] = current]
                 /\ cursor' = NextCell(c)
                 /\ index' = IF entries[h] = Nil THEN [entries EXCEPT ![h] = c]
                             ELSE entries
                 /\ UNCHANGED exhausted
    <2>1. PICK c \in Cells :
                 /\ IsFreeCell(c, list)
                 /\ blockOf' = [list EXCEPT ![c] = current]
                 /\ cursor' = NextCell(c)
                 /\ index' = [entries EXCEPT ![h] = c]
                 /\ UNCHANGED exhausted
        BY <1>3
    <2>2. list[c] = Invalid /\ c # Nil
        BY <2>1, NilAssumption, ListSizeNat DEF IsFreeCell, Cells
    <2>3. cursor' \in Cells
        BY <2>1, ListSizeNat DEF Cells, NextCell
    <2>4. \A g \in Handlers : entries[g] # Nil => entries[g] # c
        BY <2>2, BlockAssumption DEF Sound
    <2>5. contain' \in [Blocks -> SUBSET Handlers]
        BY <1>1, <1>3
    <2>6. blockOf' \in [Cells -> Blocks \cup {Invalid}]
          /\ index' \in [Handlers -> Cells \cup {Nil}]
        BY <1>1, <2>1
    <2>7. ASSUME NEW g \in Handlers, index'[g] # Nil
          PROVE  blockOf'[index'[g]] \in Blocks /\ g \in contain'[blockOf'[index'[g]]]
        <3>1. CASE g = h
            BY <3>1, <1>1, <1>3, <2>1
        <3>2. CASE g # h
            <4>1. index'[g] = entries[g] /\ entries[g] \in Cells
                BY <3>2, <2>1, <2>7
            <4>2. blockOf'[entries[g]] = list[entries[g]] /\ entries[g] # Nil
                BY <4>1, <2>1, <2>4, <2>7
            <4>3. list[entries[g]] \in Blocks /\ g \in containers[list[entries[g]]]
                BY <4>2 DEF Sound
            <4> QED BY <4>1, <4>2, <4>3, <1>1, <1>3
        <3> QED BY <3>1, <3>2
    <2>8. \A f, g \in Handlers : f # g /\ index'[f] # Nil => index'[f] # index'[g]
        BY <2>1, <2>2, <2>4 DEF Sound
    <2> QED BY <1>1, <1>3, <2>1, <2>2, <2>3, <2>5, <2>6, <2>7, <2>8 DEF Sound
<1>4. CASE /\ h \notin containers[current]
           /\ contain' = [containers EXCEPT ![current] = @ \cup {h}]
           /\ blockOf' = list /\ index' = entries
           /\ exhausted' = TRUE
           /\ UNCHANGED cursor
    <2>1. \A b \in Blocks : containers[b] \subseteq contain'[b]
        BY <1>1, <1>4
    <2>2. Sound(contain', blockOf', index')
        BY <1>4, <2>1 DEF Sound
    <2> QED BY <1>1, <1>4, <2>2
<1> QED BY <1>2, <1>3, <1>4 DEF Place

\* Add_TimeWheel_Object leaves h in the current container and nowhere else,
\* whichever of its branches is taken, and disturbs no other handler.
LEMMA AddStep ==
    ASSUME IInv, NEW h \in Handlers, Add(h)
    PROVE  /\ contain' \in [Blocks -> SUBSET Handlers]
           /\ index' \in [Handlers -> Cells \cup {Nil}]
           /\ blockOf' \in [Cells -> Blocks \cup {Invalid}]
           /\ cursor' \in Cells
           /\ exhausted' \in BOOLEAN
           /\ IndexSound'
           /\ ~exhausted' =>
                 /\ ~exhausted
                 /\ \A b \in Blocks : h \in contain'[b] <=> b = current
                 /\ index'[h] # Nil
                 /\ \A g \in Handlers : g # h =>
                       /\ index'[g] = index[g]
                       /\ \A b \in Blocks : g \in contain'[b] <=> g \in contain[b]
<1>1. TypeOK /\ Sound(contain, blockOf, index)
    BY DEF IInv, IndexSound, Sound
<1>2. Sound(contain', blockOf', index') => IndexSound'
    BY DEF IndexSound, Sound
<1>3. \A g \in Handlers : Known(g) <=> index[g] # Nil
    BY <1>1, BlockAssumption DEF Sound, Known
<1>4. \A b \in Blocks : ~exhausted /\ h \in contain[b] =>
          index[h] # Nil /\ blockOf[index[h]] = b
    <2> SUFFICES ASSUME NEW b \in Blocks, ~exhausted, h \in contain[b]
                 PROVE  index[h] # Nil /\ blockOf[index[h]] = b
        OBVIOUS
    <2>1. index[h] # Nil
        BY DEF IInv, Indexed
    <2>2. blockOf[index[h]] \in Blocks /\ h \in contain[blockOf[index[h]]]
        BY <1>1, <2>1 DEF Sound
    <2>3. silent[h] = Age(b) /\ silent[h] = Age(blockOf[index[h]])
        BY <2>2 DEF IInv, KeepsTime
    <2> QED BY <1>1, <2>1, <2>2, <2>3, AgeInjective
<1>5. CASE ~Known(h) /\ Place(h, contain, blockOf, index)
    <2>1. index[h] = Nil
        BY <1>3, <1>5
    <2>2. ~exhausted => \A b \in Blocks : h \notin contain[b]
        BY <1>4, <2>1
    <2>3. current \in Blocks
        BY <1>1 DEF TypeOK
    <2>4. /\ contain \in [Blocks -> SUBSET Handlers]
          /\ index \in [Handlers -> Cells \cup {Nil}]
          /\ blockOf \in [Cells -> Blocks \cup {Invalid}]
        BY <1>1 DEF TypeOK
    <2>5. /\ contain' \in [Blocks -> SUBSET Handlers]
          /\ index' \in [Handlers -> Cells \cup {Nil}]
          /\ blockOf' \in [Cells -> Blocks \cup {Invalid}]
          /\ cursor' \in Cells
          /\ exhausted' \in BOOLEAN
          /\ Sound(contain', blockOf', index')
          /\ ~exhausted' /\ h \notin contain[current] =>
                 /\ ~exhausted
                 /\ contain' = [contain EXCEPT ![current] = @ \cup {h}]
                 /\ index'[h] # Nil
                 /\ \A g \in Handlers : g # h => index'[g] = index[g]
        BY <1>1, <1>5, <2>1, <2>4, PlaceStep DEF Place
    <2>6. ~exhausted' => ~exhausted
        BY <1>5 DEF Place
    <2> QED BY <1>2, <2>2, <2>3, <2>4, <2>5, <2>6
<1>6. CASE /\ Known(h)
           /\ blockOf[index[h]] = current
           /\ UNCHANGED <<contain, index, blockOf, cursor, exhausted>>
    <2>1. index[h] # Nil /\ h \in contain[current]
        BY <1>1, <1>3, <1>6 DEF Sound
    <2> QED BY <1>1, <1>2, <1>4, <1>6, <2>1 DEF TypeOK
<1>7. CASE /\ Known(h)
           /\ blockOf[index[h]] # current
           /\ Place(h, [contain EXCEPT ![blockOf[index[h]]] = @ \ {h}],
                    [blockOf EXCEPT ![index[h]] = Invalid],
                    [index EXCEPT ![h] = Nil])
    <2> DEFINE old == blockOf[index[h]]
               containers == [contain EXCEPT ![old] = @ \ {h}]
               list == [blockOf EXCEPT ![index[h]] = Invalid]
               entries == [index EXCEPT ![h] = Nil]
    <2>1. index[h] \in Cells /\ index[h] # Nil /\ old \in Blocks /\ h \in contain[old]
        BY <1>1, <1>3, <1>7 DEF Sound, TypeOK
    <2>2. /\ containers \in [Blocks -> SUBSET Handlers]
          /\ list \in [Cells -> Blocks \cup {Invalid}]
          /\ entries \in [Handlers -> Cells \cup {Nil}]
          /\ entries[h] = Nil
        BY <1>1, <2>1 DEF TypeOK
    <2>3. Sound(containers, list, entries)
        <3>1. ASSUME NEW g \in Handlers, entries[g] # Nil
              PROVE  list[entries[g]] \in Blocks /\ g \in containers[list[entries[g]]]
            <4>1. g # h /\ entries[g] = index[g] /\ index[g] \in Cells
                BY <1>1, <3>1 DEF TypeOK
            <4>2. index[g] # index[h]
                BY <1>1, <2>1, <3>1, <4>1 DEF Sound
            <4>3. list[entries[g]] = blockOf[index[g]]
                BY <1>1, <4>1, <4>2 DEF TypeOK
            <4>4. blockOf[index[g]] \in Blocks /\ g \in contain[blockOf[index[g]]]
                BY <1>1, <3>1, <4>1 DEF Sound
            <4> QED BY <1>1, <4>1, <4>3, <4>4 DEF TypeOK
        <3>2. \A f, g \in Handlers : f # g /\ entries[f] # Nil => entries[f] # entries[g]
            BY <1>1 DEF Sound, TypeOK
        <3> QED BY <3>1, <3>2 DEF Sound
    <2>4. Place(h, containers, list, entries)
        BY <1>7
    <2> HIDE DEF containers, list, entries
    <2>5. /\ contain' \in [Blocks -> SUBSET Handlers]
          /\ index' \in [Handlers -> Cells \cup {Nil}]
          /\ blockOf' \in [Cells -> Blocks \cup {Invalid}]
          /\ cursor' \in Cells
          /\ exhausted' \in BOOLEAN
          /\ Sound(contain', blockOf', index')
          /\ ~exhausted' /\ h \notin containers[current] =>
                 /\ ~exhausted
                 /\ contain' = [containers EXCEPT ![current] = @ \cup {h}]
                 /\ index'[h] # Nil
                 /\ \A g \in Handlers : g # h => index'[g] = entries[g]
        BY <1>1, <2>2, <2>3, <2>4, PlaceStep DEF Place
    <2>6. ~exhausted' => ~exhausted
        BY <1>7 DEF Place
    <2>7. ~exhausted => \A b \in Blocks : h \notin containers[b]
        BY <1>1, <1>4, <2>1 DEF containers, TypeOK
    <2>8. \A g \in Handlers, b \in Blocks :
              g # h => (g \in containers[b] <=> g \in contain[b]) /\ entries[g] = index[g]
        BY <1>1, <2>1 DEF containers, entries, TypeOK
    <2>9. current \in Blocks
        BY <1>1 DEF TypeOK
    <2> QED BY <1>2, <2>2, <2>5, <2>6, <2>7, <2>8, <2>9
<1> QED BY <1>5, <1>6, <1>7 DEF Add

\* The step of the two actions that add a handler.
LEMMA AddPreserves ==
    ASSUME IInv, NEW h \in Handlers, Add(h),
           open' = open \cup {h}, silent' = [silent EXCEPT ![h] = 0]
    PROVE  IInv'
<1>1. TypeOK /\ UNCHANGED current
    BY DEF IInv, Add
<1>2. TypeOK'
    BY <1>1, AddStep, BlockAssumption DEF TypeOK
<1>3. IndexSound'
    BY AddStep
<1>4. Age(current) = 0 /\ \A b \in Blocks : Age(b)' = Age(b)
    BY <1>1, AgeInjective DEF Age, TypeOK
<1>5. \A b \in Blocks : Age(b) = 0 <=> b = current
    BY <1>1, <1>4, AgeInjective DEF TypeOK
<1>6. silent'[h] = 0 /\ \A g \in Handlers : g # h => silent'[g] = silent[g]
    BY <1>1 DEF TypeOK
<1>7. KeepsTime'
    <2> SUFFICES ASSUME ~exhausted', NEW g \in Handlers, NEW b \in Blocks
                 PROVE  g \in contain'[b] <=> g \in open' /\ silent'[g] = Age(b)'
        BY DEF KeepsTime
    <2>1. CASE g = h
        BY <1>4, <1>5, <1>6, <2>1, AddStep
    <2>2. CASE g # h
        BY <1>4, <1>6, <2>2, AddStep DEF IInv, KeepsTime
    <2> QED BY <2>1, <2>2
<1>8. Indexed'
    BY AddStep DEF IInv, Indexed
<1> QED BY <1>2, <1>3, <1>7, <1>8 DEF IInv

\* Del_TimeWheel_Object takes the handler out of the only container it is in.
LEMMA ClosePreserves ==
    ASSUME IInv, NEW h \in Handlers, Close(h)
    PROVE  IInv'
<1>1. TypeOK /\ UNCHANGED <<current, cursor, silent, exhausted>>
    BY DEF IInv, Close, Del
<1>2. /\ index' = [index EXCEPT ![h] = Nil]
      /\ open' = open \ {h}
      /\ \A b \in Blocks : Age(b)' = Age(b)
    BY <1>1 DEF Close, Del, Age
<1>3. \A g \in Handlers : Known(g) <=> index[g] # Nil
    BY BlockAssumption DEF IInv, IndexSound, Known
<1>4. CASE /\ Known(h)
           /\ contain' = [contain EXCEPT ![blockOf[index[h]]] = @ \ {h}]
           /\ blockOf' = [blockOf EXCEPT ![index[h]] = Invalid]
    <2>1. index[h] \in Cells /\ blockOf[index[h]] \in Blocks
        BY <1>1, <1>3, <1>4 DEF IInv, IndexSound, TypeOK
    <2>2. TypeOK'
        BY <1>1, <1>2, <1>4, <2>1 DEF TypeOK
    <2>3. \A g \in Handlers, b \in Blocks :
              g # h => (g \in contain'[b] <=> g \in contain[b])
        BY <1>1, <1>4, <2>1 DEF TypeOK
    <2>4. ~exhausted => \A b \in Blocks : h \notin contain'[b]
        <3> SUFFICES ASSUME ~exhausted, NEW b \in Blocks, h \in contain'[b]
                     PROVE  FALSE
            OBVIOUS
        <3>1. h \in contain[b] /\ b # blockOf[index[h]]
            BY <1>1, <1>4, <2>1 DEF TypeOK
        <3>2. h \in contain[blockOf[index[h]]]
            BY <1>3, <1>4 DEF IInv, IndexSound
        <3>3. Age(b) = Age(blockOf[index[h]])
            BY <2>1, <3>1, <3>2 DEF IInv, KeepsTime
        <3> QED BY <1>1, <2>1, <3>1, <3>3, AgeInjective
    <2>5. IndexSound'
        <3>1. ASSUME NEW g \in Handlers, index'[g] # Nil
              PROVE  blockOf'[index'[g]] \in Blocks /\ g \in contain'[blockOf'[index'[g]]]
            <4>1. g # h /\ index'[g] = index[g] /\ index[g] \in Cells
                BY <1>1, <1>2, <3>1 DEF TypeOK
            <4>2. index[g] # index[h]
                BY <1>3, <1>4, <3>1, <4>1 DEF IInv, IndexSound
            <4>3. blockOf'[index[g]] = blockOf[index[g]]
                BY <1>1, <1>4, <4>1, <4>2 DEF TypeOK
            <4>4. blockOf[index[g]] \in Blocks /\ g \in contain[blockOf[index[g]]]
                BY <3>1, <4>1 DEF IInv, IndexSound
            <4> QED BY <2>3, <4>1, <4>3, <4>4
        <3>2. \A f, g \in Handlers : f # g /\ index'[f] # Nil => index'[f] # index'[g]
            BY <1>1, <1>2 DEF IInv, IndexSound, TypeOK
        <3> QED BY <3>1, <3>2 DEF IndexSound
    <2>6. KeepsTime'
        BY <1>1, <1>2, <2>3, <2>4 DEF IInv, KeepsTime
    <2>7. Indexed'
        BY <1>1, <1>2, <2>3, <2>4 DEF IInv, Indexed, TypeOK
    <2> QED BY <2>2, <2>5, <2>6, <2>7 DEF IInv
<1>5. CASE ~Known(h) /\ UNCHANGED <<contain, blockOf>>
    <2>1. index[h] = Nil /\ index' = index
        BY <1>1, <1>2, <1>3, <1>5 DEF TypeOK
    <2>2. ~exhausted => \A b \in Blocks : h \notin contain[b]
        BY <2>1 DEF IInv, Indexed
    <2>3. TypeOK' /\ IndexSound' /\ Indexed'
        BY <1>1, <1>2, <1>5, <2>1 DEF IInv, TypeOK, IndexSound, Indexed
    <2>4. KeepsTime'
        BY <1>1, <1>2, <1>5, <2>2 DEF IInv, KeepsTime
    <2> QED BY <2>3, <2>4 DEF IInv
<1> QED BY <1>4, <1>5 DEF Close, Del

\* The tick ages every container by one and empties the one it comes to.
LEMMA TickPreserves ==
    ASSUME IInv, handle_timeout
    PROVE  IInv'
<1>1. TypeOK
    BY DEF IInv
<1>2. /\ index' = [h \in Handlers |-> IF h \in Expiring THEN Nil ELSE index[h]]
      /\ contain' = [contain EXCEPT ![NextBlock] = {}]
      /\ current' = NextBlock
      /\ silent' = [h \in Handlers |->
                       IF silent[h] < BlockCount THEN silent[h] + 1 ELSE silent[h]]
      /\ UNCHANGED <<blockOf, cursor, open, exhausted>>
    BY DEF handle_timeout, Tick
<1>3. NextBlock \in Blocks /\ Expiring \in SUBSET Handlers
    BY <1>1, AgeInjective DEF Expiring, TypeOK
<1>4. TypeOK'
    BY <1>1, <1>2, <1>3, BlockAssumption DEF TypeOK
<1>5. \A b \in Blocks : Age(b)' = IF b = NextBlock THEN 0 ELSE Age(b) + 1
    BY <1>1, <1>2, BlockAssumption DEF Age, NextBlock, TypeOK
<1>6. \A b \in Blocks : Age(b) \in 0 .. BlockCount - 1
                        /\ (Age(b) = BlockCount - 1 => b = NextBlock)
    BY <1>1, BlockAssumption DEF Age, NextBlock, TypeOK
<1>7. \A h \in Handlers, b \in Blocks :
          h \in contain'[b] <=> b # NextBlock /\ h \in contain[b]
    BY <1>1, <1>2, <1>3 DEF TypeOK
<1>8. \A h \in Handlers : silent[h] \in 0 .. BlockCount
    BY <1>1 DEF TypeOK
<1>9. IndexSound'
    <2>1. ASSUME NEW h \in Handlers, index'[h] # Nil
          PROVE  blockOf'[index'[h]] \in Blocks /\ h \in contain'[blockOf'[index'[h]]]
        <3>1. h \notin Expiring /\ index'[h] = index[h]
            BY <1>2, <2>1
        <3>2. blockOf[index[h]] \in Blocks /\ h \in contain[blockOf[index[h]]]
            BY <2>1, <3>1 DEF IInv, IndexSound
        <3>3. blockOf[index[h]] # NextBlock
            BY <3>1, <3>2 DEF Expiring
        <3> QED BY <1>2, <1>7, <3>1, <3>2, <3>3
    <2>2. \A g, h \in Handlers : g # h /\ index'[g] # Nil => index'[g] # index'[h]
        BY <1>2 DEF IInv, IndexSound
    <2> QED BY <2>1, <2>2 DEF IndexSound
<1>10. KeepsTime'
    <2> SUFFICES ASSUME ~exhausted', NEW h \in Handlers, NEW b \in Blocks
                 PROVE  h \in contain'[b] <=> h \in open' /\ silent'[h] = Age(b)'
        BY DEF KeepsTime
    <2>1. h \in contain[b] <=> h \in open /\ silent[h] = Age(b)
        BY <1>2 DEF IInv, KeepsTime
    <2>2. silent'[h] = IF silent[h] < BlockCount THEN silent[h] + 1 ELSE silent[h]
        BY <1>2
    <2>3. CASE b = NextBlock
        BY <1>2, <1>5, <1>7, <1>8, <2>2, <2>3, BlockAssumption
    <2>4. CASE b # NextBlock
        <3>1. Age(b)' = Age(b) + 1 /\ Age(b) \in 0 .. BlockCount - 2
            BY <1>5, <1>6, <2>4, BlockAssumption
        <3>2. silent'[h] = Age(b)' <=> silent[h] = Age(b)
            BY <1>8, <2>2, <3>1, BlockAssumption
        <3> QED BY <1>2, <1>7, <2>1, <2>4, <3>2
    <2> QED BY <2>3, <2>4
<1>11. Indexed'
    <2> SUFFICES ASSUME ~exhausted', NEW h \in Handlers, NEW b \in Blocks, h \in contain'[b]
                 PROVE  index'[h] # Nil
        BY DEF Indexed
    <2>1. b # NextBlock /\ h \in contain[b] /\ ~exhausted
        BY <1>2, <1>7
    <2>2. h \notin contain[NextBlock]
        BY <1>1, <1>3, <2>1, AgeInjective DEF IInv, KeepsTime
    <2> QED BY <1>2, <2>1, <2>2 DEF IInv, Indexed, Expiring
<1> QED BY <1>4, <1>9, <1>10, <1>11 DEF IInv

LEMMA InitIInv == Init => IInv
<1> SUFFICES ASSUME Init PROVE IInv
    OBVIOUS
<1>1. 0 \in Blocks /\ 0 \in Cells /\ 0 \in 0 .. BlockCount
    BY BlockAssumption, ListSizeNat DEF Cells
<1>2. TypeOK
    BY <1>1 DEF Init, TypeOK
<1>3. IndexSound /\ KeepsTime /\ Indexed
    BY DEF Init, IndexSound, KeepsTime, Indexed
<1> QED BY <1>2, <1>3 DEF IInv

LEMMA NextIInv == IInv /\ [Next]_vars => IInv'
<1> SUFFICES ASSUME IInv, [Next]_vars PROVE IInv'
    OBVIOUS
<1>1. ASSUME NEW h \in Handlers, AddConnect(h) PROVE IInv'
    BY <1>1, AddPreserves DEF AddConnect
<1>2. ASSUME NEW h \in Handlers, SetConnectTimeWheel(h) PROVE IInv'
    <2>1. open' = open \cup {h}
        BY <1>2 DEF SetConnectTimeWheel
    <2> QED BY <1>2, <2>1, AddPreserves DEF SetConnectTimeWheel
<1>3. ASSUME NEW h \in Handlers, Close(h) PROVE IInv'
    BY <1>3, ClosePreserves
<1>4. CASE handle_timeout
    BY <1>4, TickPreserves
<1>5. CASE UNCHANGED vars
    BY <1>5 DEF vars, wheel, IInv, TypeOK, IndexSound, KeepsTime, Indexed, Age
<1> QED BY <1>1, <1>2, <1>3, <1>4, <1>5 DEF Next

LEMMA AlwaysIInv == Spec => []IInv
BY InitIInv, NextIInv, PTL DEF Spec

\* Every variable of the wheel keeps its type (Common/TimeWheelLink.h:324-335).
THEOREM TypeCorrect == Spec => []TypeOK
BY AlwaysIInv, PTL DEF IInv

\* An entry of m_htIndexList can be trusted for ever, also after the list of
\* cells has been used up.
THEOREM IndexAlwaysSound == Spec => []IndexSound
BY AlwaysIInv, PTL DEF IInv

\* Until the cells run out, the wheel holds exactly the open connections that
\* have been silent for less than its circumference, each in the container of
\* its age.
THEOREM WheelKeepsTime == Spec => []KeepsTime
BY AlwaysIInv, PTL DEF IInv

\* Until the cells run out, a tick reports a connection at the BlockCount-th
\* tick of its silence and at no other.
THEOREM WheelReportsOnTime == Spec => ReportsOnTime
<1> DEFINE OnTime ==
        current' # current =>
            \A h \in Expiring : ~exhausted => silent[h] + 1 = BlockCount
<1>1. IInv /\ [Next]_vars => [OnTime]_vars
    <2> SUFFICES ASSUME IInv, NEW h \in Expiring, ~exhausted
                 PROVE  silent[h] + 1 = BlockCount
        OBVIOUS
    <2>1. h \in Handlers /\ NextBlock \in Blocks /\ Age(NextBlock) = BlockCount - 1
        BY AgeInjective DEF IInv, TypeOK, Expiring
    <2>2. silent[h] = Age(NextBlock)
        BY <2>1 DEF IInv, KeepsTime, Expiring
    <2> QED BY <2>1, <2>2, BlockAssumption
<1> QED BY <1>1, AlwaysIInv, PTL DEF Spec, ReportsOnTime

-----------------------------------------------------------------------------
(* Cells without an owner. *)

\* Lost, for a list of cells and an index that Place is given.
Ownerless(list, entries) ==
    {c \in Cells : list[c] # Invalid /\ \A g \in Handlers : entries[g] # c}

\* A handler is only ever placed in a cell that nobody has.
LEMMA PlaceLosesNothing ==
    ASSUME current \in Blocks, NEW h \in Handlers, NEW containers,
           NEW list \in [Cells -> Blocks \cup {Invalid}],
           NEW entries \in [Handlers -> Cells \cup {Nil}], entries[h] = Nil,
           Place(h, containers, list, entries)
    PROVE  Ownerless(blockOf', index') = Ownerless(list, entries)
<1>1. Nil \notin Cells /\ \A b \in Blocks : b # Invalid
    BY NilAssumption, ListSizeNat, BlockAssumption DEF Cells
<1>2. CASE blockOf' = list /\ index' = entries
    BY <1>2 DEF Ownerless
<1>3. ASSUME NEW c \in Cells, IsFreeCell(c, list),
             blockOf' = [list EXCEPT ![c] = current],
             index' = [entries EXCEPT ![h] = c]
      PROVE  Ownerless(blockOf', index') = Ownerless(list, entries)
    <2>1. list[c] = Invalid
        BY <1>3 DEF IsFreeCell
    <2>2. blockOf'[c] = current /\ index'[h] = c
        BY <1>3
    <2>3. \A d \in Cells : d # c => blockOf'[d] = list[d]
        BY <1>3
    <2>4. \A g \in Handlers : g # h => index'[g] = entries[g]
        BY <1>3
    <2>5. \A d \in Cells : d # c => entries[h] # d /\ index'[h] # d
        BY <1>1, <2>2
    <2> QED BY <2>1, <2>2, <2>3, <2>4, <2>5 DEF Ownerless
<1> QED BY <1>2, <1>3 DEF Place

LEMMA AddLosesNothing ==
    ASSUME IInv, NEW h \in Handlers, Add(h) PROVE Lost' = Lost
<1>1. TypeOK /\ IndexSound
    BY DEF IInv
<1>2. Lost = Ownerless(blockOf, index) /\ Lost' = Ownerless(blockOf', index')
    BY DEF Lost, Ownerless
<1>3. \A g \in Handlers : Known(g) <=> index[g] # Nil
    BY <1>1, BlockAssumption DEF IndexSound, Known
<1>4. CASE ~Known(h) /\ Place(h, contain, blockOf, index)
    BY <1>1, <1>2, <1>3, <1>4, PlaceLosesNothing DEF TypeOK
<1>5. CASE UNCHANGED <<contain, index, blockOf, cursor, exhausted>>
    BY <1>2, <1>5
<1>6. CASE /\ Known(h)
           /\ Place(h, [contain EXCEPT ![blockOf[index[h]]] = @ \ {h}],
                    [blockOf EXCEPT ![index[h]] = Invalid],
                    [index EXCEPT ![h] = Nil])
    <2> DEFINE list == [blockOf EXCEPT ![index[h]] = Invalid]
               entries == [index EXCEPT ![h] = Nil]
    <2>1. index[h] \in Cells /\ Nil \notin Cells
        BY <1>1, <1>3, <1>6, NilAssumption, ListSizeNat DEF TypeOK, Cells
    <2>2. /\ list \in [Cells -> Blocks \cup {Invalid}]
          /\ entries \in [Handlers -> Cells \cup {Nil}] /\ entries[h] = Nil
        BY <1>1 DEF TypeOK
    <2>3. Ownerless(blockOf', index') = Ownerless(list, entries)
        <3> HIDE DEF list, entries
        <3> QED BY <1>1, <1>6, <2>2, PlaceLosesNothing DEF TypeOK, list, entries
    <2>4. list[index[h]] = Invalid /\ \A c \in Cells : c # index[h] => list[c] = blockOf[c]
        BY <1>1, <2>1 DEF TypeOK
    <2>5. \A g \in Handlers : g # h => entries[g] = index[g]
        BY <1>1 DEF TypeOK
    <2>6. Ownerless(list, entries) = Ownerless(blockOf, index)
        <3> HIDE DEF list, entries
        <3> QED BY <2>1, <2>2, <2>4, <2>5 DEF Ownerless
    <2> QED BY <1>2, <2>3, <2>6
<1> QED BY <1>4, <1>5, <1>6 DEF Add

LEMMA DelLosesNothing ==
    ASSUME IInv, NEW h \in Handlers, Del(h) PROVE Lost' = Lost
<1>1. TypeOK /\ IndexSound /\ Nil \notin Cells
    BY NilAssumption, ListSizeNat DEF IInv, Cells
<1>2. index[h] # Nil => Known(h)
    BY <1>1, BlockAssumption DEF IndexSound, Known
<1>3. index'[h] = Nil /\ \A g \in Handlers : g # h => index'[g] = index[g]
    BY <1>1 DEF Del, TypeOK
<1>4. CASE Known(h)
    <2>1. index[h] \in Cells
        BY <1>1, <1>4 DEF Known, TypeOK
    <2>2. /\ blockOf'[index[h]] = Invalid
          /\ \A c \in Cells : c # index[h] => blockOf'[c] = blockOf[c]
        BY <1>1, <1>4, <2>1 DEF Del, TypeOK
    <2> QED BY <1>1, <1>3, <2>1, <2>2 DEF Lost
<1>5. CASE ~Known(h)
    BY <1>1, <1>2, <1>3, <1>5 DEF Del, Lost
<1> QED BY <1>4, <1>5

\* The cells of the handlers a tick reports.
Reported == {index[h] : h \in {g \in Handlers :
                 current' # current /\ g \in Expiring /\ index[g] # Nil}}

LEMMA TickLosesReported ==
    ASSUME IInv, handle_timeout PROVE Lost' = Lost \cup Reported
<1>1. TypeOK /\ IndexSound /\ Nil \notin Cells
    BY NilAssumption, ListSizeNat DEF IInv, Cells
<1>2. current' # current
    BY <1>1, AgeInjective DEF handle_timeout, Tick, TypeOK
<1>3. /\ blockOf' = blockOf
      /\ \A g \in Handlers : index'[g] = IF g \in Expiring THEN Nil ELSE index[g]
    BY DEF handle_timeout, Tick
<1>4. \A c : c \in Reported <=>
          \E g \in Handlers : g \in Expiring /\ index[g] # Nil /\ index[g] = c
    BY <1>2 DEF Reported
<1>5. ASSUME NEW g \in Handlers, index[g] # Nil
      PROVE  /\ index[g] \in Cells /\ blockOf[index[g]] # Invalid
             /\ \A f \in Handlers : index[f] = index[g] => f = g
    BY <1>1, <1>5, BlockAssumption DEF TypeOK, IndexSound
<1>6. ASSUME NEW c \in Cells PROVE c \in Lost' <=> c \in Lost \/ c \in Reported
    <2>1. c \in Lost' <=> blockOf[c] # Invalid /\ \A g \in Handlers : index'[g] # c
        BY <1>3 DEF Lost
    <2>2. c \in Lost <=> blockOf[c] # Invalid /\ \A g \in Handlers : index[g] # c
        BY DEF Lost
    <2> QED BY <1>1, <1>3, <1>4, <1>5, <2>1, <2>2
<1>7. Lost' \subseteq Cells /\ Lost \subseteq Cells /\ Reported \subseteq Cells
    BY <1>4, <1>5 DEF Lost
<1> QED BY <1>6, <1>7

\* A cell is lost exactly when the connection that has it is reported; adding,
\* moving and removing connections loses none, in whatever order they come.
THEOREM OnlyTimeoutsLose == Spec => LostByTimeouts
<1> DEFINE Grows == Lost' = Lost \cup Reported
<1>1. IInv /\ [Next]_vars => [Grows]_vars
    <2> SUFFICES ASSUME IInv, Next PROVE Grows
        OBVIOUS
    <2>1. ASSUME NEW h \in Handlers, AddConnect(h) \/ SetConnectTimeWheel(h) PROVE Grows
        <3>1. Add(h) /\ current' = current
            BY <2>1 DEF AddConnect, SetConnectTimeWheel, Add
        <3> QED BY <3>1, AddLosesNothing DEF Reported
    <2>2. ASSUME NEW h \in Handlers, Close(h) PROVE Grows
        <3>1. Del(h) /\ current' = current
            BY <2>2 DEF Close, Del
        <3> QED BY <3>1, DelLosesNothing DEF Reported
    <2>3. CASE handle_timeout
        BY <2>3, TickLosesReported
    <2> QED BY <2>1, <2>2, <2>3 DEF Next
<1> QED BY <1>1, AlwaysIInv, PTL DEF Spec, LostByTimeouts, Reported
=============================================================================
