--------------------------- MODULE Selection_proofs ---------------------------
(***************************************************************************)
(* What Picked returns, and how it follows the changes of its sequence:    *)
(* an entry added at the end, an entry taken out.  The provers have no     *)
(* induction over data, so it is drawn here from the fact that a set of    *)
(* natural numbers has a least element.                                    *)
(***************************************************************************)
EXTENDS Selection, SequenceTheorems, NaturalsInduction, WellFoundedInduction, TLAPS

-----------------------------------------------------------------------------
(* Induction. *)

\* A set of natural numbers has a least element.
LEMMA SmallestOf ==
    ASSUME NEW T \in SUBSET Nat, T # {}
    PROVE  \E n \in T : \A m \in T : n <= m
<1> DEFINE R == OpToRel(<, Nat)
<1>1. IsWellFoundedOn(R, Nat)
    BY NatLessThanWellFounded
<1>2. PICK n \in T : \A m \in T : ~ (<<m, n>> \in R)
    <2> HIDE DEF R
    <2> QED BY <1>1, WFMin
<1>3. ASSUME NEW m \in T PROVE n <= m
    <2>1. <<m, n>> \notin R
        BY <1>2
    <2>2. ~ (m < n)
        BY <2>1, m \in Nat, n \in Nat DEF OpToRel
    <2> QED BY <2>2, m \in Nat, n \in Nat
<1> QED BY <1>3

\* A set that holds zero and the successor of each of its numbers holds all.
LEMMA ByInduction ==
    ASSUME NEW T, 0 \in T, \A n \in Nat : n \in T => n + 1 \in T
    PROVE  Nat \subseteq T
<1> SUFFICES ASSUME NEW x \in Nat, x \notin T PROVE FALSE
    OBVIOUS
<1> DEFINE U == Nat \ T
<1>1. PICK n \in U : \A m \in U : n <= m
    <2>1. U \in SUBSET Nat /\ U # {}
        OBVIOUS
    <2> HIDE DEF U
    <2> QED BY <2>1, SmallestOf
<1>2. n # 0
    OBVIOUS
<1>3. n - 1 \in Nat /\ n - 1 \notin U
    BY <1>1, <1>2
<1>4. (n - 1) + 1 \in T
    BY <1>3
<1> QED BY <1>4

\* The properties of Append and of sequence access used below.
LEMMA Appended ==
    ASSUME NEW S, NEW s \in Seq(S), NEW e \in S
    PROVE  /\ Append(s, e) \in Seq(S) /\ Len(Append(s, e)) = Len(s) + 1
           /\ \A i \in 1 .. Len(s) : Append(s, e)[i] = s[i]
           /\ Append(s, e)[Len(s) + 1] = e
BY AppendProperties

\* A set that holds the empty sequence and whatever is made by adding an entry
\* to one of its sequences holds every sequence.
LEMMA BySequence ==
    ASSUME NEW S, NEW T, << >> \in T,
           \A s \in Seq(S), e \in S : s \in T => Append(s, e) \in T
    PROVE  Seq(S) \subseteq T
<1> DEFINE L == {n \in Nat : \A s \in Seq(S) : Len(s) = n => s \in T}
<1>1. 0 \in L
    <2>1. \A s \in Seq(S) : Len(s) = 0 => s = << >>
        OBVIOUS
    <2> QED BY <2>1
<1>2. ASSUME NEW n \in Nat, n \in L PROVE n + 1 \in L
    <2> SUFFICES ASSUME NEW s \in Seq(S), Len(s) = n + 1 PROVE s \in T
        OBVIOUS
    <2>1. PICK t \in Seq(S), e \in S : s = Append(t, e)
        BY SequenceEmptyOrAppend
    <2>2. Len(t) = n
        BY <2>1, Appended
    <2> QED BY <1>2, <2>1, <2>2
<1>3. Nat \subseteq L
    <2> HIDE DEF L
    <2> QED BY <1>1, <1>2, ByInduction
<1> QED BY <1>3

-----------------------------------------------------------------------------
(* The recursion of Picked. *)

\* The equation of the recursive function in Picked.
Counts(f, s, A) ==
    f = [n \in 0 .. Len(s) |->
            IF n = 0 THEN << >>
            ELSE IF s[n] \in A THEN Append(f[n - 1], s[n]) ELSE f[n - 1]]

\* A function that satisfies it exists.
LEMMA CountExists ==
    ASSUME NEW S, NEW s \in Seq(S), NEW A
    PROVE  \E f : Counts(f, s, A)
<1> DEFINE E(f, n) ==
        f = [i \in 0 .. n |->
                IF i = 0 THEN << >>
                ELSE IF s[i] \in A THEN Append(f[i - 1], s[i]) ELSE f[i - 1]]
           T == {n \in Nat : \E f : E(f, n)}
<1>1. 0 \in T
    <2>1. E([i \in 0 .. 0 |-> << >>], 0)
        OBVIOUS
    <2> QED BY <2>1
<1>2. ASSUME NEW n \in Nat, n \in T PROVE n + 1 \in T
    <2>1. PICK f : E(f, n)
        BY <1>2
    <2> DEFINE g == [i \in 0 .. n + 1 |->
                        IF i <= n THEN f[i]
                        ELSE IF s[i] \in A THEN Append(f[i - 1], s[i]) ELSE f[i - 1]]
    <2>2. \A i \in 0 .. n : g[i] = f[i]
        OBVIOUS
    <2>3. ASSUME NEW i \in 0 .. n + 1
          PROVE  g[i] = IF i = 0 THEN << >>
                        ELSE IF s[i] \in A THEN Append(g[i - 1], s[i]) ELSE g[i - 1]
        <3>1. CASE i = 0
            BY <2>1, <2>2, <3>1
        <3>2. CASE i # 0
            <4>1. i - 1 \in 0 .. n /\ g[i - 1] = f[i - 1]
                BY <2>2, <3>2
            <4>2. CASE i <= n
                <5>1. i \in 0 .. n
                    BY <4>2
                <5>2. f[i] = IF s[i] \in A THEN Append(f[i - 1], s[i]) ELSE f[i - 1]
                    BY <2>1, <3>2, <5>1
                <5>3. g[i] = f[i]
                    BY <2>2, <5>1
                <5> HIDE DEF g, E
                <5> QED BY <3>2, <4>1, <5>2, <5>3
            <4>3. CASE ~ (i <= n)
                BY <3>2, <4>1, <4>3
            <4> QED BY <4>2, <4>3
        <3> QED BY <3>1, <3>2
    <2>4. g = [i \in 0 .. n + 1 |-> g[i]]
        OBVIOUS
    <2> HIDE DEF g
    <2> DEFINE d == [i \in 0 .. n + 1 |->
                        IF i = 0 THEN << >>
                        ELSE IF s[i] \in A THEN Append(g[i - 1], s[i]) ELSE g[i - 1]]
    <2>5. \A i \in 0 .. n + 1 : g[i] = d[i]
        BY <2>3
    <2>6. g = d
        <3>1. d = [i \in 0 .. n + 1 |-> d[i]]
            OBVIOUS
        <3> HIDE DEF d
        <3> QED BY <2>4, <2>5, <3>1
    <2>7. E(g, n + 1)
        BY <2>6
    <2> QED BY <2>7
<1>3. Nat \subseteq T
    <2> HIDE DEF T
    <2> QED BY <1>1, <1>2, ByInduction
<1> QED BY <1>3 DEF Counts

\* Picked is the last value of such a function.
LEMMA PickedCounts ==
    ASSUME NEW S, NEW s \in Seq(S), NEW A
    PROVE  \E f : Counts(f, s, A) /\ Picked(s, A) = f[Len(s)]
<1> DEFINE h == CHOOSE f : Counts(f, s, A)
<1>1. Counts(h, s, A)
    BY CountExists
<1>2. Picked(s, A) = h[Len(s)]
    BY DEF Picked, Counts
<1> QED BY <1>1, <1>2

\* Nothing is picked from the empty sequence.
LEMMA PickedEmpty == ASSUME NEW A PROVE Picked(<< >>, A) = << >>
<1>1. << >> \in Seq({}) /\ Len(<< >>) = 0
    OBVIOUS
<1>2. PICK f : Counts(f, << >>, A) /\ Picked(<< >>, A) = f[0]
    BY <1>1, PickedCounts
<1> QED BY <1>1, <1>2 DEF Counts

\* An entry added at the end is picked when it is in the set.
LEMMA PickedAppend ==
    ASSUME NEW S, NEW s \in Seq(S), NEW e \in S, NEW A
    PROVE  Picked(Append(s, e), A) =
               IF e \in A THEN Append(Picked(s, A), e) ELSE Picked(s, A)
<1> DEFINE t == Append(s, e)
<1>1. /\ t \in Seq(S) /\ Len(t) = Len(s) + 1 /\ Len(s) \in Nat
      /\ \A i \in 1 .. Len(s) : t[i] = s[i]
      /\ t[Len(s) + 1] = e
    BY Appended
<1> HIDE DEF t
<1>2. PICK f : Counts(f, s, A) /\ Picked(s, A) = f[Len(s)]
    BY PickedCounts
<1>3. PICK g : Counts(g, t, A) /\ Picked(t, A) = g[Len(t)]
    BY <1>1, PickedCounts
<1> DEFINE U == {n \in Nat : n <= Len(s) => g[n] = f[n]}
<1>4. 0 \in U
    BY <1>1, <1>2, <1>3 DEF Counts
<1>5. ASSUME NEW n \in Nat, n \in U PROVE n + 1 \in U
    <2> SUFFICES ASSUME n + 1 <= Len(s) PROVE g[n + 1] = f[n + 1]
        OBVIOUS
    <2>1. n + 1 \in 0 .. Len(s) /\ n + 1 \in 0 .. Len(t) /\ n + 1 # 0 /\ (n + 1) - 1 = n
          /\ n + 1 \in 1 .. Len(s)
        BY <1>1
    <2>2. f[n + 1] = IF s[n + 1] \in A THEN Append(f[n], s[n + 1]) ELSE f[n]
        BY <1>2, <2>1 DEF Counts
    <2>3. g[n + 1] = IF t[n + 1] \in A THEN Append(g[n], t[n + 1]) ELSE g[n]
        BY <1>3, <2>1 DEF Counts
    <2>4. g[n] = f[n] /\ t[n + 1] = s[n + 1]
        BY <1>1, <1>5, <2>1
    <2> QED BY <2>2, <2>3, <2>4
<1>6. Nat \subseteq U
    <2> HIDE DEF U
    <2> QED BY <1>4, <1>5, ByInduction
<1>7. g[Len(s)] = f[Len(s)]
    BY <1>1, <1>6
<1>8. g[Len(s) + 1] = IF e \in A THEN Append(g[Len(s)], e) ELSE g[Len(s)]
    <2>1. Len(s) + 1 \in 0 .. Len(t) /\ Len(s) + 1 # 0 /\ (Len(s) + 1) - 1 = Len(s)
        BY <1>1
    <2> QED BY <1>1, <1>3, <2>1 DEF Counts
<1>9. Picked(t, A) = g[Len(s) + 1]
    BY <1>1, <1>3
<1> QED BY <1>2, <1>7, <1>8, <1>9 DEF t

-----------------------------------------------------------------------------
(* What is picked. *)

\* The entries picked are entries of the sequence.
LEMMA PickedType ==
    ASSUME NEW S, NEW s \in Seq(S), NEW A
    PROVE  Picked(s, A) \in Seq(S)
<1> DEFINE T == {t \in Seq(S) : Picked(t, A) \in Seq(S)}
<1>1. << >> \in T
    <2>1. << >> \in Seq(S) /\ Picked(<< >>, A) = << >>
        BY PickedEmpty
    <2> QED BY <2>1
<1>2. ASSUME NEW t \in Seq(S), NEW e \in S, t \in T PROVE Append(t, e) \in T
    <2>1. Append(t, e) \in Seq(S)
        BY Appended
    <2>2. Picked(Append(t, e), A) \in Seq(S)
        <3>1. Picked(t, A) \in Seq(S)
            BY <1>2
        <3>2. Append(Picked(t, A), e) \in Seq(S)
            BY <3>1, Appended
        <3> QED BY <3>1, <3>2, PickedAppend
    <2> QED BY <2>1, <2>2
<1>3. Seq(S) \subseteq T
    <2> HIDE DEF T
    <2> QED BY <1>1, <1>2, BySequence
<1> QED BY <1>3

\* x is an entry of s.
Occurs(x, s) == \E i \in 1 .. Len(s) : s[i] = x

LEMMA OccursAppend ==
    ASSUME NEW S, NEW s \in Seq(S), NEW e \in S, NEW x
    PROVE  Occurs(x, Append(s, e)) <=> Occurs(x, s) \/ x = e
<1>1. ASSUME Occurs(x, Append(s, e)) PROVE Occurs(x, s) \/ x = e
    <2>1. PICK i \in 1 .. Len(Append(s, e)) : Append(s, e)[i] = x
        BY <1>1 DEF Occurs
    <2>2. i \in 1 .. Len(s) \/ i = Len(s) + 1
        BY <2>1, Appended
    <2> QED BY <2>1, <2>2, Appended DEF Occurs
<1>2. ASSUME Occurs(x, s) PROVE Occurs(x, Append(s, e))
    <2>1. PICK i \in 1 .. Len(s) : s[i] = x
        BY <1>2 DEF Occurs
    <2>2. i \in 1 .. Len(Append(s, e)) /\ Append(s, e)[i] = x
        BY <2>1, Appended
    <2> QED BY <2>2 DEF Occurs
<1>3. Occurs(e, Append(s, e))
    <2>1. Len(s) + 1 \in 1 .. Len(Append(s, e)) /\ Append(s, e)[Len(s) + 1] = e
        BY Appended
    <2> QED BY <2>1 DEF Occurs
<1> QED BY <1>1, <1>2, <1>3

\* An entry is picked exactly when it is in the set.
LEMMA PickedElements ==
    ASSUME NEW S, NEW s \in Seq(S), NEW A
    PROVE  \A x : Occurs(x, Picked(s, A)) <=> Occurs(x, s) /\ x \in A
<1> DEFINE T == {t \in Seq(S) : \A x : Occurs(x, Picked(t, A)) <=> Occurs(x, t) /\ x \in A}
<1>1. << >> \in T
    <2>1. \A x : ~ Occurs(x, << >>)
        BY DEF Occurs
    <2> QED BY <2>1, PickedEmpty
<1>2. ASSUME NEW t \in Seq(S), NEW e \in S, t \in T PROVE Append(t, e) \in T
    <2>1. Append(t, e) \in Seq(S)
        BY Appended
    <2>2. ASSUME NEW x
          PROVE  Occurs(x, Picked(Append(t, e), A)) <=> Occurs(x, Append(t, e)) /\ x \in A
        <3>1. Occurs(x, Append(t, e)) <=> Occurs(x, t) \/ x = e
            BY OccursAppend
        <3>2. Occurs(x, Picked(t, A)) <=> Occurs(x, t) /\ x \in A
            BY <1>2
        <3>3. Occurs(x, Append(Picked(t, A), e)) <=> Occurs(x, Picked(t, A)) \/ x = e
            BY PickedType, OccursAppend
        <3>4. CASE e \in A
            <4>1. Picked(Append(t, e), A) = Append(Picked(t, A), e)
                BY <3>4, PickedAppend
            <4> QED BY <3>1, <3>2, <3>3, <3>4, <4>1
        <3>5. CASE e \notin A
            <4>1. Picked(Append(t, e), A) = Picked(t, A)
                BY <3>5, PickedAppend
            <4> QED BY <3>1, <3>2, <3>5, <4>1
        <3> QED BY <3>4, <3>5
    <2> QED BY <2>1, <2>2
<1>3. Seq(S) \subseteq T
    <2> HIDE DEF T
    <2> QED BY <1>1, <1>2, BySequence
<1> QED BY <1>3

\* Nothing is picked when no entry is in the set, and only then.
LEMMA PickedNothing ==
    ASSUME NEW S, NEW s \in Seq(S), NEW A
    PROVE  Picked(s, A) = << >> <=> \A i \in 1 .. Len(s) : s[i] \notin A
<1>1. Picked(s, A) \in Seq(S)
    BY PickedType
<1>2. ASSUME Picked(s, A) = << >>, NEW i \in 1 .. Len(s), s[i] \in A PROVE FALSE
    <2>1. Occurs(s[i], s)
        BY DEF Occurs
    <2>2. Occurs(s[i], << >>)
        BY <1>2, <2>1, PickedElements
    <2> QED BY <2>2 DEF Occurs
<1>3. ASSUME Picked(s, A) # << >>, \A i \in 1 .. Len(s) : s[i] \notin A PROVE FALSE
    <2>1. 1 \in 1 .. Len(Picked(s, A))
        BY <1>1, <1>3
    <2>2. Occurs(Picked(s, A)[1], Picked(s, A))
        BY <2>1 DEF Occurs
    <2>3. Occurs(Picked(s, A)[1], s) /\ Picked(s, A)[1] \in A
        BY <2>2, PickedElements
    <2> QED BY <1>3, <2>3 DEF Occurs
<1> QED BY <1>2, <1>3

\* Only the entries of the sequence count in the set.
LEMMA PickedSame ==
    ASSUME NEW S, NEW s \in Seq(S), NEW A, NEW B,
           \A i \in 1 .. Len(s) : s[i] \in A <=> s[i] \in B
    PROVE  Picked(s, A) = Picked(s, B)
<1> DEFINE Agree(t) == \A i \in 1 .. Len(t) : t[i] \in A <=> t[i] \in B
           T == {t \in Seq(S) : Agree(t) => Picked(t, A) = Picked(t, B)}
<1>1. << >> \in T
    BY PickedEmpty
<1>2. ASSUME NEW t \in Seq(S), NEW e \in S, t \in T PROVE Append(t, e) \in T
    <2>1. Append(t, e) \in Seq(S)
        BY Appended
    <2>2. ASSUME Agree(Append(t, e)) PROVE Picked(Append(t, e), A) = Picked(Append(t, e), B)
        <3>1. ASSUME NEW i \in 1 .. Len(t) PROVE t[i] \in A <=> t[i] \in B
            <4>1. i \in 1 .. Len(Append(t, e)) /\ Append(t, e)[i] = t[i]
                BY Appended
            <4> QED BY <2>2, <4>1
        <3>2. e \in A <=> e \in B
            <4>1. Len(t) + 1 \in 1 .. Len(Append(t, e)) /\ Append(t, e)[Len(t) + 1] = e
                BY Appended
            <4> QED BY <2>2, <4>1
        <3>3. Picked(t, A) = Picked(t, B)
            <4>1. Agree(t) => Picked(t, A) = Picked(t, B)
                BY <1>2
            <4> QED BY <3>1, <4>1
        <3>4. Picked(Append(t, e), A) = IF e \in A THEN Append(Picked(t, A), e) ELSE Picked(t, A)
            BY PickedAppend
        <3>5. Picked(Append(t, e), B) = IF e \in B THEN Append(Picked(t, B), e) ELSE Picked(t, B)
            BY PickedAppend
        <3> QED BY <3>2, <3>3, <3>4, <3>5
    <2> HIDE DEF Agree
    <2> QED BY <2>1, <2>2
<1>3. Seq(S) \subseteq T
    <2> HIDE DEF T
    <2> QED BY <1>1, <1>2, BySequence
<1> QED BY <1>3

\* What is picked from two sequences in a row.
LEMMA PickedConcat ==
    ASSUME NEW S, NEW s \in Seq(S), NEW u \in Seq(S), NEW A
    PROVE  Picked(s \o u, A) = Picked(s, A) \o Picked(u, A)
<1> DEFINE T == {t \in Seq(S) : Picked(s \o t, A) = Picked(s, A) \o Picked(t, A)}
<1>1. << >> \in T
    <2>1. s \o << >> = s /\ Picked(s, A) \o << >> = Picked(s, A)
        BY PickedType, ConcatEmptySeq
    <2>2. Picked(<< >>, A) = << >> /\ << >> \in Seq(S)
        BY PickedEmpty
    <2>3. Picked(s \o << >>, A) = Picked(s, A) \o Picked(<< >>, A)
        BY <2>1, <2>2
    <2> QED BY <2>2, <2>3
<1>2. ASSUME NEW t \in Seq(S), NEW e \in S, t \in T PROVE Append(t, e) \in T
    <2>1. Append(t, e) \in Seq(S) /\ <<e>> \in Seq(S) /\ s \o t \in Seq(S)
        BY Appended
    <2>2. s \o Append(t, e) = Append(s \o t, e)
        <3>1. Append(t, e) = t \o <<e>> /\ Append(s \o t, e) = (s \o t) \o <<e>>
            BY <2>1, AppendIsConcat
        <3> QED BY <2>1, <3>1, ConcatAssociative
    <2>3. Picked(s, A) \in Seq(S) /\ Picked(t, A) \in Seq(S)
        BY PickedType
    <2>4. Picked(s, A) \o Append(Picked(t, A), e) = Append(Picked(s, A) \o Picked(t, A), e)
        <3>1. Picked(s, A) \o Picked(t, A) \in Seq(S)
            BY <2>3
        <3>2. /\ Append(Picked(t, A), e) = Picked(t, A) \o <<e>>
              /\ Append(Picked(s, A) \o Picked(t, A), e) = (Picked(s, A) \o Picked(t, A)) \o <<e>>
            BY <2>3, <3>1, AppendIsConcat
        <3> QED BY <2>1, <2>3, <3>2, ConcatAssociative
    <2>5. /\ Picked(Append(s \o t, e), A) =
                 IF e \in A THEN Append(Picked(s \o t, A), e) ELSE Picked(s \o t, A)
          /\ Picked(Append(t, e), A) =
                 IF e \in A THEN Append(Picked(t, A), e) ELSE Picked(t, A)
        BY <2>1, PickedAppend
    <2>6. Picked(s \o t, A) = Picked(s, A) \o Picked(t, A)
        BY <1>2
    <2>7. Picked(s \o Append(t, e), A) = Picked(s, A) \o Picked(Append(t, e), A)
        BY <2>2, <2>4, <2>5, <2>6
    <2> QED BY <2>1, <2>7
<1>3. Seq(S) \subseteq T
    <2> HIDE DEF T
    <2> QED BY <1>1, <1>2, BySequence
<1> QED BY <1>3

\* No entry occurs twice.
Distinct(s) == \A i, j \in 1 .. Len(s) : s[i] = s[j] => i = j

\* What is picked from a sequence without repetition has none.
LEMMA PickedDistinct ==
    ASSUME NEW S, NEW s \in Seq(S), NEW A, Distinct(s)
    PROVE  Distinct(Picked(s, A))
<1> DEFINE T == {t \in Seq(S) : Distinct(t) => Distinct(Picked(t, A))}
<1>1. << >> \in T
    BY PickedEmpty DEF Distinct
<1>2. ASSUME NEW t \in Seq(S), NEW e \in S, t \in T PROVE Append(t, e) \in T
    <2>1. Append(t, e) \in Seq(S)
        BY Appended
    <2>2. ASSUME Distinct(Append(t, e)) PROVE Distinct(Picked(Append(t, e), A))
        <3>1. Distinct(t) /\ ~ Occurs(e, t)
            <4>1. \A i \in 1 .. Len(t) : i \in 1 .. Len(Append(t, e)) /\ i # Len(t) + 1
                BY Appended
            <4>2. Len(t) + 1 \in 1 .. Len(Append(t, e))
                BY Appended
            <4> QED BY <2>2, <4>1, <4>2, Appended DEF Distinct, Occurs
        <3>2. Distinct(Picked(t, A))
            BY <1>2, <3>1
        <3>3. CASE e \notin A
            BY <3>2, <3>3, PickedAppend
        <3>4. CASE e \in A
            <4> DEFINE p == Picked(t, A)
            <4>1. p \in Seq(S) /\ ~ Occurs(e, p)
                BY <3>1, PickedType, PickedElements
            <4>2. Picked(Append(t, e), A) = Append(p, e)
                BY <3>4, PickedAppend
            <4>3. Distinct(p)
                BY <3>2
            <4> HIDE DEF p
            <4>4. Distinct(Append(p, e))
                <5> SUFFICES ASSUME NEW i \in 1 .. Len(Append(p, e)),
                                    NEW j \in 1 .. Len(Append(p, e)),
                                    Append(p, e)[i] = Append(p, e)[j]
                             PROVE  i = j
                    BY DEF Distinct
                <5>1. /\ i \in 1 .. Len(p) \/ i = Len(p) + 1
                      /\ j \in 1 .. Len(p) \/ j = Len(p) + 1
                    BY <4>1, Appended
                <5>2. /\ \A k \in 1 .. Len(p) : Append(p, e)[k] = p[k] /\ p[k] # e
                      /\ Append(p, e)[Len(p) + 1] = e
                    BY <4>1, Appended DEF Occurs
                <5> QED BY <4>3, <5>1, <5>2 DEF Distinct
            <4> QED BY <4>2, <4>4
        <3> QED BY <3>3, <3>4
    <2> QED BY <2>1, <2>2
<1>3. Seq(S) \subseteq T
    <2> HIDE DEF T
    <2> QED BY <1>1, <1>2, BySequence
<1> QED BY <1>3

-----------------------------------------------------------------------------
(* An entry taken out. *)

\* A sequence falls into what stands before an entry, the entry, and the rest.
LEMMA ErasedParts ==
    ASSUME NEW S, NEW s \in Seq(S), NEW i \in 1 .. Len(s)
    PROVE  /\ SubSeq(s, 1, i - 1) \in Seq(S) /\ Len(SubSeq(s, 1, i - 1)) = i - 1
           /\ SubSeq(s, i + 1, Len(s)) \in Seq(S)
           /\ Len(SubSeq(s, i + 1, Len(s))) = Len(s) - i
           /\ s = (SubSeq(s, 1, i - 1) \o <<s[i]>>) \o SubSeq(s, i + 1, Len(s))
<1>1. i \in Int /\ i - 1 \in Int /\ i + 1 \in Int /\ Len(s) \in Int /\ 1 \in Int
    OBVIOUS
<1>2. /\ \A j \in 1 .. i - 1 : s[j] \in S
      /\ \A j \in i + 1 .. Len(s) : s[j] \in S
    BY ElementOfSeq
<1>3. SubSeq(s, 1, i - 1) \in Seq(S) /\ Len(SubSeq(s, 1, i - 1)) = i - 1
    <2>1. Len(SubSeq(s, 1, i - 1)) = IF 1 <= i - 1 THEN i - 1 - 1 + 1 ELSE 0
        BY <1>1, <1>2, SubSeqProperties
    <2>2. SubSeq(s, 1, i - 1) \in Seq(S)
        BY <1>1, <1>2, SubSeqProperties
    <2> QED BY <2>1, <2>2
<1>4. SubSeq(s, i + 1, Len(s)) \in Seq(S) /\ Len(SubSeq(s, i + 1, Len(s))) = Len(s) - i
    <2>1. Len(SubSeq(s, i + 1, Len(s))) =
              IF i + 1 <= Len(s) THEN Len(s) - (i + 1) + 1 ELSE 0
        BY <1>1, <1>2, SubSeqProperties
    <2>2. SubSeq(s, i + 1, Len(s)) \in Seq(S)
        BY <1>1, <1>2, SubSeqProperties
    <2> QED BY <2>1, <2>2
<1>5. SubSeq(s, 1, i) = SubSeq(s, 1, i - 1) \o <<s[i]>>
    <2>1. 1 \in 1 .. Len(s) /\ i \in 1 .. Len(s)
        OBVIOUS
    <2> QED BY <2>1, SubSeqRecursiveSecond
<1>6. s = SubSeq(s, 1, i) \o SubSeq(s, i + 1, Len(s))
    <2>1. 1 \in 1 .. Len(s) + 1 /\ i \in 1 - 1 .. Len(s) /\ Len(s) \in i .. Len(s)
        OBVIOUS
    <2>2. SubSeq(s, 1, i) \o SubSeq(s, i + 1, Len(s)) = SubSeq(s, 1, Len(s))
        BY <2>1, ConcatAdjacentSubSeq
    <2> QED BY <2>2, SubSeqFull
<1> QED BY <1>3, <1>4, <1>5, <1>6

\* The entries that are left, in their order.
LEMMA ErasedEntries ==
    ASSUME NEW S, NEW s \in Seq(S), NEW i \in 1 .. Len(s)
    PROVE  /\ Erased(s, i) \in Seq(S) /\ Len(Erased(s, i)) = Len(s) - 1
           /\ \A j \in 1 .. Len(s) - 1 :
                  Erased(s, i)[j] = IF j < i THEN s[j] ELSE s[j + 1]
<1> DEFINE p == SubSeq(s, 1, i - 1)
           u == SubSeq(s, i + 1, Len(s))
<1>1. /\ p \in Seq(S) /\ Len(p) = i - 1 /\ u \in Seq(S) /\ Len(u) = Len(s) - i
    BY ErasedParts
<1>2. \A j \in 1 .. i - 1 : p[j] = s[j]
    <2>1. i - 1 \in Int /\ 1 \in Int /\ \A j \in 1 .. i - 1 : s[j] \in S
        BY ElementOfSeq
    <2>2. \A j \in 1 .. (i - 1) - 1 + 1 : p[j] = s[1 + j - 1]
        BY <2>1, SubSeqProperties
    <2>3. \A j \in 1 .. i - 1 : j \in 1 .. (i - 1) - 1 + 1 /\ 1 + j - 1 = j
        OBVIOUS
    <2> HIDE DEF p
    <2> QED BY <2>2, <2>3
<1>3. \A j \in 1 .. Len(s) - i : u[j] = s[i + j]
    <2>1. i + 1 \in Int /\ Len(s) \in Int /\ \A j \in i + 1 .. Len(s) : s[j] \in S
        BY ElementOfSeq
    <2>2. \A j \in 1 .. Len(s) - (i + 1) + 1 : u[j] = s[(i + 1) + j - 1]
        BY <2>1, SubSeqProperties
    <2>3. \A j \in 1 .. Len(s) - i :
              j \in 1 .. Len(s) - (i + 1) + 1 /\ (i + 1) + j - 1 = i + j
        OBVIOUS
    <2> HIDE DEF u
    <2> QED BY <2>2, <2>3
<1>4. Erased(s, i) = p \o u
    BY DEF Erased
<1> HIDE DEF p, u
<1>5. /\ p \o u \in Seq(S) /\ Len(p \o u) = Len(p) + Len(u)
      /\ \A j \in 1 .. Len(p) + Len(u) :
             (p \o u)[j] = IF j <= Len(p) THEN p[j] ELSE u[j - Len(p)]
    BY <1>1, ConcatProperties
<1>6. ASSUME NEW j \in 1 .. Len(s) - 1
      PROVE  Erased(s, i)[j] = IF j < i THEN s[j] ELSE s[j + 1]
    <2>1. Len(s) \in Nat /\ j \in 1 .. Len(p) + Len(u)
        BY <1>1
    <2>2. CASE j < i
        <3>1. j <= Len(p) /\ j \in 1 .. i - 1
            BY <1>1, <2>2
        <3> QED BY <1>2, <1>4, <1>5, <2>1, <2>2, <3>1
    <2>3. CASE ~ (j < i)
        <3>1. ~ (j <= Len(p)) /\ j - Len(p) \in 1 .. Len(s) - i /\ i + (j - Len(p)) = j + 1
            BY <1>1, <2>1, <2>3
        <3>2. u[j - Len(p)] = s[j + 1]
            BY <1>3, <3>1
        <3> QED BY <1>4, <1>5, <2>1, <2>3, <3>1, <3>2
    <2> QED BY <2>2, <2>3
<1> QED BY <1>1, <1>4, <1>5, <1>6

LEMMA PickedOne ==
    ASSUME NEW e, NEW A PROVE Picked(<<e>>, A) = IF e \in A THEN <<e>> ELSE << >>
<1>1. << >> \in Seq({e}) /\ Append(<< >>, e) = <<e>>
    OBVIOUS
<1>2. \A s \in Seq({e}) :
          Picked(Append(s, e), A) = IF e \in A THEN Append(Picked(s, A), e) ELSE Picked(s, A)
    BY PickedAppend
<1>3. Picked(Append(<< >>, e), A) = IF e \in A THEN Append(<< >>, e) ELSE << >>
    BY <1>1, <1>2, PickedEmpty
<1> QED BY <1>1, <1>3

\* Taking out an entry that is not in the set changes nothing.
LEMMA PickedErased ==
    ASSUME NEW S, NEW s \in Seq(S), NEW i \in 1 .. Len(s), NEW A, s[i] \notin A
    PROVE  Picked(Erased(s, i), A) = Picked(s, A)
<1> DEFINE p == SubSeq(s, 1, i - 1)
           u == SubSeq(s, i + 1, Len(s))
<1> DEFINE o == <<s[i]>>
<1>1. p \in Seq(S) /\ u \in Seq(S)
    BY ErasedParts
<1> DEFINE q == p \o o
<1>2. s = q \o u /\ Erased(s, i) = p \o u
    BY ErasedParts DEF Erased
<1>3. o \in Seq(S)
    BY ElementOfSeq
<1> HIDE DEF p, u, o, q
<1>4. q \in Seq(S)
    BY <1>1, <1>3, ConcatProperties DEF q
<1>5. Picked(q, A) = Picked(p, A) \o Picked(o, A)
    BY <1>1, <1>3, PickedConcat DEF q
<1>6. Picked(o, A) = << >>
    BY PickedOne DEF o
<1>7. Picked(p, A) \o << >> = Picked(p, A)
    BY <1>1, PickedType, ConcatEmptySeq
<1>8. Picked(p \o u, A) = Picked(p, A) \o Picked(u, A)
    BY <1>1, PickedConcat
<1>9. Picked(s, A) = Picked(q, A) \o Picked(u, A)
    BY <1>1, <1>2, <1>4, PickedConcat
<1> QED BY <1>2, <1>5, <1>6, <1>7, <1>8, <1>9

\* Taking out the first entry that is in the set takes away the first one
\* picked.
LEMMA PickedFirst ==
    ASSUME NEW S, NEW s \in Seq(S), NEW i \in 1 .. Len(s), NEW A, s[i] \in A,
           \A j \in 1 .. i - 1 : s[j] \notin A
    PROVE  /\ Picked(s, A) # << >> /\ Picked(s, A)[1] = s[i]
           /\ Picked(Erased(s, i), A) = Tail(Picked(s, A))
<1> DEFINE p == SubSeq(s, 1, i - 1)
           u == SubSeq(s, i + 1, Len(s))
           o == <<s[i]>>
<1>1. p \in Seq(S) /\ u \in Seq(S) /\ Len(p) = i - 1
    BY ErasedParts
<1> DEFINE q == p \o o
<1>2. s = q \o u /\ Erased(s, i) = p \o u
    BY ErasedParts DEF Erased
<1>3. Picked(p, A) = << >>
    <2>1. \A j \in 1 .. i - 1 : p[j] = s[j]
        <3>1. i - 1 \in Int /\ 1 \in Int /\ \A j \in 1 .. i - 1 : s[j] \in S
            BY ElementOfSeq
        <3>2. \A j \in 1 .. (i - 1) - 1 + 1 : p[j] = s[1 + j - 1]
            BY <3>1, SubSeqProperties
        <3>3. \A j \in 1 .. i - 1 : j \in 1 .. (i - 1) - 1 + 1 /\ 1 + j - 1 = j
            OBVIOUS
        <3> HIDE DEF p
        <3> QED BY <3>2, <3>3
    <2> HIDE DEF p
    <2>2. \A j \in 1 .. Len(p) : p[j] \notin A
        BY <1>1, <2>1
    <2> QED BY <1>1, <2>2, PickedNothing
<1>4. o \in Seq(S) /\ s[i] \in S
    BY ElementOfSeq
<1>5. Picked(o, A) = o
    BY PickedOne
<1> HIDE DEF p, u, o, q
<1>6. Picked(s, A) = (Picked(p, A) \o Picked(o, A)) \o Picked(u, A)
    <2>1. q \in Seq(S)
        BY <1>1, <1>4, ConcatProperties DEF q
    <2>2. Picked(q, A) = Picked(p, A) \o Picked(o, A)
        BY <1>1, <1>4, PickedConcat DEF q
    <2>3. Picked(s, A) = Picked(q, A) \o Picked(u, A)
        BY <1>1, <1>2, <2>1, PickedConcat
    <2> QED BY <2>2, <2>3
<1>7. << >> \o o = o
    BY <1>4, ConcatEmptySeq
<1>8. Picked(u, A) \in Seq(S)
    BY <1>1, PickedType
<1>9. Picked(s, A) = <<s[i]>> \o Picked(u, A)
    BY <1>3, <1>5, <1>6, <1>7 DEF o
<1>10. Picked(p \o u, A) = Picked(u, A)
    <2>1. Picked(p \o u, A) = Picked(p, A) \o Picked(u, A)
        BY <1>1, PickedConcat
    <2>2. << >> \o Picked(u, A) = Picked(u, A)
        BY <1>8, ConcatEmptySeq
    <2> QED BY <1>3, <2>1, <2>2
<1>11. ASSUME NEW v \in Seq(S), NEW e \in S
       PROVE  <<e>> \o v # << >> /\ (<<e>> \o v)[1] = e /\ Tail(<<e>> \o v) = v
    <2> DEFINE w == <<e>> \o v
    <2>1. <<e>> \in Seq(S) /\ Len(<<e>>) = 1 /\ <<e>>[1] = e
        OBVIOUS
    <2>2. /\ w \in Seq(S) /\ Len(w) = 1 + Len(v)
          /\ \A j \in 1 .. 1 + Len(v) : w[j] = IF j <= 1 THEN <<e>>[j] ELSE v[j - 1]
        BY <2>1, ConcatProperties
    <2> HIDE DEF w
    <2>3. Len(v) \in Nat
        OBVIOUS
    <2>4. 1 \in 1 .. 1 + Len(v)
        BY <2>3
    <2>5. w # << >> /\ w[1] = e
        BY <2>1, <2>2, <2>3, <2>4
    <2>6. /\ Tail(w) \in Seq(S) /\ Len(Tail(w)) = Len(w) - 1
          /\ \A j \in 1 .. Len(Tail(w)) : Tail(w)[j] = w[j + 1]
        BY <2>2, <2>5, HeadTailProperties
    <2>7. Len(Tail(w)) = Len(v)
        BY <2>2, <2>3, <2>6
    <2>8. ASSUME NEW j \in 1 .. Len(v) PROVE Tail(w)[j] = v[j]
        <3>1. j + 1 \in 1 .. 1 + Len(v) /\ ~ (j + 1 <= 1) /\ (j + 1) - 1 = j
            BY <2>3
        <3> QED BY <2>2, <2>6, <2>7, <3>1
    <2>9. Tail(w) = v
        BY <2>6, <2>7, <2>8, SeqEqual
    <2> QED BY <2>5, <2>9 DEF w
<1> QED BY <1>2, <1>4, <1>8, <1>9, <1>10, <1>11

\* Where the first one picked stands.
LEMMA PickedHead ==
    ASSUME NEW S, NEW s \in Seq(S), NEW A, Picked(s, A) # << >>
    PROVE  \E i \in 1 .. Len(s) : /\ s[i] \in A /\ \A j \in 1 .. i - 1 : s[j] \notin A
                                  /\ s[i] = Picked(s, A)[1]
<1> DEFINE T == {i \in 1 .. Len(s) : s[i] \in A}
<1>1. T \in SUBSET Nat /\ T # {}
    BY PickedNothing
<1>2. PICK i \in T : \A j \in T : i <= j
    <2> HIDE DEF T
    <2> QED BY <1>1, SmallestOf
<1>3. \A j \in 1 .. i - 1 : s[j] \notin A
    <2> SUFFICES ASSUME NEW j \in 1 .. i - 1, s[j] \in A PROVE FALSE
        OBVIOUS
    <2>1. j \in T /\ ~ (i <= j)
        OBVIOUS
    <2> HIDE DEF T
    <2> QED BY <1>2, <2>1
<1>4. i \in 1 .. Len(s) /\ s[i] \in A
    OBVIOUS
<1> QED BY <1>3, <1>4, PickedFirst
==============================================================================
