----------------------- MODULE TrustNewsContract_proofs -----------------------
(***************************************************************************)
(* Proofs about the contract, for any number of accounts, categories,      *)
(* documents and posts.                                                    *)
(***************************************************************************)
EXTENDS TrustNewsContract, DataTheorems

-----------------------------------------------------------------------------
(* Entries of a list, and the loops over the lists of the registry. *)

\* The places of x in the list s.
Places(s, x) == {i \in DOMAIN s : s[i] = x}

\* Counting the places of x in a list: a finite number, none when the list
\* lacks x.
LEMMA PlacesAreFinite ==
  ASSUME NEW E, NEW s \in Seq(E), NEW x
  PROVE  /\ IsFiniteSet(Places(s, x)) /\ Occurrences(s, x) = Cardinality(Places(s, x))
         /\ Occurrences(s, x) \in Nat
         /\ Occurrences(s, x) = 0 <=> \A i \in DOMAIN s : s[i] # x
<1>1. IsFiniteSet(1..Len(s))
  <2>1. Len(s) \in Int /\ 1 \in Int
    OBVIOUS
  <2> QED BY <2>1, FS_Interval
<1>2. Places(s, x) \in SUBSET (1..Len(s))
  BY DEF Places
<1>3. IsFiniteSet(Places(s, x))
  BY <1>1, <1>2, FS_Subset
<1>4. Occurrences(s, x) = Cardinality(Places(s, x))
  BY DEF Occurrences, Places
<1>5. Cardinality(Places(s, x)) \in Nat /\ (Cardinality(Places(s, x)) = 0 <=> Places(s, x) = {})
  BY <1>3, FS_CardinalityType, FS_EmptySet
<1>6. Places(s, x) = {} <=> \A i \in DOMAIN s : s[i] # x
  BY DEF Places
<1> QED BY <1>3, <1>4, <1>5, <1>6

\* Moving places to the right does not change their number.
LEMMA ShiftedPlaces ==
  ASSUME NEW S \in SUBSET Nat, IsFiniteSet(S), NEW n \in Nat
  PROVE  /\ IsFiniteSet({n + i : i \in S})
         /\ Cardinality({n + i : i \in S}) = Cardinality(S)
<1> DEFINE T == {n + i : i \in S}
           f == [i \in S |-> n + i]
<1>1. f \in Surjection(S, T)
  BY DEF Surjection
<1>2. f \in Injection(S, T)
  <2>1. \A i, j \in S : n + i = n + j => i = j
    OBVIOUS
  <2>2. f \in [S -> T] /\ DOMAIN f = S
    OBVIOUS
  <2> QED BY <2>1, <2>2 DEF Injection, IsInjective
<1> HIDE DEF T, f
<1> QED BY <1>1, <1>2, FS_Surjection DEF T

\* The entries of a concatenation are those of its parts.
LEMMA OccurrencesOfConcat ==
  ASSUME NEW E, NEW s \in Seq(E), NEW t \in Seq(E), NEW x
  PROVE  /\ s \o t \in Seq(E)
         /\ Occurrences(s \o t, x) = Occurrences(s, x) + Occurrences(t, x)
<1> DEFINE P == Places(s, x)
           Q == Places(t, x)
           S == {Len(s) + i : i \in Q}
<1>1. /\ Len(s) \in Nat /\ Len(t) \in Nat /\ DOMAIN s = 1..Len(s) /\ DOMAIN t = 1..Len(t)
      /\ s \o t \in Seq(E) /\ DOMAIN (s \o t) = 1..(Len(s) + Len(t))
      /\ \A i \in 1..(Len(s) + Len(t)) :
           (s \o t)[i] = IF i <= Len(s) THEN s[i] ELSE t[i - Len(s)]
  OBVIOUS
<1>2. IsFiniteSet(P) /\ IsFiniteSet(Q) /\ Q \in SUBSET Nat
  <2>1. Q \in SUBSET Nat
    BY <1>1 DEF Places
  <2> QED BY <2>1, PlacesAreFinite
<1>3. IsFiniteSet(S) /\ Cardinality(S) = Cardinality(Q)
  BY <1>1, <1>2, ShiftedPlaces
<1>4. P \cap S = {}
  BY <1>1 DEF Places
<1>5. Places(s \o t, x) = P \cup S
  <2>1. \A i \in Places(s \o t, x) : i \in P \cup S
    <3> SUFFICES ASSUME NEW i \in Places(s \o t, x), i \notin P PROVE i \in S
      OBVIOUS
    <3>1. i \in 1..(Len(s) + Len(t)) /\ (s \o t)[i] = x
      BY <1>1 DEF Places
    <3>2. ~ i <= Len(s)
      BY <1>1, <3>1 DEF Places
    <3>3. i - Len(s) \in 1..Len(t) /\ t[i - Len(s)] = x /\ i = Len(s) + (i - Len(s))
      BY <1>1, <3>1, <3>2
    <3>4. i - Len(s) \in Q
      BY <1>1, <3>3 DEF Places
    <3> HIDE DEF Q
    <3> QED BY <3>3, <3>4
  <2>2. \A i \in P : i \in Places(s \o t, x)
    BY <1>1 DEF Places
  <2>3. \A i \in Q : Len(s) + i \in Places(s \o t, x)
    <3> SUFFICES ASSUME NEW i \in Q PROVE Len(s) + i \in Places(s \o t, x)
      OBVIOUS
    <3>1. i \in 1..Len(t) /\ t[i] = x
      BY <1>1 DEF Places
    <3>2. /\ Len(s) + i \in 1..(Len(s) + Len(t)) /\ ~ Len(s) + i <= Len(s)
          /\ (Len(s) + i) - Len(s) = i
      BY <1>1, <3>1
    <3>3. (s \o t)[Len(s) + i] = x
      BY <1>1, <3>1, <3>2
    <3> QED BY <1>1, <3>2, <3>3 DEF Places
  <2> HIDE DEF P, Q
  <2> QED BY <2>1, <2>2, <2>3
<1>6. Cardinality(P \cup S) = Cardinality(P) + Cardinality(S)
  <2>1. Cardinality(P \cap S) = 0 /\ Cardinality(P) \in Nat /\ Cardinality(S) \in Nat
    BY <1>2, <1>3, <1>4, FS_EmptySet, FS_CardinalityType
  <2>2. Cardinality(P \cup S) = Cardinality(P) + Cardinality(S) - Cardinality(P \cap S)
    <3> HIDE DEF P, S
    <3> QED BY <1>2, <1>3, FS_Union
  <2> HIDE DEF P, S
  <2> QED BY <2>1, <2>2
<1>7. /\ Occurrences(s, x) = Cardinality(P) /\ Occurrences(t, x) = Cardinality(Q)
      /\ Occurrences(s \o t, x) = Cardinality(Places(s \o t, x))
  BY <1>1, PlacesAreFinite
<1> HIDE DEF P, Q, S
<1> QED BY <1>1, <1>3, <1>5, <1>6, <1>7

\* What the pushes of one address add to a category list.
Repeated(y, n) == [k \in 1..n |-> y]

\* n pushes of one address.
LEMMA OccurrencesOfRepeated ==
  ASSUME NEW E, NEW n \in Nat, NEW y \in E, NEW x
  PROVE  /\ Repeated(y, n) \in Seq(E)
         /\ Occurrences(Repeated(y, n), x) = IF x = y THEN n ELSE 0
<1> DEFINE s == [k \in 1..n |-> y]
<1>0. Repeated(y, n) = s
  BY DEF Repeated
<1>1. s \in Seq(E) /\ DOMAIN s = 1..n
  OBVIOUS
<1>2. CASE x = y
  <2>1. Places(s, x) = 1..n
    BY <1>2 DEF Places
  <2>2. Cardinality(1..n) = n
    <3>1. 1 \in Int /\ n \in Int
      OBVIOUS
    <3>2. Cardinality(1..n) = IF 1 > n THEN 0 ELSE n - 1 + 1
      BY <3>1, FS_Interval
    <3> QED BY <3>2
  <2> HIDE DEF s
  <2>3. Occurrences(s, x) = n
    BY <1>1, <2>1, <2>2, PlacesAreFinite
  <2> QED BY <1>0, <1>1, <1>2, <2>3
<1>3. CASE x # y
  <2>1. \A i \in DOMAIN s : s[i] # x
    BY <1>3
  <2> HIDE DEF s
  <2>2. Occurrences(s, x) = 0
    BY <1>1, <2>1, PlacesAreFinite
  <2> QED BY <1>0, <1>1, <1>3, <2>2
<1> QED BY <1>2, <1>3

\* list[j] = v
Replaced(s, j, v) == [s EXCEPT ![j] = v]

\* Overwriting one entry.
LEMMA OccurrencesOfReplaced ==
  ASSUME NEW E, NEW s \in Seq(E), NEW j \in DOMAIN s, NEW v \in E, NEW x
  PROVE  Occurrences(Replaced(s, j, v), x)
           = (Occurrences(s, x) - (IF s[j] = x THEN 1 ELSE 0)) + (IF v = x THEN 1 ELSE 0)
<1>1. PICK r : r = Replaced(s, j, v)
  OBVIOUS
<1>2. r \in Seq(E) /\ DOMAIN r = DOMAIN s /\ \A i \in DOMAIN s : r[i] = IF i = j THEN v ELSE s[i]
  BY <1>1 DEF Replaced
<1>3. /\ IsFiniteSet(Places(s, x)) /\ Cardinality(Places(s, x)) \in Nat
      /\ Occurrences(s, x) = Cardinality(Places(s, x))
      /\ Occurrences(r, x) = Cardinality(Places(r, x))
  <2>1. IsFiniteSet(Places(s, x)) /\ Occurrences(s, x) = Cardinality(Places(s, x))
    BY PlacesAreFinite
  <2>2. Occurrences(r, x) = Cardinality(Places(r, x))
    BY <1>2, PlacesAreFinite
  <2> QED BY <2>1, <2>2, FS_CardinalityType
<1>4. j \in Places(s, x) <=> s[j] = x
  BY DEF Places
<1>5. CASE v = x
  <2>1. Places(r, x) = Places(s, x) \cup {j}
    BY <1>2, <1>5 DEF Places
  <2>2. Cardinality(Places(r, x)) =
          IF j \in Places(s, x) THEN Cardinality(Places(s, x)) ELSE Cardinality(Places(s, x)) + 1
    <3> DEFINE P == Places(s, x)
    <3>1. IsFiniteSet(P)
      BY <1>3
    <3> HIDE DEF P
    <3>2. Cardinality(P \cup {j}) = IF j \in P THEN Cardinality(P) ELSE Cardinality(P) + 1
      BY <3>1, FS_AddElement
    <3> QED BY <2>1, <3>2 DEF P
  <2> QED BY <1>1, <1>2, <1>3, <1>4, <1>5, <2>2
<1>6. CASE v # x
  <2>1. Places(r, x) = Places(s, x) \ {j}
    BY <1>2, <1>6 DEF Places
  <2>2. Cardinality(Places(r, x)) =
          IF j \in Places(s, x) THEN Cardinality(Places(s, x)) - 1 ELSE Cardinality(Places(s, x))
    BY <1>3, <2>1, FS_RemoveElement
  <2> QED BY <1>1, <1>2, <1>3, <1>4, <1>6, <2>2
<1> QED BY <1>5, <1>6

\* Popping the last entry.
LEMMA OccurrencesOfPopped ==
  ASSUME NEW E, NEW s \in Seq(E), s # << >>, NEW x
  PROVE  /\ SubSeq(s, 1, Len(s) - 1) \in Seq(E)
         /\ Occurrences(SubSeq(s, 1, Len(s) - 1), x)
              = Occurrences(s, x) - (IF s[Len(s)] = x THEN 1 ELSE 0)
<1>1. PICK r : r = SubSeq(s, 1, Len(s) - 1)
  OBVIOUS
<1>2. Len(s) \in Nat \ {0} /\ DOMAIN s = 1..Len(s)
  OBVIOUS
<1>3. /\ r \in Seq(E) /\ DOMAIN r = 1..(Len(s) - 1)
      /\ \A i \in 1..(Len(s) - 1) : r[i] = s[i]
  BY <1>1, <1>2
<1>4. /\ IsFiniteSet(Places(s, x)) /\ Cardinality(Places(s, x)) \in Nat
      /\ Occurrences(s, x) = Cardinality(Places(s, x))
      /\ Occurrences(r, x) = Cardinality(Places(r, x))
  <2>1. IsFiniteSet(Places(s, x)) /\ Occurrences(s, x) = Cardinality(Places(s, x))
    BY PlacesAreFinite
  <2>2. Occurrences(r, x) = Cardinality(Places(r, x))
    BY <1>3, PlacesAreFinite
  <2> QED BY <2>1, <2>2, FS_CardinalityType
<1>5. Places(r, x) = Places(s, x) \ {Len(s)}
  <2>1. \A i : i \in 1..(Len(s) - 1) <=> i \in 1..Len(s) /\ i # Len(s)
    BY <1>2
  <2> QED BY <1>2, <1>3, <2>1 DEF Places
<1>6. Cardinality(Places(r, x)) = IF Len(s) \in Places(s, x) THEN Cardinality(Places(s, x)) - 1
                                  ELSE Cardinality(Places(s, x))
  BY <1>4, <1>5, FS_RemoveElement
<1>7. Len(s) \in Places(s, x) <=> s[Len(s)] = x
  BY <1>2 DEF Places
<1> QED BY <1>1, <1>3, <1>4, <1>6, <1>7

\* list[j] = list[last]; list.pop() takes one entry of a off the list,
\* wherever its first occurrence is, and loses no entry of another address.
LEMMA OccurrencesOfSwapRemove ==
  ASSUME NEW E, NEW s \in Seq(E), NEW a
  PROVE  /\ SwapRemove(s, a) \in Seq(E)
         /\ \A x : x # a => Occurrences(SwapRemove(s, a), x) = Occurrences(s, x)
         /\ Occurrences(s, a) = 0 => SwapRemove(s, a) = s
         /\ Occurrences(s, a) # 0 => Occurrences(SwapRemove(s, a), a) = Occurrences(s, a) - 1
<1>1. Occurrences(s, a) = 0 <=> ~ \E i \in DOMAIN s : s[i] = a
  BY PlacesAreFinite
<1>2. CASE Occurrences(s, a) = 0
  <2>1. SwapRemove(s, a) = s
    BY <1>1, <1>2 DEF SwapRemove
  <2> QED BY <1>2, <2>1
<1>3. CASE Occurrences(s, a) # 0
  <2> DEFINE First(i) == s[i] = a /\ \A k \in 1..(i - 1) : s[k] # a
             j == CHOOSE i \in DOMAIN s : First(i)
  <2>1. \E i \in DOMAIN s : First(i)
    <3>1. Places(s, a) \in SUBSET Nat /\ Places(s, a) # {}
      BY <1>1, <1>3 DEF Places
    <3>2. PICK i \in Places(s, a) : \A m \in Places(s, a) : i <= m
      BY <3>1, LeastNatural
    <3>3. i \in DOMAIN s /\ i \in 1..Len(s) /\ Len(s) \in Nat /\ s[i] = a
      BY DEF Places
    <3>4. \A k \in 1..(i - 1) : s[k] # a
      <4> SUFFICES ASSUME NEW k \in 1..(i - 1), s[k] = a PROVE FALSE
        OBVIOUS
      <4>1. k \in 1..Len(s) /\ k < i
        BY <3>3
      <4>2. k \in Places(s, a)
        BY <4>1 DEF Places
      <4> QED BY <3>2, <4>1, <4>2, <3>3
    <3> QED BY <3>3, <3>4
  <2>2. j \in DOMAIN s /\ First(j)
    <3> HIDE DEF First
    <3> QED BY <2>1
  <2>3. SwapRemove(s, a) = SubSeq([s EXCEPT ![j] = s[Len(s)]], 1, Len(s) - 1)
    BY <1>1, <1>3 DEF SwapRemove
  <2> HIDE DEF j
  <2>4. PICK r : r = [s EXCEPT ![j] = s[Len(s)]]
    OBVIOUS
  <2>5. s # << >> /\ Len(s) \in DOMAIN s /\ s[Len(s)] \in E
    BY <2>2
  <2>6. /\ r \in Seq(E) /\ Len(r) = Len(s) /\ r # << >> /\ r[Len(r)] = s[Len(s)]
    BY <2>2, <2>4, <2>5
  <2>7. SwapRemove(s, a) = SubSeq(r, 1, Len(r) - 1)
    BY <2>3, <2>4, <2>6
  <2>8. SwapRemove(s, a) \in Seq(E)
    BY <2>6, <2>7, OccurrencesOfPopped
  <2>9. ASSUME NEW x
        PROVE  Occurrences(SwapRemove(s, a), x) = Occurrences(s, x) - (IF a = x THEN 1 ELSE 0)
    <3>1. Occurrences(r, x) = (Occurrences(s, x) - (IF s[j] = x THEN 1 ELSE 0))
                                + (IF s[Len(s)] = x THEN 1 ELSE 0)
      <4>1. PICK v \in E : v = s[Len(s)]
        BY <2>5
      <4>2. j \in DOMAIN s /\ r = [s EXCEPT ![j] = v]
        BY <2>2, <2>4, <4>1
      <4>3. Occurrences(r, x) = (Occurrences(s, x) - (IF s[j] = x THEN 1 ELSE 0))
                                  + (IF v = x THEN 1 ELSE 0)
        <5>1. PICK i \in DOMAIN s : i = j
          BY <4>2
        <5>2. r = Replaced(s, i, v)
          BY <4>2, <5>1 DEF Replaced
        <5>3. Occurrences(r, x) = (Occurrences(s, x) - (IF s[i] = x THEN 1 ELSE 0))
                                    + (IF v = x THEN 1 ELSE 0)
          BY <5>2, OccurrencesOfReplaced
        <5> QED BY <5>1, <5>3
      <4> QED BY <4>1, <4>3
    <3>2. Occurrences(SwapRemove(s, a), x) = Occurrences(r, x) - (IF s[Len(s)] = x THEN 1 ELSE 0)
      BY <2>6, <2>7, OccurrencesOfPopped
    <3>3. Occurrences(s, x) \in Nat /\ Occurrences(r, x) \in Nat
      BY <2>6, PlacesAreFinite
    <3> QED BY <2>2, <3>1, <3>2, <3>3
  <2>10. \A x : Occurrences(s, x) \in Nat
    BY PlacesAreFinite
  <2> QED BY <1>3, <2>8, <2>9, <2>10
<1> QED BY <1>2, <1>3

\* The loop of unregisterValidator over an own list that agrees with the
\* category lists, repeated ids included, leaves no entry of the caller and
\* every entry of the others. Along the loop the caller is listed in c as
\* often as c is still to come in its own list.
LEMMA RemovedLists ==
  ASSUME NEW a \in Address, NEW ids \in Seq(CategoryId),
         validatorsByCategory \in [CategoryId -> Seq(Address)],
         \A c \in CategoryId : Occurrences(validatorsByCategory[c], a) = Occurrences(ids, c)
  PROVE  /\ Removed(a, ids) \in [CategoryId -> Seq(Address)]
         /\ \A c \in CategoryId :
              /\ Occurrences(Removed(a, ids)[c], a) = 0
              /\ \A x \in Address : x # a =>
                   Occurrences(Removed(a, ids)[c], x) = Occurrences(validatorsByCategory[c], x)
<1> DEFINE n == Len(ids)
           V == [CategoryId -> Seq(Address)]
           base == validatorsByCategory
           step == [k \in 1..n |-> [v \in V |-> RemoveFrom(a, v, ids[k])]]
           Loop(f) == f = [k \in 0..n |-> IF k = 0 THEN validatorsByCategory
                                          ELSE RemoveFrom(a, f[k - 1], ids[k])]
           lists == CHOOSE f : Loop(f)
           Left(k, c) == {i \in (k + 1)..n : ids[i] = c}
<1>1. n \in Nat /\ DOMAIN ids = 1..n /\ \A k \in 1..n : ids[k] \in CategoryId
  OBVIOUS
<1>2. \A k \in 1..n : \A v \in V : RemoveFrom(a, v, ids[k]) \in V
  <2> SUFFICES ASSUME NEW k \in 1..n, NEW v \in V PROVE RemoveFrom(a, v, ids[k]) \in V
    OBVIOUS
  <2>1. ids[k] \in CategoryId /\ v[ids[k]] \in Seq(Address)
    BY <1>1
  <2>2. SwapRemove(v[ids[k]], a) \in Seq(Address)
    BY <2>1, OccurrencesOfSwapRemove
  <2> QED BY <2>1, <2>2 DEF RemoveFrom
<1>3. PICK f : Loop(f) /\ f \in [0..n -> V]
  <2>1. \A k \in 1..n : \A v \in V : step[k][v] \in V
    BY <1>2
  <2>2. base \in V
    OBVIOUS
  <2>3. PICK f : /\ f = [k \in 0..n |-> IF k = 0 THEN base ELSE step[k][f[k - 1]]]
                 /\ f \in [0..n -> V]
    <3> HIDE DEF V, base, step, n
    <3> QED BY <1>1, <2>1, <2>2, RecursionOnInterval, ZenonT(40)
  <2>4. \A k \in 0..n : f[k] = IF k = 0 THEN validatorsByCategory
                               ELSE RemoveFrom(a, f[k - 1], ids[k])
    <3> SUFFICES ASSUME NEW k \in 0..n
                 PROVE  f[k] = IF k = 0 THEN validatorsByCategory
                               ELSE RemoveFrom(a, f[k - 1], ids[k])
      OBVIOUS
    <3>1. f[k] = IF k = 0 THEN base ELSE step[k][f[k - 1]]
      <4> HIDE DEF step, base
      <4> QED BY <2>3
    <3>2. CASE k = 0
      BY <3>1, <3>2
    <3>3. CASE k # 0
      <4>1. k \in 1..n /\ k - 1 \in 0..n
        BY <1>1, <3>3
      <4>2. f[k - 1] \in V
        BY <2>3, <4>1
      <4>3. step[k][f[k - 1]] = RemoveFrom(a, f[k - 1], ids[k])
        BY <4>1, <4>2
      <4> QED BY <3>1, <3>3, <4>3
    <3> QED BY <3>2, <3>3
  <2>5. f = [k \in 0..n |-> f[k]]
    BY <2>3
  <2>6. Loop(f)
    <3> HIDE DEF n
    <3> QED BY <2>4, <2>5
  <2> HIDE DEF Loop, n, V
  <2> QED BY <2>3, <2>6
<1>4. Loop(lists)
  <2> HIDE DEF Loop
  <2> QED BY <1>3
<1>5. Removed(a, ids) = lists[n]
  BY DEF Removed
<1>6. /\ lists[0] = validatorsByCategory
      /\ \A k \in 1..n : lists[k] = RemoveFrom(a, lists[k - 1], ids[k])
  <2>1. 0 \in 0..n
    BY <1>1
  <2>2. \A k \in 1..n : k \in 0..n /\ k # 0
    BY <1>1
  <2> HIDE DEF lists, n
  <2> QED BY <1>4, <2>1, <2>2
<1> HIDE DEF lists
<1>7. \A k \in 0..n : \A c : IsFiniteSet(Left(k, c)) /\ Cardinality(Left(k, c)) \in Nat
  <2> SUFFICES ASSUME NEW k \in 0..n, NEW c PROVE IsFiniteSet(Left(k, c)) /\ Cardinality(Left(k, c)) \in Nat
    OBVIOUS
  <2>1. k + 1 \in Int /\ n \in Int
    BY <1>1
  <2>2. IsFiniteSet((k + 1)..n)
    BY <2>1, FS_Interval
  <2>3. Left(k, c) \in SUBSET ((k + 1)..n)
    OBVIOUS
  <2> HIDE DEF Left
  <2> QED BY <2>2, <2>3, FS_Subset, FS_CardinalityType
<1> DEFINE Good(L, k) ==
             /\ L \in V
             /\ \A c \in CategoryId :
                  /\ Occurrences(L[c], a) = Cardinality(Left(k, c))
                  /\ \A x \in Address : x # a =>
                       Occurrences(L[c], x) = Occurrences(validatorsByCategory[c], x)
           S == {k \in 0..n : Good(lists[k], k)}
<1>8. 0 \in S
  <2>1. \A c \in CategoryId : Left(0, c) = Places(ids, c) /\ Occurrences(ids, c) = Cardinality(Places(ids, c))
    <3>1. 0 + 1 = 1
      OBVIOUS
    <3>2. \A c : Left(0, c) = Places(ids, c)
      BY <1>1, <3>1 DEF Places
    <3> QED BY <3>2, PlacesAreFinite
  <2>2. 0 \in 0..n
    BY <1>1
  <2> HIDE DEF Left
  <2> QED BY <1>6, <2>1, <2>2
<1>9. \A k \in 0..(n - 1) : k \in S => k + 1 \in S
  <2> SUFFICES ASSUME NEW k \in 0..(n - 1), Good(lists[k], k)
               PROVE  k + 1 \in 0..n /\ Good(lists[k + 1], k + 1)
    OBVIOUS
  <2>1. k + 1 \in 1..n /\ k + 1 \in 0..n /\ k \in 0..n /\ (k + 1) - 1 = k
    BY <1>1
  <2>2. PICK L \in V : L = lists[k] /\ Good(L, k)
    OBVIOUS
  <2>3. PICK d \in CategoryId : d = ids[k + 1]
    BY <1>1, <2>1
  <2>4. PICK M : M = [L EXCEPT ![d] = SwapRemove(L[d], a)]
    OBVIOUS
  <2>5. lists[k + 1] = M
    BY <1>6, <2>1, <2>2, <2>3, <2>4 DEF RemoveFrom
  <2>6. L[d] \in Seq(Address) /\ SwapRemove(L[d], a) \in Seq(Address)
    BY OccurrencesOfSwapRemove
  <2>7. M \in V /\ \A c \in CategoryId : M[c] = IF c = d THEN SwapRemove(L[d], a) ELSE L[c]
    BY <2>4, <2>6
  <2>8. ASSUME NEW c \in CategoryId
        PROVE  /\ Occurrences(M[c], a) = Cardinality(Left(k + 1, c))
               /\ \A x \in Address : x # a =>
                    Occurrences(M[c], x) = Occurrences(validatorsByCategory[c], x)
    <3>0. \A i : i \in (k + 2)..n <=> i \in (k + 1)..n /\ i # k + 1
      <4>1. k \in Nat /\ n \in Nat
        BY <1>1, <2>1
      <4> HIDE DEF n
      <4> QED BY <4>1
    <3>1. (k + 1) + 1 = k + 2
      OBVIOUS
    <3>2. Occurrences(L[c], a) = Cardinality(Left(k, c))
      BY <2>2
    <3>3. CASE c = d
      <4>1. k + 1 \in Left(k, c)
        BY <1>1, <2>1, <2>3, <3>3
      <4>2. Left(k + 1, c) = Left(k, c) \ {k + 1}
        BY <3>0, <3>1
      <4>3. Cardinality(Left(k + 1, c)) = Cardinality(Left(k, c)) - 1
        <5> HIDE DEF Left
        <5> QED BY <1>7, <2>1, <4>1, <4>2, FS_RemoveElement
      <4>4. Cardinality(Left(k, c)) # 0
        <5> HIDE DEF Left
        <5> QED BY <1>7, <2>1, <4>1, FS_EmptySet
      <4>5. Occurrences(SwapRemove(L[d], a), a) = Occurrences(L[d], a) - 1
        BY <2>6, <3>2, <3>3, <4>4, OccurrencesOfSwapRemove
      <4>6. \A x : x # a => Occurrences(SwapRemove(L[d], a), x) = Occurrences(L[d], x)
        BY <2>6, OccurrencesOfSwapRemove
      <4> HIDE DEF Left
      <4> QED BY <2>2, <2>7, <3>2, <3>3, <4>3, <4>5, <4>6
    <3>4. CASE c # d
      <4>1. Left(k + 1, c) = Left(k, c)
        BY <2>3, <3>0, <3>1, <3>4
      <4> HIDE DEF Left
      <4> QED BY <2>2, <2>7, <3>2, <3>4, <4>1
    <3> QED BY <3>3, <3>4
  <2>9. Good(M, k + 1)
    <3> HIDE DEF V, Left
    <3> QED BY <2>7, <2>8
  <2> HIDE DEF Good
  <2> QED BY <2>1, <2>5, <2>9
<1>10. \A k \in 0..n : k \in S
  <2> HIDE DEF S, n
  <2> QED BY <1>1, <1>8, <1>9, IntervalInduction
<1>11. Good(lists[n], n)
  <2>1. n \in 0..n
    BY <1>1
  <2> HIDE DEF Good, n
  <2> QED BY <1>10, <2>1
<1>12. \A c \in CategoryId : Cardinality(Left(n, c)) = 0
  <2>1. \A c : Left(n, c) = {}
    BY <1>1
  <2> HIDE DEF Left
  <2> QED BY <2>1, FS_EmptySet
<1> HIDE DEF Left, n
<1> QED BY <1>5, <1>11, <1>12

-----------------------------------------------------------------------------
(* The lists of the registry and what follows from their agreement. *)

\* The lists of the registration hold addresses and categories.
ListsTyped ==
  /\ validatorsByCategory \in [CategoryId -> Seq(Address)]
  /\ validatorCategories \in [Address -> Seq(CategoryId)]

\* Who is not registered has no list of its own.
GoneHaveNoCategories ==
  \A a \in Address : ~ validators[a].exists => validatorCategories[a] = << >>

ListsInv == ListsTyped /\ ListsAgree /\ GoneHaveNoCategories

\* An address is listed in a category exactly when it registered with it.
LEMMA ListedOnce ==
  ASSUME ListsInv
  PROVE  \A a \in Address, c \in CategoryId :
           (\E k \in DOMAIN validatorsByCategory[c] : validatorsByCategory[c][k] = a)
             <=> (\E k \in DOMAIN validatorCategories[a] : validatorCategories[a][k] = c)
<1> SUFFICES ASSUME NEW a \in Address, NEW c \in CategoryId
             PROVE  (\E k \in DOMAIN validatorsByCategory[c] : validatorsByCategory[c][k] = a)
                      <=> (\E k \in DOMAIN validatorCategories[a] : validatorCategories[a][k] = c)
  OBVIOUS
<1>1. PICK s \in Seq(Address), t \in Seq(CategoryId) :
        s = validatorsByCategory[c] /\ t = validatorCategories[a]
  BY DEF ListsInv, ListsTyped
<1>2. Occurrences(s, a) = Occurrences(t, c)
  BY <1>1 DEF ListsInv, ListsAgree
<1>3. Occurrences(s, a) = 0 <=> \A k \in DOMAIN s : s[k] # a
  BY PlacesAreFinite
<1>4. Occurrences(t, c) = 0 <=> \A k \in DOMAIN t : t[k] # c
  BY PlacesAreFinite
<1> QED BY <1>1, <1>2, <1>3, <1>4

\* Who is listed is registered: who is gone has no own list to agree with.
LEMMA ListsKeepRegistered ==
  ASSUME ListsInv PROVE ListedAreRegistered
<1> SUFFICES ASSUME NEW c \in CategoryId, NEW k \in DOMAIN validatorsByCategory[c]
             PROVE  validators[validatorsByCategory[c][k]].exists
  BY DEF ListedAreRegistered
<1>1. PICK a \in Address : a = validatorsByCategory[c][k]
  <2>1. validatorsByCategory[c] \in Seq(Address)
    BY DEF ListsInv, ListsTyped
  <2> QED BY <2>1
<1>2. PICK i \in DOMAIN validatorCategories[a] : validatorCategories[a][i] = c
  BY <1>1, ListedOnce
<1>3. validatorCategories[a] # << >>
  <2>1. DOMAIN validatorCategories[a] # {}
    BY <1>2
  <2> QED BY <2>1
<1> QED BY <1>1, <1>3 DEF ListsInv, GoneHaveNoCategories

\* After k passes of getValidatorsWithConfig the output holds the registered
\* addresses among the first k of the index, each once, as the index holds
\* each once.
LEMMA ActiveViewFollowsIndex ==
  ASSUME validatorsIndex \in Seq(Address), validatorsIndexExists \subseteq Address, IndexIsExact
  PROVE  ActiveViewIsExact
<1> DEFINE n == Len(validatorsIndex)
           V == Seq(Address)
           Loop(f) == f = [k \in 0..n |->
                             IF k = 0 THEN << >>
                             ELSE IF validators[validatorsIndex[k]].exists
                                  THEN Append(f[k - 1], validatorsIndex[k]) ELSE f[k - 1]]
           out == CHOOSE f : Loop(f)
           step == [k \in 1..n |-> [v \in V |->
                      IF validators[validatorsIndex[k]].exists
                      THEN Append(v, validatorsIndex[k]) ELSE v]]
           base == << >>
<1>1. n \in Nat /\ DOMAIN validatorsIndex = 1..n /\ \A k \in 1..n : validatorsIndex[k] \in Address
  OBVIOUS
<1>2. PICK f : Loop(f) /\ f \in [0..n -> V]
  <2>1. \A k \in 1..n : \A v \in V : step[k][v] \in V
    BY <1>1
  <2>2. base \in V
    OBVIOUS
  <2>3. PICK f : /\ f = [k \in 0..n |-> IF k = 0 THEN base ELSE step[k][f[k - 1]]]
                 /\ f \in [0..n -> V]
    <3> HIDE DEF V, base, step, n
    <3> QED BY <1>1, <2>1, <2>2, RecursionOnInterval, ZenonT(40)
  <2>4. ASSUME NEW k \in 0..n
        PROVE  f[k] = IF k = 0 THEN << >>
                      ELSE IF validators[validatorsIndex[k]].exists
                           THEN Append(f[k - 1], validatorsIndex[k]) ELSE f[k - 1]
    <3>1. f[k] = IF k = 0 THEN base ELSE step[k][f[k - 1]]
      <4> HIDE DEF step, base
      <4> QED BY <2>3
    <3>2. CASE k = 0
      BY <3>1, <3>2
    <3>3. CASE k # 0
      <4>1. k \in 1..n /\ k - 1 \in 0..n
        BY <1>1, <3>3
      <4>2. f[k - 1] \in V
        BY <2>3, <4>1
      <4> QED BY <3>1, <3>3, <4>1, <4>2
    <3> QED BY <3>2, <3>3
  <2>5. f = [k \in 0..n |-> f[k]]
    BY <2>3
  <2>6. Loop(f)
    <3> HIDE DEF n
    <3> QED BY <2>4, <2>5
  <2> HIDE DEF Loop, n, V
  <2> QED BY <2>3, <2>6
<1>3. Loop(out)
  <2> HIDE DEF Loop
  <2> QED BY <1>2
<1>4. getValidatorsWithConfig = out[n]
  BY DEF getValidatorsWithConfig
<1>5. /\ out[0] = << >>
      /\ \A k \in 1..n : out[k] = IF validators[validatorsIndex[k]].exists
                                  THEN Append(out[k - 1], validatorsIndex[k]) ELSE out[k - 1]
  <2>1. 0 \in 0..n
    BY <1>1
  <2>2. \A k \in 1..n : k \in 0..n /\ k # 0
    BY <1>1
  <2> HIDE DEF out, n
  <2> QED BY <1>3, <2>1, <2>2
<1> HIDE DEF out
<1> DEFINE Active(k) == {validatorsIndex[i] : i \in {j \in 1..k : validators[validatorsIndex[j]].exists}}
           Good(s, k) == /\ s \in V /\ IsInjective(s) /\ Range(s) = Active(k)
           S == {k \in 0..n : Good(out[k], k)}
<1>6. 0 \in S
  <2>1. 0 \in 0..n
    BY <1>1
  <2>2. Good(<< >>, 0)
    BY DEF IsInjective, Range
  <2> HIDE DEF Good
  <2> QED BY <1>5, <2>1, <2>2
<1>7. \A k \in 0..(n - 1) : k \in S => k + 1 \in S
  <2> SUFFICES ASSUME NEW k \in 0..(n - 1), Good(out[k], k)
               PROVE  k + 1 \in 0..n /\ Good(out[k + 1], k + 1)
    OBVIOUS
  <2>1. k + 1 \in 1..n /\ k + 1 \in 0..n /\ (k + 1) - 1 = k /\ k \in Nat
    BY <1>1
  <2>2. PICK s \in V : s = out[k] /\ Good(s, k)
    OBVIOUS
  <2>3. PICK a \in Address : a = validatorsIndex[k + 1]
    BY <1>1, <2>1
  <2>4. out[k + 1] = IF validators[a].exists THEN Append(s, a) ELSE s
    BY <1>5, <2>1, <2>2, <2>3
  <2>5. \A i : i \in 1..(k + 1) <=> i \in 1..k \/ i = k + 1
    BY <2>1
  <2>6. CASE validators[a].exists
    <3>1. Active(k + 1) = Active(k) \cup {a}
      BY <2>3, <2>5, <2>6
    <3>2. a \notin Active(k)
      <4>1. \A i \in 1..k : i \in 1..n /\ i # k + 1
        BY <1>1, <2>1
      <4>2. \A i \in 1..k : validatorsIndex[i] # a
        BY <1>1, <2>1, <2>3, <4>1 DEF IndexIsExact, IsInjective
      <4> QED BY <4>2
    <3>3. PICK r : r = Append(s, a)
      OBVIOUS
    <3>4. /\ Len(s) \in Nat /\ DOMAIN s = 1..Len(s) /\ r \in V /\ DOMAIN r = 1..(Len(s) + 1)
          /\ r[Len(s) + 1] = a /\ \A i \in 1..Len(s) : r[i] = s[i]
      BY <3>3
    <3>5. IsInjective(s) /\ Range(s) = Active(k)
      BY <2>2
    <3>6. \A i \in 1..Len(s) : s[i] # a
      BY <3>2, <3>4, <3>5 DEF Range
    <3>7. IsInjective(r)
      <4>1. \A i \in DOMAIN r : i \in 1..Len(s) \/ i = Len(s) + 1
        BY <3>4
      <4> QED BY <3>4, <3>5, <3>6, <4>1 DEF IsInjective
    <3>8. Range(r) = Range(s) \cup {a}
      <4>1. \A i : i \in 1..(Len(s) + 1) <=> i \in 1..Len(s) \/ i = Len(s) + 1
        BY <3>4
      <4> QED BY <3>4, <4>1 DEF Range
    <3>9. Good(r, k + 1)
      <4> HIDE DEF Active
      <4> QED BY <3>1, <3>4, <3>5, <3>7, <3>8
    <3> HIDE DEF Good
    <3> QED BY <2>1, <2>4, <2>6, <3>3, <3>9
  <2>7. CASE ~ validators[a].exists
    <3>1. Active(k + 1) = Active(k)
      BY <2>3, <2>5, <2>7
    <3>2. Good(s, k + 1)
      <4> HIDE DEF Active
      <4> QED BY <2>2, <3>1
    <3> HIDE DEF Good
    <3> QED BY <2>1, <2>4, <2>7, <3>2
  <2> QED BY <2>6, <2>7
<1>8. \A k \in 0..n : k \in S
  <2> HIDE DEF S, n
  <2> QED BY <1>1, <1>6, <1>7, IntervalInduction
<1>9. Good(out[n], n)
  <2>1. n \in 0..n
    BY <1>1
  <2> HIDE DEF Good, n
  <2> QED BY <1>8, <2>1
<1>10. Active(n) = {a \in Address : validators[a].exists}
  <2>1. \A a \in Active(n) : a \in Address /\ validators[a].exists
    BY <1>1
  <2>2. ASSUME NEW a \in Address, validators[a].exists PROVE a \in Active(n)
    <3>1. PICK k \in DOMAIN validatorsIndex : validatorsIndex[k] = a
      BY <2>2 DEF IndexIsExact
    <3> QED BY <1>1, <2>2, <3>1
  <2> HIDE DEF Active
  <2> QED BY <2>1, <2>2
<1> HIDE DEF Active, n
<1> QED BY <1>4, <1>9, <1>10 DEF ActiveViewIsExact

-----------------------------------------------------------------------------
(* validationIndex and validations of one assertion, as two halves of a map. *)

Matches(list, index) ==
  /\ \A k \in DOMAIN list : index[list[k].validator] = k
  /\ \A a \in Address : index[a] # 0 =>
       index[a] \in DOMAIN list /\ list[index[a]].validator = a

\* Pushing the first validation of an address keeps the halves together.
LEMMA PushMatches ==
  ASSUME NEW list \in Seq(Validation), NEW index \in [Address -> Nat],
         Matches(list, index),
         NEW e \in Validation, index[e.validator] = 0
  PROVE  Matches(Append(list, e), [index EXCEPT ![e.validator] = Len(list) + 1])
<1>1. e.validator \in Address /\ \A k \in DOMAIN list : list[k].validator \in Address
  <2>1. \A k \in DOMAIN list : list[k] \in Validation
    OBVIOUS
  <2> QED BY <2>1 DEF Validation
<1>2. PICK pushed \in Seq(Validation) : pushed = Append(list, e)
  <2>1. Append(list, e) \in Seq(Validation)
    OBVIOUS
  <2> QED BY <2>1, Zenon
<1>3. PICK after \in [Address -> Nat] : after = [index EXCEPT ![e.validator] = Len(list) + 1]
  <2>1. [index EXCEPT ![e.validator] = Len(list) + 1] \in [Address -> Nat]
    BY <1>1
  <2> QED BY <2>1, Zenon
<1>4. /\ DOMAIN list = 1..Len(list) /\ Len(list) \in Nat
      /\ DOMAIN pushed = 1..(Len(list) + 1)
      /\ pushed[Len(list) + 1] = e
      /\ \A k \in 1..Len(list) : pushed[k] = list[k]
  BY <1>2
<1>5. /\ after[e.validator] = Len(list) + 1
      /\ \A a \in Address : a # e.validator => after[a] = index[a]
  BY <1>1, <1>3
<1>6. \A k \in DOMAIN list : list[k].validator # e.validator /\ index[list[k].validator] = k
  BY <1>4 DEF Matches
<1>7. \A k \in DOMAIN pushed : after[pushed[k].validator] = k
  BY <1>1, <1>4, <1>5, <1>6
<1>8. ASSUME NEW a \in Address, after[a] # 0
      PROVE  after[a] \in DOMAIN pushed /\ pushed[after[a]].validator = a
  <2>1. CASE a = e.validator
    BY <2>1, <1>4, <1>5
  <2>2. CASE a # e.validator
    <3>1. index[a] \in DOMAIN list /\ list[index[a]].validator = a
      BY <2>2, <1>5, <1>8 DEF Matches
    <3> QED BY <3>1, <2>2, <1>4, <1>5
  <2> QED BY <2>1, <2>2
<1>9. Matches(pushed, after)
  BY <1>7, <1>8 DEF Matches
<1> QED BY <1>2, <1>3, <1>9

\* Rewriting the validation an address has keeps them together too.
LEMMA RewriteMatches ==
  ASSUME NEW list \in Seq(Validation), NEW index \in [Address -> Nat],
         Matches(list, index),
         NEW e \in Validation, index[e.validator] # 0
  PROVE  /\ [list EXCEPT ![index[e.validator]] = e] \in Seq(Validation)
         /\ Matches([list EXCEPT ![index[e.validator]] = e], index)
<1>1. e.validator \in Address
  BY DEF Validation
<1>2. PICK i \in DOMAIN list : i = index[e.validator] /\ list[i].validator = e.validator
  BY <1>1 DEF Matches
<1>3. PICK after : after = [list EXCEPT ![i] = e]
  OBVIOUS
<1>4. after \in Seq(Validation)
  BY <1>2, <1>3
<1>5. DOMAIN after = DOMAIN list /\ \A k \in DOMAIN list : after[k].validator = list[k].validator
  BY <1>2, <1>3
<1>6. Matches(after, index)
  BY <1>5 DEF Matches
<1> QED BY <1>2, <1>3, <1>4, <1>6

-----------------------------------------------------------------------------
IndexMatches(as) == Matches(as.validations, as.validationIndex)

\* An assertion is its category and the two halves.
LEMMA AssertionOfHalves ==
  ASSUME NEW c \in CategoryId, NEW list \in Seq(Validation), NEW index \in [Address -> Nat],
         Matches(list, index)
  PROVE  LET as == [categoryId |-> c, validations |-> list, validationIndex |-> index]
         IN  as \in Asertion /\ IndexMatches(as)
BY DEF Asertion, IndexMatches

\* An assertion starts without validations.
LEMMA NewAsertionMatches ==
  ASSUME NEW c \in CategoryId
  PROVE  NewAsertion(c) \in Asertion /\ IndexMatches(NewAsertion(c))
<1>1. NewAsertion(c) \in Asertion
  BY DEF NewAsertion, Asertion
<1>2. Matches(<< >>, [a \in Address |-> 0])
  BY DEF Matches
<1> QED BY <1>1, <1>2 DEF NewAsertion, IndexMatches

\* addValidation keeps the type and the correspondence of an assertion.
LEMMA ValidatedMatches ==
  ASSUME NEW as \in Asertion, IndexMatches(as),
         NEW sender \in Address, NEW v \in Verdict, NEW d \in Digest
  PROVE  /\ Validated(as, sender, v, d) \in Asertion
         /\ IndexMatches(Validated(as, sender, v, d))
<1>1. PICK c \in CategoryId, list \in Seq(Validation), index \in [Address -> Nat] :
        as = [categoryId |-> c, validations |-> list, validationIndex |-> index]
  BY DEF Asertion
<1>2. PICK e \in Validation : e = [validator |-> sender, veredict |-> v, document |-> d]
  BY DEF Validation
<1>3. e.validator = sender
  BY <1>2
<1>4. Matches(list, index)
  BY <1>1 DEF IndexMatches
<1>5. CASE index[sender] = 0
  <2>1. Validated(as, sender, v, d) =
          [categoryId |-> c, validations |-> Append(list, e),
           validationIndex |-> [index EXCEPT ![sender] = Len(list) + 1]]
    BY <1>1, <1>2, <1>5 DEF Validated
  <2>2. Matches(Append(list, e), [index EXCEPT ![sender] = Len(list) + 1])
    BY <1>3, <1>4, <1>5, PushMatches
  <2>3. /\ Append(list, e) \in Seq(Validation)
        /\ [index EXCEPT ![sender] = Len(list) + 1] \in [Address -> Nat]
    OBVIOUS
  <2> QED BY <2>1, <2>2, <2>3, AssertionOfHalves
<1>6. CASE index[sender] # 0
  <2>1. Validated(as, sender, v, d) =
          [categoryId |-> c, validations |-> [list EXCEPT ![index[sender]] = e],
           validationIndex |-> index]
    BY <1>1, <1>2, <1>6 DEF Validated
  <2>2. /\ [list EXCEPT ![index[sender]] = e] \in Seq(Validation)
        /\ Matches([list EXCEPT ![index[sender]] = e], index)
    BY <1>3, <1>4, <1>6, RewriteMatches
  <2> QED BY <2>1, <2>2, AssertionOfHalves
<1> QED BY <1>5, <1>6
-----------------------------------------------------------------------------
(* The inductive invariant: two parts that no transaction disturbs together. *)

RegistryInv ==
  /\ categories \subseteq CategoryId
  /\ validators \in [Address -> Validator]
  /\ validatorsIndex \in Seq(Address)
  /\ validatorsIndexExists \subseteq Address
  /\ IndexIsExact

PostsInv ==
  /\ postsById \in Seq(Post)
  /\ postsCid \in [Digest -> Nat]
  /\ OneValidationEach
  /\ CidIsNewestPost

IInv == RegistryInv /\ PostsInv

\* OneValidationEach, assertion by assertion.
LEMMA OneValidationMatches ==
  OneValidationEach <=>
    \A p \in DOMAIN postsById : \A i \in DOMAIN postsById[p].asertions :
      IndexMatches(postsById[p].asertions[i])
BY DEF OneValidationEach, IndexMatches, Matches

LEMMA InitIInv == Init => IInv
<1> SUFFICES ASSUME Init PROVE IInv
  OBVIOUS
<1>1. RegistryInv
  BY DEF Init, RegistryInv, Validator, NoValidator, IndexIsExact, IsInjective
<1>2. PostsInv
  BY DEF Init, PostsInv, OneValidationEach, CidIsNewestPost, getNewByCid
<1> QED BY <1>1, <1>2 DEF IInv

\* registerValidator pushes an address only when the index does not hold it.
LEMMA RegisterValidatorKeeps ==
  ASSUME NEW sender \in Address, NEW ids, NEW config \in Digest,
         RegistryInv, RegisterValidator(sender, ids, config)
  PROVE  RegistryInv'
<1> USE DEF RegistryInv, RegisterValidator
<1>1. validators' \in [Address -> Validator]
  BY DEF Validator
<1>2. validatorsIndexExists' = validatorsIndexExists \cup {sender}
  OBVIOUS
<1>3. \A a \in Address : validators'[a].exists => a \in validatorsIndexExists'
  BY DEF IndexIsExact
<1>4. CASE sender \in validatorsIndexExists
  <2>1. validatorsIndex' = validatorsIndex /\ validatorsIndexExists' = validatorsIndexExists
    BY <1>4 DEF Indexed
  <2> QED BY <2>1, <1>1, <1>3 DEF IndexIsExact
<1>5. CASE sender \notin validatorsIndexExists
  <2>1. validatorsIndex' = Append(validatorsIndex, sender)
    BY <1>5 DEF Indexed
  <2>2. /\ DOMAIN validatorsIndex = 1..Len(validatorsIndex) /\ Len(validatorsIndex) \in Nat
        /\ DOMAIN validatorsIndex' = 1..(Len(validatorsIndex) + 1)
        /\ \A k \in 1..Len(validatorsIndex) : validatorsIndex'[k] = validatorsIndex[k]
        /\ validatorsIndex'[Len(validatorsIndex) + 1] = sender
        /\ validatorsIndex' \in Seq(Address)
    BY <2>1
  <2>3. IsInjective(validatorsIndex')
    BY <1>5, <2>2 DEF IndexIsExact, IsInjective
  <2>4. \A k \in DOMAIN validatorsIndex' : validatorsIndex'[k] \in validatorsIndexExists'
    BY <2>2 DEF IndexIsExact
  <2>5. ASSUME NEW a \in validatorsIndexExists'
        PROVE  \E k \in DOMAIN validatorsIndex' : validatorsIndex'[k] = a
    BY <2>2 DEF IndexIsExact
  <2> QED BY <1>1, <1>3, <2>2, <2>3, <2>4, <2>5 DEF IndexIsExact
<1> QED BY <1>4, <1>5

\* The other registry transactions leave the index alone and register nobody.
LEMMA OtherRegistryKeeps ==
  ASSUME RegistryInv, NEW sender \in Address,
         \/ \E id \in CategoryId, isEmpty \in BOOLEAN : AddCategory(sender, id, isEmpty)
         \/ \E d \in Digest : UpdateValidatorConfig(sender, d)
         \/ UnregisterValidator(sender)
  PROVE  RegistryInv'
<1>1. CASE \E id \in CategoryId, isEmpty \in BOOLEAN : AddCategory(sender, id, isEmpty)
  BY <1>1 DEF AddCategory, registryVars, RegistryInv, IndexIsExact
<1>2. CASE \E d \in Digest : UpdateValidatorConfig(sender, d)
  BY <1>2 DEF UpdateValidatorConfig, RegistryInv, IndexIsExact, Validator
<1>3. CASE UnregisterValidator(sender)
  BY <1>3 DEF UnregisterValidator, RegistryInv, IndexIsExact, Validator, NoValidator
<1> QED BY <1>1, <1>2, <1>3

\* registerNew appends a post without validations and points its document to it.
LEMMA RegisterNewKeeps ==
  ASSUME NEW sender \in Address, NEW digest \in Digest, NEW ids \in CategoryList,
         PostsInv, RegisterNew(sender, digest, ids)
  PROVE  PostsInv'
<1>1. PICK post \in Post :
        /\ postsById' = Append(postsById, post)
        /\ post.document = digest
        /\ \A i \in DOMAIN post.asertions : IndexMatches(post.asertions[i])
  <2>1. PICK n \in 1..MaxLen : ids \in [1..n -> CategoryId]
    BY DEF CategoryList
  <2>2. PICK list : list = [i \in 1..n |-> NewAsertion(ids[i])]
    OBVIOUS
  <2>3. list \in Seq(Asertion) /\ \A i \in DOMAIN list : IndexMatches(list[i])
    <3>1. \A i \in 1..n : NewAsertion(ids[i]) \in Asertion /\ IndexMatches(NewAsertion(ids[i]))
      BY <2>1, NewAsertionMatches
    <3>2. n \in Nat
      BY BoundAssumption
    <3> QED BY <2>2, <3>1, <3>2
  <2>4. PICK post : post = [document |-> digest, publisher |-> sender, asertions |-> list]
    OBVIOUS
  <2>5. post \in Post
    BY <2>3, <2>4 DEF Post
  <2>6. postsById' = Append(postsById, post)
    BY <2>1, <2>2, <2>4 DEF RegisterNew
  <2> QED BY <2>3, <2>4, <2>5, <2>6
<1>2. /\ DOMAIN postsById = 1..Len(postsById) /\ Len(postsById) \in Nat
      /\ DOMAIN postsById' = 1..(Len(postsById) + 1)
      /\ \A p \in 1..Len(postsById) : postsById'[p] = postsById[p]
      /\ postsById'[Len(postsById) + 1] = post
      /\ postsById' \in Seq(Post)
  BY <1>1 DEF PostsInv
<1>3. postsCid' = [postsCid EXCEPT ![digest] = Len(postsById) + 1]
  BY DEF RegisterNew, postCounter
<1>4. postsCid' \in [Digest -> Nat]
  BY <1>2, <1>3 DEF PostsInv
<1>5. OneValidationEach'
  <2>1. \A p \in DOMAIN postsById' : \A i \in DOMAIN postsById'[p].asertions :
          IndexMatches(postsById'[p].asertions[i])
    BY <1>1, <1>2, OneValidationMatches DEF PostsInv
  <2> QED BY <2>1 DEF OneValidationEach, IndexMatches, Matches
<1>6. CidIsNewestPost'
  <2> SUFFICES ASSUME NEW d \in Digest
               PROVE  /\ postsCid'[d] # 0 => /\ postsCid'[d] \in DOMAIN postsById'
                                             /\ postsById'[postsCid'[d]].document = d
                      /\ \A p \in DOMAIN postsById' :
                           postsById'[p].document = d => p <= postsCid'[d]
    BY DEF CidIsNewestPost, getNewByCid
  <2>1. CASE d = digest
    BY <2>1, <1>1, <1>2, <1>3 DEF PostsInv
  <2>2. CASE d # digest
    <3>1. postsCid'[d] = postsCid[d]
      BY <2>2, <1>3 DEF PostsInv
    <3> QED BY <3>1, <2>2, <1>1, <1>2 DEF PostsInv, CidIsNewestPost, getNewByCid
  <2> QED BY <2>1, <2>2
<1> QED BY <1>2, <1>4, <1>5, <1>6 DEF PostsInv

\* addValidation replaces one assertion of one post by its validated form.
LEMMA AddValidationKeeps ==
  ASSUME NEW sender \in Address, NEW post, NEW i, NEW v \in Verdict, NEW d \in Digest,
         PostsInv, AddValidation(sender, post, i, v, d)
  PROVE  PostsInv'
<1>1. /\ post \in DOMAIN postsById /\ postsById[post] \in Post
      /\ i \in DOMAIN postsById[post].asertions
      /\ postsCid' = postsCid
  BY DEF AddValidation, PostsInv, postVars
<1>2. PICK as \in Asertion : as = postsById[post].asertions[i] /\ IndexMatches(as)
  BY <1>1, OneValidationMatches DEF Post, PostsInv
<1>3. PICK new \in Asertion : new = Validated(as, sender, v, d) /\ IndexMatches(new)
  BY <1>2, ValidatedMatches
<1>4. PICK list \in Seq(Asertion) : list = postsById[post].asertions
  BY <1>1 DEF Post
<1>5. PICK after : after = [list EXCEPT ![i] = new]
  OBVIOUS
<1>6. /\ after \in Seq(Asertion) /\ DOMAIN after = DOMAIN list
      /\ \A k \in DOMAIN list : after[k] = IF k = i THEN new ELSE list[k]
  BY <1>1, <1>4, <1>5
<1>7. PICK edited \in Post : edited = [postsById[post] EXCEPT !.asertions = after]
  BY <1>1, <1>6 DEF Post
<1>8. edited.asertions = after /\ edited.document = postsById[post].document
  BY <1>1, <1>7 DEF Post
<1>9. postsById' = [postsById EXCEPT ![post] = edited]
  BY <1>2, <1>3, <1>4, <1>5, <1>7 DEF AddValidation
<1>10. /\ postsById' \in Seq(Post) /\ DOMAIN postsById' = DOMAIN postsById
       /\ \A p \in DOMAIN postsById :
            /\ postsById'[p].document = postsById[p].document
            /\ postsById'[p] = IF p = post THEN edited ELSE postsById[p]
  BY <1>1, <1>8, <1>9 DEF PostsInv
<1>11. OneValidationEach'
  <2>1. \A k \in DOMAIN list : IndexMatches(list[k])
    BY <1>1, <1>4, OneValidationMatches DEF PostsInv
  <2>2. \A k \in DOMAIN edited.asertions : IndexMatches(edited.asertions[k])
    BY <2>1, <1>3, <1>6, <1>8
  <2>3. \A p \in DOMAIN postsById' : \A k \in DOMAIN postsById'[p].asertions :
          IndexMatches(postsById'[p].asertions[k])
    BY <2>2, <1>10, OneValidationMatches DEF PostsInv
  <2> QED BY <2>3 DEF OneValidationEach, IndexMatches, Matches
<1>12. CidIsNewestPost'
  BY <1>1, <1>10 DEF PostsInv, CidIsNewestPost, getNewByCid
<1> QED BY <1>1, <1>10, <1>11, <1>12 DEF PostsInv

LEMMA NextIInv == IInv /\ [Next]_vars => IInv'
<1> SUFFICES ASSUME IInv, [Next]_vars PROVE IInv'
  OBVIOUS
<1>1. CASE UNCHANGED vars
  BY <1>1 DEF vars, registryVars, postVars, IInv, RegistryInv, PostsInv, IndexIsExact,
              OneValidationEach, CidIsNewestPost, getNewByCid
<1>2. ASSUME NEW sender \in Address, UNCHANGED postVars, RegistryInv'
      PROVE  IInv'
  BY <1>2 DEF IInv, postVars, PostsInv, OneValidationEach, CidIsNewestPost, getNewByCid
<1>3. ASSUME UNCHANGED <<categories, registryVars>>, PostsInv'
      PROVE  IInv'
  BY <1>3 DEF IInv, registryVars, RegistryInv, IndexIsExact
<1>4. ASSUME NEW sender \in Address, NEW ids \in CategoryList, NEW d \in Digest,
             RegisterValidator(sender, ids, d)
      PROVE  IInv'
  BY <1>2, <1>4, RegisterValidatorKeeps DEF IInv, RegisterValidator
<1>5. ASSUME NEW sender \in Address,
             \/ \E id \in CategoryId, isEmpty \in BOOLEAN : AddCategory(sender, id, isEmpty)
             \/ \E d \in Digest : UpdateValidatorConfig(sender, d)
             \/ UnregisterValidator(sender)
      PROVE  IInv'
  <2>1. UNCHANGED postVars
    BY <1>5 DEF AddCategory, UpdateValidatorConfig, UnregisterValidator
  <2> QED BY <2>1, <1>2, <1>5, OtherRegistryKeeps DEF IInv
<1>6. ASSUME NEW sender \in Address, NEW d \in Digest, NEW ids \in CategoryList,
             RegisterNew(sender, d, ids)
      PROVE  IInv'
  BY <1>3, <1>6, RegisterNewKeeps DEF IInv, RegisterNew
<1>7. ASSUME NEW sender \in Address, NEW post, NEW v \in Verdict, NEW d \in Digest, NEW i,
             AddValidation(sender, post, i, v, d)
      PROVE  IInv'
  BY <1>3, <1>7, AddValidationKeeps DEF IInv, AddValidation
<1> QED BY <1>1, <1>4, <1>5, <1>6, <1>7 DEF Next

\* Every reachable state satisfies the inductive invariant.
THEOREM Invariance == Spec => []IInv
BY InitIInv, NextIInv, PTL DEF Spec

\* An empty registry agrees with itself.
LEMMA InitLists == Init => ListsInv
<1> SUFFICES ASSUME Init PROVE ListsInv
  OBVIOUS
<1>1. ListsTyped
  BY DEF Init, ListsTyped
<1>2. \A x : Occurrences(<< >>, x) = 0
  <2>1. << >> \in Seq(Address)
    OBVIOUS
  <2>2. \A x : \A i \in DOMAIN << >> : << >>[i] # x
    OBVIOUS
  <2> QED BY <2>1, <2>2, PlacesAreFinite
<1>3. ListsAgree
  BY <1>2 DEF Init, ListsAgree
<1>4. GoneHaveNoCategories
  BY DEF Init, GoneHaveNoCategories
<1> QED BY <1>1, <1>3, <1>4 DEF ListsInv

\* The lists a caller passes are non-empty sequences of categories.
LEMMA ListIsSeq ==
  ASSUME NEW ids \in CategoryList
  PROVE  ids \in Seq(CategoryId) /\ \E n \in Nat \ {0} : ids \in [1..n -> CategoryId]
<1>1. PICK n \in 1..MaxLen : ids \in [1..n -> CategoryId]
  BY DEF CategoryList
<1>2. n \in Nat \ {0}
  BY BoundAssumption
<1> QED BY <1>1, <1>2

\* registerValidator pushes the caller once per entry of its own list, and
\* finds no entry of it: who is not registered has none.
LEMMA RegisterKeepsLists ==
  ASSUME NEW sender \in Address, NEW ids \in CategoryList, NEW config \in Digest,
         validators \in [Address -> Validator],
         ListsInv, RegisterValidator(sender, ids, config)
  PROVE  ListsInv'
<1>1. ids \in Seq(CategoryId)
  BY ListIsSeq
<1>2. /\ validatorsByCategory \in [CategoryId -> Seq(Address)]
      /\ validatorCategories \in [Address -> Seq(CategoryId)]
  BY DEF ListsInv, ListsTyped
<1>3. /\ validatorCategories' = [validatorCategories EXCEPT ![sender] = ids]
      /\ validatorCategories[sender] = << >>
      /\ validators' = [validators EXCEPT ![sender] = [exists |-> TRUE, ipfsConfig |-> config]]
  BY DEF RegisterValidator, ListsInv, GoneHaveNoCategories
<1>4. ASSUME NEW c \in CategoryId
      PROVE  /\ validatorsByCategory'[c] \in Seq(Address)
             /\ \A x \in Address : Occurrences(validatorsByCategory'[c], x) =
                  Occurrences(validatorsByCategory[c], x)
                    + (IF x = sender THEN Occurrences(ids, c) ELSE 0)
  <2>1. Occurrences(ids, c) \in Nat
    BY <1>1, PlacesAreFinite
  <2>2. PICK s \in Seq(Address) : s = validatorsByCategory[c]
    BY <1>2
  <2>3. PICK t \in Seq(Address) :
          /\ t = [k \in 1..Occurrences(ids, c) |-> sender]
          /\ \A x : Occurrences(t, x) = IF x = sender THEN Occurrences(ids, c) ELSE 0
    <3>1. PICK n \in Nat : n = Occurrences(ids, c)
      BY <2>1
    <3>2. Repeated(sender, n) \in Seq(Address)
      BY OccurrencesOfRepeated
    <3>3. \A x : Occurrences(Repeated(sender, n), x) = IF x = sender THEN n ELSE 0
      BY OccurrencesOfRepeated
    <3>4. Repeated(sender, n) = [k \in 1..Occurrences(ids, c) |-> sender]
      BY <3>1 DEF Repeated
    <3> QED BY <3>1, <3>2, <3>3, <3>4
  <2>4. validatorsByCategory'[c] = s \o t
    BY <2>2, <2>3 DEF RegisterValidator
  <2>5. s \o t \in Seq(Address) /\ \A x : Occurrences(s \o t, x) = Occurrences(s, x) + Occurrences(t, x)
    BY OccurrencesOfConcat
  <2> QED BY <2>2, <2>3, <2>4, <2>5
<1>5. ListsTyped'
  <2>1. validatorsByCategory' = [c \in CategoryId |-> validatorsByCategory'[c]]
    BY DEF RegisterValidator
  <2>2. validatorsByCategory' \in [CategoryId -> Seq(Address)]
    BY <1>4, <2>1
  <2>3. validatorCategories' \in [Address -> Seq(CategoryId)]
    BY <1>1, <1>2, <1>3
  <2> QED BY <2>2, <2>3 DEF ListsTyped
<1>6. ListsAgree'
  <2> SUFFICES ASSUME NEW a \in Address, NEW c \in CategoryId
               PROVE  Occurrences(validatorsByCategory'[c], a) = Occurrences(validatorCategories'[a], c)
    BY DEF ListsAgree
  <2>1. Occurrences(validatorsByCategory[c], a) = Occurrences(validatorCategories[a], c)
    BY DEF ListsInv, ListsAgree
  <2>2. Occurrences(validatorsByCategory[c], a) \in Nat /\ Occurrences(ids, c) \in Nat
    <3>1. validatorsByCategory[c] \in Seq(Address)
      BY <1>2
    <3> QED BY <1>1, <3>1, PlacesAreFinite
  <2>3. CASE a = sender
    <3>1. Occurrences(<< >>, c) = 0
      <4>1. << >> \in Seq(Address) /\ \A i \in DOMAIN << >> : << >>[i] # c
        OBVIOUS
      <4> QED BY <4>1, PlacesAreFinite
    <3>2. validatorCategories'[a] = ids
      BY <1>2, <1>3, <2>3
    <3> QED BY <1>3, <1>4, <2>1, <2>2, <2>3, <3>1, <3>2
  <2>4. CASE a # sender
    <3>1. validatorCategories'[a] = validatorCategories[a]
      BY <1>2, <1>3, <2>4
    <3> QED BY <1>4, <2>1, <2>2, <2>4, <3>1
  <2> QED BY <2>3, <2>4
<1>7. GoneHaveNoCategories'
  <2> SUFFICES ASSUME NEW a \in Address, ~ validators'[a].exists
               PROVE  validatorCategories'[a] = << >>
    BY DEF GoneHaveNoCategories
  <2>1. a # sender
    BY <1>3
  <2> QED BY <1>2, <1>3, <2>1 DEF ListsInv, GoneHaveNoCategories
<1> QED BY <1>5, <1>6, <1>7 DEF ListsInv

\* unregisterValidator removes exactly the entries of its caller.
LEMMA UnregisterKeepsLists ==
  ASSUME NEW sender \in Address, validators \in [Address -> Validator],
         ListsInv, UnregisterValidator(sender)
  PROVE  ListsInv'
<1>1. /\ validatorsByCategory \in [CategoryId -> Seq(Address)]
      /\ validatorCategories \in [Address -> Seq(CategoryId)]
  BY DEF ListsInv, ListsTyped
<1>2. PICK ids \in Seq(CategoryId) : ids = validatorCategories[sender]
  BY <1>1
<1>3. /\ validatorsByCategory' = Removed(sender, ids)
      /\ validatorCategories' = [validatorCategories EXCEPT ![sender] = << >>]
      /\ validators' = [validators EXCEPT ![sender] = NoValidator]
  BY <1>2 DEF UnregisterValidator
<1>4. \A c \in CategoryId : Occurrences(validatorsByCategory[c], sender) = Occurrences(ids, c)
  BY <1>2 DEF ListsInv, ListsAgree
<1>5. /\ Removed(sender, ids) \in [CategoryId -> Seq(Address)]
      /\ \A c \in CategoryId :
           /\ Occurrences(Removed(sender, ids)[c], sender) = 0
           /\ \A x \in Address : x # sender =>
                Occurrences(Removed(sender, ids)[c], x) = Occurrences(validatorsByCategory[c], x)
  BY <1>1, <1>4, RemovedLists
<1>6. ListsTyped'
  BY <1>1, <1>3, <1>5 DEF ListsTyped
<1>7. ListsAgree'
  <2> SUFFICES ASSUME NEW a \in Address, NEW c \in CategoryId
               PROVE  Occurrences(validatorsByCategory'[c], a) = Occurrences(validatorCategories'[a], c)
    BY DEF ListsAgree
  <2>1. CASE a = sender
    <3>1. Occurrences(<< >>, c) = 0
      <4>1. << >> \in Seq(Address) /\ \A i \in DOMAIN << >> : << >>[i] # c
        OBVIOUS
      <4> QED BY <4>1, PlacesAreFinite
    <3>2. validatorCategories'[a] = << >>
      BY <1>1, <1>3, <2>1
    <3> QED BY <1>3, <1>5, <2>1, <3>1, <3>2
  <2>2. CASE a # sender
    <3>1. validatorCategories'[a] = validatorCategories[a]
      BY <1>1, <1>3, <2>2
    <3>2. Occurrences(validatorsByCategory[c], a) = Occurrences(validatorCategories[a], c)
      BY DEF ListsInv, ListsAgree
    <3> QED BY <1>3, <1>5, <2>2, <3>1, <3>2
  <2> QED BY <2>1, <2>2
<1>8. GoneHaveNoCategories'
  <2> SUFFICES ASSUME NEW a \in Address, ~ validators'[a].exists
               PROVE  validatorCategories'[a] = << >>
    BY DEF GoneHaveNoCategories
  <2>1. CASE a = sender
    BY <1>1, <1>3, <2>1
  <2>2. CASE a # sender
    <3>1. ~ validators[a].exists
      BY <1>3, <2>2
    <3> QED BY <1>1, <1>3, <2>2, <3>1 DEF ListsInv, GoneHaveNoCategories
  <2> QED BY <2>1, <2>2
<1> QED BY <1>6, <1>7, <1>8 DEF ListsInv

\* Every transaction keeps the two directions of the registration equal.
LEMMA NextLists == RegistryInv /\ ListsInv /\ [Next]_vars => ListsInv'
<1> SUFFICES ASSUME RegistryInv, ListsInv, [Next]_vars PROVE ListsInv'
  OBVIOUS
<1>0. validators \in [Address -> Validator]
  BY DEF RegistryInv
<1>1. ASSUME UNCHANGED <<validatorsByCategory, validatorCategories>>,
             \A a \in Address : validators'[a].exists = validators[a].exists
      PROVE  ListsInv'
  BY <1>1 DEF ListsInv, ListsTyped, ListsAgree, GoneHaveNoCategories
<1>2. CASE UNCHANGED vars
  BY <1>1, <1>2 DEF vars, registryVars
<1>3. ASSUME NEW sender \in Address, NEW ids \in CategoryList, NEW d \in Digest,
             RegisterValidator(sender, ids, d)
      PROVE  ListsInv'
  BY <1>0, <1>3, RegisterKeepsLists
<1>4. ASSUME NEW sender \in Address, UnregisterValidator(sender)
      PROVE  ListsInv'
  BY <1>0, <1>4, UnregisterKeepsLists
<1>5. ASSUME NEW sender \in Address, NEW d \in Digest, UpdateValidatorConfig(sender, d)
      PROVE  ListsInv'
  <2>1. validators' = [validators EXCEPT ![sender].ipfsConfig = d]
    BY <1>5 DEF UpdateValidatorConfig
  <2>2. \A a \in Address : validators'[a].exists = validators[a].exists
    BY <1>0, <2>1 DEF Validator
  <2> QED BY <1>1, <1>5, <2>2 DEF UpdateValidatorConfig
<1>6. CASE UNCHANGED registryVars
  BY <1>1, <1>6 DEF registryVars
<1> QED BY <1>2, <1>3, <1>4, <1>5, <1>6 DEF Next, AddCategory, RegisterNew, AddValidation

\* The two directions of the registration agree in every reachable state.
THEOREM ListsInvariance == Spec => []ListsInv
<1>1. IInv => RegistryInv
  BY DEF IInv
<1> QED BY <1>1, InitLists, NextLists, Invariance, PTL DEF Spec

\* Every reachable state is well typed: the swap, push and overwrite of the
\* contract's arrays never leave a hole or a value of another type.
THEOREM TypeCorrect == Spec => []TypeOK
<1>1. IInv /\ ListsInv => TypeOK
  BY DEF IInv, RegistryInv, PostsInv, ListsInv, ListsTyped, TypeOK
<1> QED BY <1>1, Invariance, ListsInvariance, PTL

\* The registry tells one story through its three structures, for any number of
\* accounts and categories and after any sequence of registrations, updates and
\* removals: own lists and category lists agree entry by entry, only registered
\* validators are listed, and the view returns each of them once.
THEOREM RegistryTheorem == Spec => []RegistryIsConsistent
<1>1. IInv /\ ListsInv => RegistryIsConsistent
  <2>1. IInv => ActiveViewIsExact
    BY ActiveViewFollowsIndex DEF IInv, RegistryInv
  <2> QED BY <2>1, ListsKeepRegistered DEF ListsInv, RegistryIsConsistent
<1> QED BY <1>1, Invariance, ListsInvariance, PTL

\* addValidation keeps validations and validationIndex one map, for any number
\* of validators, assertions and repeated submissions.
THEOREM OneValidationTheorem == Spec => []OneValidationEach
<1>1. IInv => OneValidationEach
  BY DEF IInv, PostsInv
<1> QED BY <1>1, Invariance, PTL

\* getNewByCid answers with the newest post of a document.
THEOREM NewestPostTheorem == Spec => []CidIsNewestPost
<1>1. IInv => CidIsNewestPost
  BY DEF IInv, PostsInv
<1> QED BY <1>1, Invariance, PTL

\* The index getValidatorsWithConfig reads names every address that ever
\* registered exactly once.
THEOREM ExactIndexTheorem == Spec => []IndexIsExact
<1>1. IInv => IndexIsExact
  BY DEF IInv, RegistryInv
<1> QED BY <1>1, Invariance, PTL

-----------------------------------------------------------------------------
(* Durability of the validations. *)

\* addValidation leaves every validation of the assertion as it is, but for the
\* sender's own.
LEMMA ValidatedKeepsOthers ==
  ASSUME NEW as \in Asertion, IndexMatches(as),
         NEW sender \in Address, NEW v \in Verdict, NEW d \in Digest,
         NEW k \in DOMAIN as.validations
  PROVE  LET new == Validated(as, sender, v, d).validations[k]
         IN  \/ new = as.validations[k]
             \/ /\ as.validations[k].validator = sender
                /\ new.validator = sender /\ new.document = d
<1>1. PICK c \in CategoryId, list \in Seq(Validation), index \in [Address -> Nat] :
        as = [categoryId |-> c, validations |-> list, validationIndex |-> index]
  BY DEF Asertion
<1>2. PICK e \in Validation : e = [validator |-> sender, veredict |-> v, document |-> d]
  BY DEF Validation
<1>3. k \in DOMAIN list /\ as.validations = list
  BY <1>1
<1>4. CASE index[sender] = 0
  <2>1. Validated(as, sender, v, d).validations = Append(list, e)
    BY <1>1, <1>2, <1>4 DEF Validated
  <2>2. Append(list, e)[k] = list[k]
    BY <1>3
  <2> QED BY <2>1, <2>2, <1>3
<1>5. CASE index[sender] # 0
  <2>1. Validated(as, sender, v, d).validations = [list EXCEPT ![index[sender]] = e]
    BY <1>1, <1>2, <1>5 DEF Validated
  <2>2. index[sender] \in DOMAIN list /\ list[index[sender]].validator = sender
    BY <1>1, <1>5 DEF IndexMatches, Matches
  <2>3. CASE k = index[sender]
    BY <2>1, <2>2, <2>3, <1>2, <1>3
  <2>4. CASE k # index[sender]
    BY <2>1, <2>4, <1>3
  <2> QED BY <2>3, <2>4
<1> QED BY <1>4, <1>5

LEMMA NextAnnounces == IInv /\ [Next]_vars => [ChangesAreAnnounced]_vars
<1> SUFFICES ASSUME IInv, Next PROVE ChangesAreAnnounced
  OBVIOUS
<1>1. CASE postsById' = postsById
  BY <1>1 DEF ChangesAreAnnounced
<1>2. ASSUME NEW sender \in Address, NEW d \in Digest, NEW ids \in CategoryList,
             RegisterNew(sender, d, ids)
      PROVE  ChangesAreAnnounced
  <2>1. PICK post : postsById' = Append(postsById, post)
    BY <1>2 DEF RegisterNew
  <2>2. \A p \in DOMAIN postsById : postsById'[p] = postsById[p]
    BY <2>1 DEF IInv, PostsInv
  <2> QED BY <2>2 DEF ChangesAreAnnounced
<1>3. ASSUME NEW sender \in Address, NEW post \in DOMAIN postsById, NEW v \in Verdict,
             NEW d \in Digest, NEW i \in DOMAIN postsById[post].asertions,
             AddValidation(sender, post, i, v, d)
      PROVE  ChangesAreAnnounced
  <2>1. /\ postsById \in Seq(Post) /\ postsById[post] \in Post
        /\ postsById[post].asertions \in Seq(Asertion)
    <3>1. postsById \in Seq(Post) /\ postsById[post] \in Post
      BY DEF IInv, PostsInv
    <3> QED BY <3>1 DEF Post
  <2>2. PICK as \in Asertion : as = postsById[post].asertions[i] /\ IndexMatches(as)
    BY <2>1, OneValidationMatches DEF IInv, PostsInv
  <2>3. PICK new : new = Validated(as, sender, v, d)
    OBVIOUS
  <2>4. /\ emitted' = <<ValidationSubmitted(post, i - 1, sender, d)>>
        /\ postsById' = [postsById EXCEPT ![post].asertions[i] = new]
    BY <1>3, <2>2, <2>3 DEF AddValidation
  <2>5. ASSUME NEW p \in DOMAIN postsById, p # post
        PROVE  postsById'[p] = postsById[p]
    BY <2>4, <2>5
  <2>6. postsById'[post].asertions = [postsById[post].asertions EXCEPT ![i] = new]
    <3>1. postsById'[post] = [postsById[post] EXCEPT !.asertions = [@ EXCEPT ![i] = new]]
      BY <2>4
    <3> QED BY <2>1, <3>1 DEF Post
  <2>7. ASSUME NEW p \in DOMAIN postsById, NEW j \in DOMAIN postsById[p].asertions,
               NEW k \in DOMAIN postsById[p].asertions[j].validations
        PROVE  LET old == postsById[p].asertions[j].validations[k]
                   next == postsById'[p].asertions[j].validations[k]
               IN  /\ next.validator = old.validator
                   /\ next # old =>
                        emitted' = <<ValidationSubmitted(p, j - 1, old.validator, next.document)>>
    <3>1. CASE p = post /\ j = i
      <4>1. postsById'[p].asertions[j] = new /\ postsById[p].asertions[j] = as
        BY <3>1, <2>2, <2>6
      <4>2. \/ new.validations[k] = as.validations[k]
            \/ /\ as.validations[k].validator = sender
               /\ new.validations[k].validator = sender /\ new.validations[k].document = d
        BY <4>1, <2>2, <2>3, ValidatedKeepsOthers
      <4> QED BY <3>1, <4>1, <4>2, <2>4
    <3>2. CASE ~ (p = post /\ j = i)
      BY <3>2, <2>5, <2>6
    <3> QED BY <3>1, <3>2
  <2> QED BY <2>7 DEF ChangesAreAnnounced
<1>4. postsById' = postsById
      \/ \E sender \in Address :
           \/ \E d \in Digest, ids \in CategoryList : RegisterNew(sender, d, ids)
           \/ \E post \in DOMAIN postsById, v \in Verdict, d \in Digest :
                \E i \in DOMAIN postsById[post].asertions : AddValidation(sender, post, i, v, d)
  BY DEF Next, AddCategory, RegisterValidator, UpdateValidatorConfig, UnregisterValidator, postVars
<1> QED BY <1>1, <1>2, <1>3, <1>4

\* A validation on chain is never lost, moved or given to another address.
THEOREM DurableTheorem == Spec => ValidationsAreDurable
BY Invariance, NextAnnounces, PTL DEF Spec, ValidationsAreDurable

-----------------------------------------------------------------------------
(* Who is asked to validate. *)

\* The events of a registerNew name a validator for an assertion exactly when
\* the list of its category holds it: the flattened list of requests mixes no
\* two assertions.
LEMMA RegisterNewAddresses ==
  ASSUME ListsInv, NEW sender \in Address, NEW digest \in Digest, NEW ids \in CategoryList,
         RegisterNew(sender, digest, ids), NEW i \in DOMAIN ids, NEW a \in Address
  PROVE  RequestSent(i, a) <=>
           \E k \in DOMAIN validatorsByCategory[ids[i]] : validatorsByCategory[ids[i]][k] = a
<1>1. PICK n \in Nat \ {0} : ids \in [1..n -> CategoryId]
  BY ListIsSeq
<1> DEFINE post == postCounter + 1
           E == [event : {"ValidationRequested"}, postId : {post}, asertionIndex : Nat,
                 validator : Address]
           seqs == [j \in 1..n |-> RequestsFor(post, ids, j)]
<1>2. \A j \in 1..n : validatorsByCategory[ids[j]] \in Seq(Address)
  BY <1>1 DEF ListsInv, ListsTyped
<1>3. ASSUME NEW j \in 1..n
      PROVE  /\ RequestsFor(post, ids, j) \in Seq(E)
             /\ DOMAIN RequestsFor(post, ids, j) = DOMAIN validatorsByCategory[ids[j]]
             /\ \A k \in DOMAIN validatorsByCategory[ids[j]] :
                  RequestsFor(post, ids, j)[k] =
                    [event |-> "ValidationRequested", postId |-> post, asertionIndex |-> j - 1,
                     validator |-> validatorsByCategory[ids[j]][k]]
  <2>1. PICK s \in Seq(Address) : s = validatorsByCategory[ids[j]]
    BY <1>2
  <2>2. j - 1 \in Nat
    OBVIOUS
  <2> HIDE DEF post
  <2>3. RequestsFor(post, ids, j) =
          [k \in DOMAIN s |->
             [event |-> "ValidationRequested", postId |-> post, asertionIndex |-> j - 1,
              validator |-> s[k]]]
    BY <2>1 DEF RequestsFor, ValidationRequested
  <2>4. DOMAIN s = 1..Len(s) /\ Len(s) \in Nat /\ \A k \in DOMAIN s : s[k] \in Address
    OBVIOUS
  <2>5. \A k \in DOMAIN s :
          [event |-> "ValidationRequested", postId |-> post, asertionIndex |-> j - 1,
           validator |-> s[k]] \in E
    BY <2>2, <2>4
  <2> HIDE DEF E
  <2>6. RequestsFor(post, ids, j) \in Seq(E)
    BY <2>3, <2>4, <2>5
  <2> QED BY <2>1, <2>3, <2>6
<1>4. /\ FlattenSeq(seqs) \in Seq(E)
      /\ Range(FlattenSeq(seqs)) = UNION {Range(seqs[j]) : j \in 1..n}
  <2>1. seqs \in [1..n -> Seq(E)]
    <3> HIDE DEF E, post
    <3> QED BY <1>3
  <2> HIDE DEF seqs, E
  <2> QED BY <2>1, FlattenRange
<1>5. PICK flat \in Seq(E) : flat = FlattenSeq(seqs)
  <2> HIDE DEF seqs, E
  <2> QED BY <1>4
<1>6. PICK r : r = RegisterNewResult(post, digest, [j \in DOMAIN ids |-> validatorsByCategory[ids[j]]])
  OBVIOUS
<1>7. r.event = "RegisterNewResult"
  BY <1>6 DEF RegisterNewResult
<1>8. emitted' = Append(flat, r)
  <2>1. [j \in DOMAIN ids |-> RequestsFor(post, ids, j)] = seqs
    BY <1>1
  <2> QED BY <1>5, <1>6, <2>1 DEF RegisterNew
<1>9. /\ Len(flat) \in Nat /\ DOMAIN flat = 1..Len(flat)
      /\ DOMAIN emitted' = 1..(Len(flat) + 1)
      /\ \A k \in DOMAIN flat : emitted'[k] = flat[k]
      /\ emitted'[Len(flat) + 1] = r
  BY <1>8
<1>10. ASSUME RequestSent(i, a)
       PROVE  \E k \in DOMAIN validatorsByCategory[ids[i]] : validatorsByCategory[ids[i]][k] = a
  <2>1. PICK k \in DOMAIN emitted' :
          /\ emitted'[k].event = "ValidationRequested"
          /\ emitted'[k].asertionIndex = i - 1
          /\ emitted'[k].validator = a
    BY <1>10 DEF RequestSent
  <2>2. k \in DOMAIN flat
    BY <1>7, <1>9, <2>1
  <2>3. flat[k] \in Range(flat)
    BY <2>2 DEF Range
  <2>4. PICK j \in 1..n : flat[k] \in Range(seqs[j])
    <3> HIDE DEF seqs, E
    <3> QED BY <1>4, <1>5, <2>3
  <2>5. PICK m \in DOMAIN validatorsByCategory[ids[j]] : flat[k] = RequestsFor(post, ids, j)[m]
    <3>1. flat[k] \in Range(RequestsFor(post, ids, j))
      BY <2>4
    <3> HIDE DEF post, seqs, E
    <3> QED BY <1>3, <3>1 DEF Range
  <2>6. flat[k].asertionIndex = j - 1 /\ flat[k].validator = validatorsByCategory[ids[j]][m]
    <3> HIDE DEF post, seqs, E
    <3>1. RequestsFor(post, ids, j)[m] =
            [event |-> "ValidationRequested", postId |-> post, asertionIndex |-> j - 1,
             validator |-> validatorsByCategory[ids[j]][m]]
      BY <1>3
    <3>2. flat[k] = [event |-> "ValidationRequested", postId |-> post, asertionIndex |-> j - 1,
                     validator |-> validatorsByCategory[ids[j]][m]]
      BY <2>5, <3>1
    <3> QED BY <3>2
  <2>7. i \in Nat \ {0} /\ j \in Nat \ {0} /\ i - 1 = j - 1
    BY <1>1, <1>9, <2>1, <2>2, <2>6
  <2>8. i = j
    BY <2>7
  <2> QED BY <1>9, <2>1, <2>2, <2>5, <2>6, <2>8
<1>11. ASSUME NEW k \in DOMAIN validatorsByCategory[ids[i]], validatorsByCategory[ids[i]][k] = a
       PROVE  RequestSent(i, a)
  <2>1. i \in 1..n
    BY <1>1
  <2> DEFINE e == RequestsFor(post, ids, i)[k]
  <2>2. /\ e = [event |-> "ValidationRequested", postId |-> post, asertionIndex |-> i - 1,
                validator |-> a]
        /\ e \in Range(RequestsFor(post, ids, i))
    <3>1. k \in DOMAIN RequestsFor(post, ids, i)
      BY <1>3, <2>1, <1>11
    <3> HIDE DEF post, seqs, E
    <3> QED BY <1>3, <1>11, <2>1, <3>1 DEF Range
  <2>3. e \in Range(seqs[i])
    BY <2>1, <2>2
  <2>4. e \in Range(flat)
    <3> HIDE DEF seqs, E, e
    <3> QED BY <1>4, <1>5, <2>1, <2>3
  <2>5. PICK m \in DOMAIN flat : flat[m] = e
    <3> HIDE DEF e
    <3> QED BY <2>4 DEF Range
  <2>6. m \in DOMAIN emitted' /\ emitted'[m] = e
    BY <1>9, <2>5
  <2>7. e.event = "ValidationRequested" /\ e.asertionIndex = i - 1 /\ e.validator = a
    <3> HIDE DEF e, post
    <3> QED BY <2>2
  <2> HIDE DEF e
  <2> QED BY <2>6, <2>7 DEF RequestSent
<1> QED BY <1>10, <1>11

\* A step that adds a post asks the registered validators of its categories.
LEMMA NextReaches ==
  postsById \in Seq(Post) /\ ListsInv /\ [Next]_vars => [RequestsReach]_vars
<1> SUFFICES ASSUME postsById \in Seq(Post), ListsInv, Next PROVE RequestsReach
  OBVIOUS
<1>1. CASE postsById' = postsById
  BY <1>1 DEF RequestsReach
<1>2. ASSUME NEW sender \in Address, NEW d \in Digest, NEW ids \in CategoryList,
             RegisterNew(sender, d, ids)
      PROVE  RequestsReach
  <2>1. PICK n \in Nat \ {0} : ids \in [1..n -> CategoryId]
    BY ListIsSeq
  <2>2. PICK post : /\ postsById' = Append(postsById, post)
                    /\ post = [document |-> d, publisher |-> sender,
                               asertions |-> [i \in DOMAIN ids |-> NewAsertion(ids[i])]]
    BY <1>2 DEF RegisterNew
  <2>3. postsById'[Len(postsById')] = post
    BY <2>2
  <2>4. /\ DOMAIN post.asertions = DOMAIN ids
        /\ \A i \in DOMAIN ids : post.asertions[i].categoryId = ids[i]
    BY <2>2 DEF NewAsertion
  <2> SUFFICES ASSUME NEW i \in DOMAIN ids, NEW a \in Address
               PROVE  RequestSent(i, a) <=>
                        /\ validators[a].exists
                        /\ \E k \in DOMAIN validatorCategories[a] :
                             validatorCategories[a][k] = ids[i]
    BY <2>3, <2>4 DEF RequestsReach
  <2>5. ids[i] \in CategoryId
    BY <2>1
  <2>6. RequestSent(i, a) <=>
          \E k \in DOMAIN validatorsByCategory[ids[i]] : validatorsByCategory[ids[i]][k] = a
    BY <1>2, RegisterNewAddresses
  <2>7. RequestSent(i, a) <=>
          \E k \in DOMAIN validatorCategories[a] : validatorCategories[a][k] = ids[i]
    BY <2>5, <2>6, ListedOnce
  <2>8. (\E k \in DOMAIN validatorCategories[a] : validatorCategories[a][k] = ids[i])
          => validators[a].exists
    <3>1. validatorCategories[a] = << >> => DOMAIN validatorCategories[a] = {}
      OBVIOUS
    <3> QED BY <3>1 DEF ListsInv, GoneHaveNoCategories
  <2> QED BY <2>7, <2>8
<1>3. ASSUME NEW sender \in Address, NEW post, NEW v \in Verdict, NEW d \in Digest, NEW i,
             AddValidation(sender, post, i, v, d)
      PROVE  RequestsReach
  <2>1. PICK new : postsById' = [postsById EXCEPT ![post] = new]
    BY <1>3 DEF AddValidation
  <2>2. Len(postsById') = Len(postsById) /\ Len(postsById) \in Nat
    BY <2>1
  <2> QED BY <2>2 DEF RequestsReach
<1>4. postsById' = postsById
      \/ \E sender \in Address :
           \/ \E d \in Digest, ids \in CategoryList : RegisterNew(sender, d, ids)
           \/ \E post \in DOMAIN postsById, v \in Verdict, d \in Digest :
                \E i \in DOMAIN postsById[post].asertions : AddValidation(sender, post, i, v, d)
  BY DEF Next, AddCategory, RegisterValidator, UpdateValidatorConfig, UnregisterValidator, postVars
<1> QED BY <1>1, <1>2, <1>3, <1>4

\* The requests of a registerNew go, for every assertion, to exactly the
\* validators that are registered for its category at that moment.
THEOREM RequestsTheorem == Spec => RequestsReachTheCategory
<1>1. IInv => postsById \in Seq(Post)
  BY DEF IInv, PostsInv
<1> QED BY <1>1, Invariance, ListsInvariance, NextReaches, PTL DEF Spec, RequestsReachTheCategory
=============================================================================
