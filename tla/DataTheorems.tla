---------------------------- MODULE DataTheorems ----------------------------
(***************************************************************************)
(* Induction and recursion over data, from first-order facts only.  The    *)
(* induction theorems of the library take a predicate as a parameter, a    *)
(* form no available back-end instantiates; here the predicate is a set,   *)
(* and natural induction itself follows from the pigeonhole principle.     *)
(* The lemmas say what the loops of the code compute: a loop over a list   *)
(* is a function on 0..n, a fold over a set a function on its subsets; and *)
(* a list sorted by a key takes the position of every rank, once each.     *)
(***************************************************************************)
EXTENDS Integers, Sequences, FiniteSets, SequencesExt, FiniteSetTheorems, SequenceTheorems, TLAPS

\* Induction: a set that holds 0 and, with a number, the next one, holds every
\* natural number. A smallest counterexample n would make k |-> k - 1 an
\* injection of the counterexamples up to n into one fewer.
LEMMA NatSetInduction ==
  ASSUME NEW S, 0 \in S, \A n \in Nat : n \in S => n + 1 \in S
  PROVE  Nat \subseteq S
<1> SUFFICES ASSUME NEW n \in Nat, n \notin S PROVE FALSE
  OBVIOUS
<1> DEFINE D == {k \in 0..n : k \notin S}
<1>1. IsFiniteSet(D)
  <2>1. IsFiniteSet(0..n)
    BY FS_Interval
  <2> QED BY <2>1, FS_Subset
<1>2. n \in D
  OBVIOUS
<1>3. IsFiniteSet(D \ {n}) /\ Cardinality(D \ {n}) = Cardinality(D) - 1 /\ Cardinality(D) \in Nat
  BY <1>1, <1>2, FS_RemoveElement, FS_CardinalityType
<1>4. \A k \in D : k - 1 \in D \ {n}
  <2> SUFFICES ASSUME NEW k \in D PROVE k - 1 \in D \ {n}
    OBVIOUS
  <2>1. k \in Nat /\ k # 0 /\ k <= n
    OBVIOUS
  <2>2. k - 1 \in Nat /\ (k - 1) + 1 = k
    BY <2>1
  <2> QED BY <2>1, <2>2
<1> DEFINE down == [k \in D |-> k - 1]
<1>5. down \in [D -> D \ {n}]
  BY <1>4
<1>6. PICK x, y \in D : x # y /\ down[x] = down[y]
  <2> HIDE DEF D, down
  <2>1. Cardinality(D \ {n}) < Cardinality(D)
    BY <1>3
  <2> QED BY <1>1, <1>3, <1>5, <2>1, FS_PigeonHole
<1> QED BY <1>6

\* A non-empty set of naturals has a least element.
LEMMA LeastNatural ==
  ASSUME NEW T \in SUBSET Nat, T # {}
  PROVE  \E n \in T : \A m \in T : n <= m
<1> SUFFICES ASSUME \A n \in T : \E m \in T : m < n PROVE FALSE
  OBVIOUS
<1> DEFINE S == {n \in Nat : \A m \in T : m > n}
<1>1. 0 \in S
  OBVIOUS
<1>2. \A n \in Nat : n \in S => n + 1 \in S
  OBVIOUS
<1>3. Nat \subseteq S
  <2> HIDE DEF S
  <2> QED BY <1>1, <1>2, NatSetInduction
<1>4. PICK t \in T : TRUE
  OBVIOUS
<1>5. t \in S
  BY <1>3, <1>4
<1>6. t > t
  BY <1>4, <1>5
<1> QED BY <1>6

\* Induction over the subsets of a finite set: a family that holds the empty
\* set, and a set as soon as it holds all its proper subsets, holds them all.
LEMMA FiniteSetInduction ==
  ASSUME NEW S, IsFiniteSet(S), NEW F, {} \in F,
         \A T \in SUBSET S : T # {} /\ (\A R \in SUBSET T : R # T => R \in F) => T \in F
  PROVE  \A T \in SUBSET S : T \in F
<1> DEFINE G == {n \in Nat : \A T \in SUBSET S : Cardinality(T) <= n => T \in F}
<1>0. \A T \in SUBSET S : IsFiniteSet(T) /\ Cardinality(T) \in Nat
  BY FS_Subset, FS_CardinalityType
<1>1. 0 \in G
  <2> SUFFICES ASSUME NEW T \in SUBSET S, Cardinality(T) <= 0 PROVE T \in F
    OBVIOUS
  <2>1. IsFiniteSet(T) /\ Cardinality(T) = 0
    BY <1>0
  <2> QED BY <2>1, FS_EmptySet
<1>2. \A n \in Nat : n \in G => n + 1 \in G
  <2> SUFFICES ASSUME NEW n \in Nat, n \in G, NEW T \in SUBSET S, Cardinality(T) <= n + 1
               PROVE  T \in F
    OBVIOUS
  <2>1. CASE T = {}
    BY <2>1
  <2>2. CASE T # {}
    <3> SUFFICES ASSUME NEW R \in SUBSET T, R # T PROVE R \in F
      BY <2>2
    <3>1. IsFiniteSet(T) /\ Cardinality(T) \in Nat /\ Cardinality(R) \in Nat
      BY <1>0
    <3>2. Cardinality(R) <= Cardinality(T) /\ Cardinality(R) # Cardinality(T)
      BY <3>1, FS_Subset
    <3>3. Cardinality(R) <= n
      BY <3>1, <3>2
    <3> QED BY <3>3
  <2> QED BY <2>1, <2>2
<1>3. Nat \subseteq G
  <2> HIDE DEF G
  <2> QED BY <1>1, <1>2, NatSetInduction
<1> QED BY <1>0, <1>3

\* The element the folds of the library take off a set.
AnyOf(T) == CHOOSE x \in T : TRUE

\* A fold over the subsets of S, with values in V.
FoldsOver(iter, S, V, base, step) ==
  /\ iter \in [SUBSET S -> V]
  /\ \A T \in SUBSET S : iter[T] = IF T = {} THEN base ELSE step[AnyOf(T)][iter[T \ {AnyOf(T)}]]

\* A fold over a finite set exists: the function on its subsets that takes the
\* element off and applies the step to the value of the rest.
LEMMA RecursionOnSubsets ==
  ASSUME NEW S, IsFiniteSet(S), NEW V, NEW base \in V,
         NEW step \in [S -> [V -> V]]
  PROVE  \E iter : FoldsOver(iter, S, V, base, step)
<1> DEFINE Small(n) == {T \in SUBSET S : Cardinality(T) <= n}
           Solves(g, D) == /\ g \in [D -> V]
                           /\ \A T \in D : g[T] = IF T = {} THEN base
                                             ELSE step[AnyOf(T)][g[T \ {AnyOf(T)}]]
           G == {n \in Nat : \E g : Solves(g, Small(n))}
<1>a. \A T \in SUBSET S : T # {} => AnyOf(T) \in T
  BY DEF AnyOf
<1>b. \A x \in S : \A v \in V : step[x][v] \in V
  OBVIOUS
<1>0. \A T \in SUBSET S : IsFiniteSet(T) /\ Cardinality(T) \in Nat
  BY FS_Subset, FS_CardinalityType
<1>1. 0 \in G
  <2>1. \A T \in Small(0) : T = {}
    BY <1>0, FS_EmptySet
  <2>2. Solves([T \in Small(0) |-> base], Small(0))
    BY <2>1
  <2> QED BY <2>2
<1>2. \A n \in Nat : n \in G => n + 1 \in G
  <2> SUFFICES ASSUME NEW n \in Nat, n \in G PROVE n + 1 \in G
    OBVIOUS
  <2>1. PICK g : Solves(g, Small(n))
    OBVIOUS
  <2> DEFINE h == [T \in Small(n + 1) |-> IF T = {} THEN base
                                           ELSE step[AnyOf(T)][g[T \ {AnyOf(T)}]]]
  <2>2. \A T \in Small(n + 1) : T # {} => T \ {AnyOf(T)} \in Small(n)
    <3> SUFFICES ASSUME NEW T \in Small(n + 1), T # {} PROVE T \ {AnyOf(T)} \in Small(n)
      OBVIOUS
    <3>1. IsFiniteSet(T) /\ Cardinality(T) \in Nat /\ Cardinality(T) <= n + 1
      BY <1>0
    <3>2. Cardinality(T \ {AnyOf(T)}) = Cardinality(T) - 1
      BY <1>a, <3>1, FS_RemoveElement
    <3>3. Cardinality(T \ {AnyOf(T)}) <= n
      BY <3>1, <3>2
    <3> QED BY <3>3
  <2>3. h \in [Small(n + 1) -> V]
    BY <1>a, <1>b, <2>1, <2>2
  <2>4. \A T \in Small(n) : T \in Small(n + 1) /\ h[T] = g[T]
    <3> SUFFICES ASSUME NEW T \in Small(n) PROVE T \in Small(n + 1) /\ h[T] = g[T]
      OBVIOUS
    <3>1. Cardinality(T) \in Nat /\ Cardinality(T) <= n
      BY <1>0
    <3>2. T \in Small(n + 1)
      BY <3>1
    <3> QED BY <2>1, <3>2
  <2>5. \A T \in Small(n + 1) : h[T] = IF T = {} THEN base ELSE step[AnyOf(T)][h[T \ {AnyOf(T)}]]
    <3> HIDE DEF Small
    <3> QED BY <2>2, <2>4
  <2>6. Solves(h, Small(n + 1))
    BY <2>3, <2>5
  <2>7. \E k : Solves(k, Small(n + 1))
    BY <2>6
  <2> HIDE DEF Small, Solves
  <2> QED BY <2>7
<1>3. Nat \subseteq G
  <2> HIDE DEF G
  <2> QED BY <1>1, <1>2, NatSetInduction
<1>4. Cardinality(S) \in Nat /\ Small(Cardinality(S)) = SUBSET S
  BY <1>0, FS_Subset
<1>5. PICK iter : Solves(iter, SUBSET S)
  <2>1. Cardinality(S) \in G
    BY <1>3, <1>4
  <2>2. PICK g : Solves(g, Small(Cardinality(S)))
    BY <2>1
  <2>3. Solves(g, SUBSET S)
    <3> HIDE DEF Small, Solves
    <3> QED BY <1>4, <2>2
  <2> HIDE DEF Small, Solves
  <2> QED BY <2>3
<1> QED BY <1>5 DEF FoldsOver

\* Induction along the passes 0..n of a loop.
LEMMA IntervalInduction ==
  ASSUME NEW n \in Nat, NEW S, 0 \in S, \A k \in 0..(n - 1) : k \in S => k + 1 \in S
  PROVE  \A k \in 0..n : k \in S
<1> DEFINE T == {k \in Nat : k <= n => k \in S}
<1>1. 0 \in T
  OBVIOUS
<1>2. \A k \in Nat : k \in T => k + 1 \in T
  OBVIOUS
<1>3. Nat \subseteq T
  <2> HIDE DEF T
  <2> QED BY <1>1, <1>2, NatSetInduction
<1> QED BY <1>3

\* A loop of n passes exists: the function that maps each pass to the value
\* after it.
LEMMA RecursionOnInterval ==
  ASSUME NEW n \in Nat, NEW V, NEW base \in V, NEW step,
         \A k \in 1..n : \A v \in V : step[k][v] \in V
  PROVE  \E f : /\ f = [k \in 0..n |-> IF k = 0 THEN base ELSE step[k][f[k - 1]]]
                /\ f \in [0..n -> V]
<1> DEFINE Solves(f, m) == /\ f \in [0..m -> V]
                           /\ \A k \in 0..m : f[k] = IF k = 0 THEN base ELSE step[k][f[k - 1]]
           S == {m \in 0..n : \E f : Solves(f, m)}
<1>1. 0 \in S
  <2>1. Solves([k \in 0..0 |-> base], 0)
    OBVIOUS
  <2>2. \E f : Solves(f, 0)
    BY <2>1
  <2> HIDE DEF Solves
  <2> QED BY <2>2
<1>2. \A m \in 0..(n - 1) : m \in S => m + 1 \in S
  <2> SUFFICES ASSUME NEW m \in 0..(n - 1), NEW f, Solves(f, m) PROVE m + 1 \in S
    OBVIOUS
  <2> DEFINE g == [k \in 0..(m + 1) |-> IF k <= m THEN f[k] ELSE step[k][f[m]]]
  <2>1. f[m] \in V /\ m + 1 \in 1..n
    OBVIOUS
  <2>2. g \in [0..(m + 1) -> V]
    <3> SUFFICES ASSUME NEW k \in 0..(m + 1) PROVE g[k] \in V
      OBVIOUS
    <3>1. CASE k <= m
      BY <3>1
    <3>2. CASE k = m + 1
      BY <2>1, <3>2
    <3> QED BY <3>1, <3>2
  <2>3. ASSUME NEW k \in 0..(m + 1)
        PROVE  g[k] = IF k = 0 THEN base ELSE step[k][g[k - 1]]
    <3>1. CASE k <= m
      <4>1. k # 0 => k - 1 \in 0..m
        BY <3>1
      <4> QED BY <3>1, <4>1
    <3>2. CASE k = m + 1
      <4>1. k # 0 /\ k - 1 = m /\ ~ k <= m /\ m \in 0..(m + 1) /\ m <= m
        BY <3>2
      <4>2. g[k - 1] = f[m] /\ g[k] = step[k][f[m]]
        BY <4>1
      <4> QED BY <4>1, <4>2
    <3> QED BY <3>1, <3>2
  <2>4. Solves(g, m + 1)
    BY <2>2, <2>3
  <2>5. \E h : Solves(h, m + 1)
    BY <2>4
  <2> HIDE DEF Solves
  <2> QED BY <2>5
<1>3. \A m \in 0..n : m \in S
  <2> HIDE DEF S
  <2> QED BY <1>1, <1>2, IntervalInduction
<1>4. PICK f : Solves(f, n)
  <2>1. n \in S
    BY <1>3
  <2> HIDE DEF Solves
  <2> QED BY <2>1
<1>5. f = [k \in 0..n |-> IF k = 0 THEN base ELSE step[k][f[k - 1]]]
  BY <1>4
<1> QED BY <1>4, <1>5

\* The elements of a concatenation are those of its two parts.
LEMMA RangeOfConcat ==
  ASSUME NEW E, NEW s \in Seq(E), NEW t \in Seq(E)
  PROVE  s \o t \in Seq(E) /\ Range(s \o t) = Range(s) \cup Range(t)
<1>1. Len(s) \in Nat /\ Len(t) \in Nat /\ DOMAIN s = 1..Len(s) /\ DOMAIN t = 1..Len(t)
  OBVIOUS
<1>2. /\ s \o t \in Seq(E) /\ DOMAIN (s \o t) = 1..(Len(s) + Len(t))
      /\ \A i \in 1..(Len(s) + Len(t)) :
           (s \o t)[i] = IF i <= Len(s) THEN s[i] ELSE t[i - Len(s)]
  OBVIOUS
<1>3. \A i \in 1..Len(t) : Len(s) + i \in 1..(Len(s) + Len(t)) /\ (s \o t)[Len(s) + i] = t[i]
  BY <1>1, <1>2
<1>4. \A i \in 1..Len(s) : i \in 1..(Len(s) + Len(t)) /\ (s \o t)[i] = s[i]
  BY <1>1, <1>2
<1>5. \A i \in 1..(Len(s) + Len(t)) :
        \/ i \in 1..Len(s) /\ (s \o t)[i] = s[i]
        \/ i - Len(s) \in 1..Len(t) /\ (s \o t)[i] = t[i - Len(s)]
  BY <1>1, <1>2
<1> DEFINE u == s \o t
<1>6. \A i \in DOMAIN u : u[i] \in Range(s) \cup Range(t)
  BY <1>1, <1>2, <1>5 DEF Range
<1>7. \A i \in DOMAIN s : s[i] \in Range(u)
  <2> SUFFICES ASSUME NEW i \in DOMAIN s PROVE s[i] \in Range(u)
    OBVIOUS
  <2>1. i \in DOMAIN u /\ u[i] = s[i]
    BY <1>1, <1>2, <1>4
  <2> HIDE DEF u
  <2> QED BY <2>1 DEF Range
<1>8. \A i \in DOMAIN t : t[i] \in Range(u)
  <2> SUFFICES ASSUME NEW i \in DOMAIN t PROVE t[i] \in Range(u)
    OBVIOUS
  <2>1. Len(s) + i \in DOMAIN u /\ u[Len(s) + i] = t[i]
    BY <1>1, <1>2, <1>3
  <2> HIDE DEF u
  <2> QED BY <2>1 DEF Range
<1>9. u \in Seq(E)
  BY <1>2
<1> HIDE DEF u
<1>10. Range(u) = Range(s) \cup Range(t)
  <2>1. Range(u) \subseteq Range(s) \cup Range(t)
    BY <1>6 DEF Range
  <2>2. Range(s) \subseteq Range(u)
    BY <1>7 DEF Range
  <2>3. Range(t) \subseteq Range(u)
    BY <1>8 DEF Range
  <2> QED BY <2>1, <2>2, <2>3
<1> QED BY <1>9, <1>10 DEF u

\* The elements of a flattened list of lists are those of its lists.
LEMMA FlattenRange ==
  ASSUME NEW E, NEW n \in Nat \ {0}, NEW seqs \in [1..n -> Seq(E)]
  PROVE  /\ FlattenSeq(seqs) \in Seq(E)
         /\ Range(FlattenSeq(seqs)) = UNION {Range(seqs[i]) : i \in 1..n}
<1>0. Len(seqs) = n
  OBVIOUS
<1> DEFINE step == [k \in 1..n |-> [v \in Seq(E) |-> v \o seqs[k]]]
<1>1. PICK f : /\ f = [k \in 0..n |-> IF k = 0 THEN << >> ELSE step[k][f[k - 1]]]
               /\ f \in [0..n -> Seq(E)]
  <2>1. \A k \in 1..n : \A v \in Seq(E) : step[k][v] \in Seq(E)
    OBVIOUS
  <2> DEFINE V == Seq(E)
             base == << >>
  <2>2. base \in V
    OBVIOUS
  <2>3. \A k \in 1..n : \A v \in V : step[k][v] \in V
    BY <2>1
  <2>4. n \in Nat
    OBVIOUS
  <2> HIDE DEF step, V, base
  <2>5. \E f : /\ f = [k \in 0..n |-> IF k = 0 THEN base ELSE step[k][f[k - 1]]]
               /\ f \in [0..n -> V]
    BY <2>2, <2>3, <2>4, RecursionOnInterval, ZenonT(40)
  <2> QED BY <2>5 DEF V, base
<1>2. f[0] = << >> /\ \A k \in 1..n : f[k - 1] \in Seq(E) /\ f[k] = f[k - 1] \o seqs[k]
  <2>1. f[0] = << >>
    BY <1>1
  <2>2. ASSUME NEW k \in 1..n PROVE f[k - 1] \in Seq(E) /\ f[k] = f[k - 1] \o seqs[k]
    <3>1. k \in 0..n /\ k # 0 /\ k - 1 \in 0..n
      OBVIOUS
    <3>2. f[k - 1] \in Seq(E) /\ f[k] = step[k][f[k - 1]]
      BY <1>1, <3>1
    <3> QED BY <3>2
  <2> QED BY <2>1, <2>2
<1> DEFINE Flat(g) == g = [i \in 1..n |-> IF i = 1 THEN seqs[i] ELSE g[i - 1] \o seqs[i]]
<1>3. \E g : Flat(g)
  <2> DEFINE g == [i \in 1..n |-> f[i]]
  <2>1. f[1] = seqs[1]
    <3>1. 1 \in 1..n /\ 1 - 1 = 0
      OBVIOUS
    <3>2. f[1] = << >> \o seqs[1] /\ seqs[1] \in Seq(E)
      BY <1>2, <3>1
    <3> QED BY <3>2
  <2>2. ASSUME NEW i \in 1..n, i # 1 PROVE g[i - 1] \o seqs[i] = f[i]
    <3>1. i - 1 \in 1..n
      BY <2>2
    <3>2. g[i - 1] = f[i - 1]
      BY <3>1
    <3> QED BY <1>2, <3>2
  <2>3. \A i \in 1..n : f[i] = IF i = 1 THEN seqs[i] ELSE g[i - 1] \o seqs[i]
    <3> HIDE DEF g
    <3> QED BY <2>1, <2>2
  <2>4. Flat(g)
    BY <2>3
  <2> HIDE DEF g, Flat
  <2> QED BY <2>4
<1> DEFINE flat == CHOOSE g : Flat(g)
<1>4. FlattenSeq(seqs) = flat[n]
  BY <1>0 DEF FlattenSeq
<1>5. Flat(flat)
  <2> HIDE DEF Flat
  <2> QED BY <1>3
<1> DEFINE S == {k \in 0..n : k # 0 => /\ flat[k] \in Seq(E)
                                       /\ Range(flat[k]) = UNION {Range(seqs[i]) : i \in 1..k}}
<1>6. \A k \in 1..n : flat[k] = IF k = 1 THEN seqs[k] ELSE flat[k - 1] \o seqs[k]
  <2> HIDE DEF flat
  <2> QED BY <1>5
<1> HIDE DEF flat
<1>7. \A k \in 0..(n - 1) : k \in S => k + 1 \in S
  <2> SUFFICES ASSUME NEW k \in 0..(n - 1), k \in S
               PROVE  /\ flat[k + 1] \in Seq(E)
                      /\ Range(flat[k + 1]) = UNION {Range(seqs[i]) : i \in 1..(k + 1)}
    <3>1. \A k \in 0..(n - 1) : k + 1 \in 0..n
      OBVIOUS
    <3> QED BY <3>1
  <2>0. k + 1 \in 1..n
    OBVIOUS
  <2>1. CASE k = 0
    <3>1. flat[k + 1] = seqs[1] /\ k + 1 = 1
      BY <1>6, <2>0, <2>1
    <3>2. \A i : i \in 1..1 <=> i = 1
      OBVIOUS
    <3> QED BY <3>1, <3>2
  <2>2. CASE k # 0
    <3>1. flat[k + 1] = flat[k] \o seqs[k + 1]
      <4>1. (k + 1) - 1 = k /\ k + 1 # 1
        BY <2>2
      <4> QED BY <1>6, <2>0, <4>1
    <3>2. PICK s \in Seq(E) : s = flat[k]
      BY <2>2
    <3>3. PICK t \in Seq(E) : t = seqs[k + 1]
      BY <2>0
    <3>4. s \o t \in Seq(E) /\ Range(s \o t) = Range(s) \cup Range(t)
      BY RangeOfConcat
    <3>5. Range(s) = UNION {Range(seqs[i]) : i \in 1..k}
      BY <2>2, <3>2
    <3>6. \A i : i \in 1..(k + 1) <=> i \in 1..k \/ i = k + 1
      OBVIOUS
    <3> QED BY <3>1, <3>2, <3>3, <3>4, <3>5, <3>6
  <2> QED BY <2>1, <2>2
<1>8. \A k \in 0..n : k \in S
  <2>1. 0 \in S
    OBVIOUS
  <2> HIDE DEF S
  <2> QED BY <1>7, <2>1, IntervalInduction
<1>9. n \in 0..n /\ n # 0
  OBVIOUS
<1> QED BY <1>4, <1>8, <1>9

-----------------------------------------------------------------------------
(* Sums over finite sets.                                                    *)

\* The sums of f over the subsets of S.
Sums(sum, f, S) ==
  /\ sum \in [SUBSET S -> Int]
  /\ \A T \in SUBSET S : sum[T] = IF T = {} THEN 0 ELSE f[AnyOf(T)] + sum[T \ {AnyOf(T)}]

\* The sum over a finite set is computed by taking away one element after the
\* other.
LEMMA SumUnfolded ==
  ASSUME NEW S, IsFiniteSet(S), NEW f, \A x \in S : f[x] \in Int
  PROVE  \E sum : Sums(sum, f, S) /\ SumFunctionOnSet(f, S) = sum[S]
<1> DEFINE Loop(g) == g = [T \in SUBSET S |-> IF T = {} THEN 0
                                              ELSE f[AnyOf(T)] + g[T \ {AnyOf(T)}]]
           sum == CHOOSE g : Loop(g)
<1> DEFINE base == 0
           step == [x \in S |-> [v \in Int |-> f[x] + v]]
<1>1. PICK g : FoldsOver(g, S, Int, base, step)
  <2>1. base \in Int
    OBVIOUS
  <2>2. step \in [S -> [Int -> Int]]
    OBVIOUS
  <2> HIDE DEF base, step
  <2> QED BY <2>1, <2>2, RecursionOnSubsets
<1>2. \A T \in SUBSET S : T # {} => AnyOf(T) \in S /\ T \ {AnyOf(T)} \in SUBSET S
  BY DEF AnyOf
<1>3. \A T \in SUBSET S : g[T] = IF T = {} THEN 0 ELSE f[AnyOf(T)] + g[T \ {AnyOf(T)}]
  BY <1>1, <1>2 DEF FoldsOver
<1>4. Loop(g)
  <2>1. g = [T \in SUBSET S |-> g[T]]
    BY <1>1 DEF FoldsOver
  <2> QED BY <1>3, <2>1
<1>5. Loop(sum)
  <2> HIDE DEF Loop
  <2> QED BY <1>4
<1>6. SumFunctionOnSet(f, S) = sum[S]
  BY DEF SumFunctionOnSet, FoldFunctionOnSet, MapThenFoldSet, AnyOf
<1>7. \A T \in SUBSET S : sum[T] = IF T = {} THEN 0
                 ELSE f[AnyOf(T)] + sum[T \ {AnyOf(T)}]
  <2> HIDE DEF sum
  <2> QED BY <1>5
<1>8. \A T \in SUBSET S : sum[T] \in Int
  <2> DEFINE F == {T \in SUBSET S : sum[T] \in Int}
  <2> HIDE DEF sum
  <2>1. {} \in F
    <3>1. {} \in SUBSET S
      OBVIOUS
    <3>2. sum[{}] = 0
      BY <1>7, <3>1
    <3> QED BY <3>1, <3>2
  <2>2. ASSUME NEW T \in SUBSET S, T # {}, \A R \in SUBSET T : R # T => R \in F
        PROVE  T \in F
    <3>1. PICK x \in T : x = AnyOf(T)
      BY <2>2 DEF AnyOf
    <3>2. sum[T \ {x}] \in Int /\ f[x] \in Int
      <4>1. T \ {x} \in SUBSET T /\ T \ {x} # T /\ x \in S
        BY <2>2, <3>1
      <4> QED BY <2>2, <4>1
    <3>3. sum[T] = f[x] + sum[T \ {x}]
      BY <1>7, <2>2, <3>1
    <3> QED BY <3>2, <3>3
  <2>3. \A T \in SUBSET S : T \in F
    <3> HIDE DEF F
    <3> QED BY <2>1, <2>2, FiniteSetInduction
  <2> QED BY <2>3
<1>9. sum \in [SUBSET S -> Int]
  <2> HIDE DEF sum
  <2>1. sum = [T \in SUBSET S |-> IF T = {} THEN 0
                 ELSE f[AnyOf(T)] + sum[T \ {AnyOf(T)}]]
    BY <1>5
  <2>2. DOMAIN sum = SUBSET S /\ sum = [T \in DOMAIN sum |-> sum[T]]
    BY <2>1
  <2> QED BY <1>8, <2>2
<1>10. Sums(sum, f, S)
  <2> HIDE DEF sum
  <2> QED BY <1>7, <1>9 DEF Sums
<1> HIDE DEF sum
<1> QED BY <1>6, <1>10

\* Sums of functions that agree are the same.
LEMMA SumsAgree ==
  ASSUME NEW S, NEW R, NEW f, NEW g, NEW a, Sums(a, f, S), NEW b, Sums(b, g, R),
         NEW T, T \subseteq S, T \subseteq R, IsFiniteSet(T), \A x \in T : f[x] = g[x]
  PROVE  a[T] = b[T]
<1> DEFINE F == {Q \in SUBSET T : a[Q] = b[Q]}
<1>1. {} \in F
  <2>1. {} \in SUBSET S /\ {} \in SUBSET R
    OBVIOUS
  <2> QED BY <2>1 DEF Sums
<1>2. ASSUME NEW Q \in SUBSET T, Q # {}, \A P \in SUBSET Q : P # Q => P \in F
      PROVE  Q \in F
  <2>1. PICK x \in Q : x = AnyOf(Q)
    BY <1>2 DEF AnyOf
  <2>2. Q \ {x} \in F
    <3>1. Q \ {x} \in SUBSET Q /\ Q \ {x} # Q
      BY <2>1
    <3> QED BY <1>2, <3>1
  <2>3. f[x] = g[x] /\ Q \in SUBSET S /\ Q \in SUBSET R
    BY <2>1
  <2>4. a[Q] = f[x] + a[Q \ {x}] /\ b[Q] = g[x] + b[Q \ {x}]
    BY <1>2, <2>1, <2>3 DEF Sums
  <2> QED BY <2>2, <2>3, <2>4
<1>3. \A Q \in SUBSET T : Q \in F
  <2> HIDE DEF F
  <2> QED BY <1>1, <1>2, FiniteSetInduction
<1> QED BY <1>3

\* Any element may be taken off first.
AnyOrder(sum, f, S) == \A T \in SUBSET S : \A x \in T : sum[T] = f[x] + sum[T \ {x}]

\* The order in which the elements are taken does not matter.
LEMMA SumsTakeAway ==
  ASSUME NEW S, IsFiniteSet(S), NEW f, \A x \in S : f[x] \in Int, NEW a, Sums(a, f, S)
  PROVE  AnyOrder(a, f, S)
<1> DEFINE F == {T \in SUBSET S : \A x \in T : a[T] = f[x] + a[T \ {x}]}
<1>1. {} \in F
  OBVIOUS
<1>2. ASSUME NEW T \in SUBSET S, T # {}, \A R \in SUBSET T : R # T => R \in F
      PROVE  T \in F
  <2> SUFFICES ASSUME NEW x \in T PROVE a[T] = f[x] + a[T \ {x}]
    OBVIOUS
  <2>1. PICK y \in T : y = AnyOf(T)
    BY <1>2 DEF AnyOf
  <2>2. a[T] = f[y] + a[T \ {y}]
    BY <1>2, <2>1 DEF Sums
  <2>3. CASE x = y
    BY <2>2, <2>3
  <2>4. CASE x # y
    <3>1. T \ {y} \in SUBSET T /\ T \ {y} # T /\ x \in T \ {y}
      BY <2>4
    <3>2. a[T \ {y}] = f[x] + a[(T \ {y}) \ {x}]
      BY <1>2, <3>1
    <3>3. T \ {x} \in SUBSET T /\ T \ {x} # T /\ y \in T \ {x}
      BY <2>4
    <3>4. a[T \ {x}] = f[y] + a[(T \ {x}) \ {y}]
      BY <1>2, <3>3
    <3>5. (T \ {x}) \ {y} = (T \ {y}) \ {x}
      OBVIOUS
    <3>6. f[x] \in Int /\ f[y] \in Int
      BY <2>1
    <3>7. PICK r \in Int : r = a[(T \ {x}) \ {y}]
      BY DEF Sums
    <3>8. a[T \ {y}] = f[x] + r
      BY <3>2, <3>5, <3>7
    <3>9. a[T \ {x}] = f[y] + r
      BY <3>4, <3>7
    <3>10. f[y] + (f[x] + r) = f[x] + (f[y] + r)
      BY <3>6
    <3> QED BY <2>2, <3>8, <3>9, <3>10
  <2> QED BY <2>3, <2>4
<1>3. \A T \in SUBSET S : T \in F
  <2> HIDE DEF F
  <2> QED BY <1>1, <1>2, FiniteSetInduction
<1> QED BY <1>3 DEF AnyOrder

\* A sum of integers is one.
LEMMA SumIsInt ==
  ASSUME NEW S, IsFiniteSet(S), NEW f, \A x \in S : f[x] \in Int
  PROVE  SumFunctionOnSet(f, S) \in Int
<1>1. PICK a : Sums(a, f, S) /\ SumFunctionOnSet(f, S) = a[S]
  BY SumUnfolded
<1> QED BY <1>1 DEF Sums

\* A sum over a set is that of the rest and of any one of its elements.
LEMMA SumTakesAway ==
  ASSUME NEW S, IsFiniteSet(S), NEW f, \A x \in S : f[x] \in Int, NEW x \in S
  PROVE  SumFunctionOnSet(f, S) = f[x] + SumFunctionOnSet(f, S \ {x})
<1> DEFINE R == S \ {x}
<1>0. IsFiniteSet(R) /\ R \subseteq S /\ R \subseteq R
  BY FS_Subset
<1>1. PICK a : Sums(a, f, S) /\ SumFunctionOnSet(f, S) = a[S]
  BY SumUnfolded
<1>2. PICK b : Sums(b, f, R) /\ SumFunctionOnSet(f, R) = b[R]
  <2>1. \A y \in R : f[y] \in Int
    OBVIOUS
  <2> HIDE DEF R
  <2> QED BY <1>0, <2>1, SumUnfolded
<1>3. a[R] = b[R]
  <2> HIDE DEF R
  <2> QED BY <1>0, <1>1, <1>2, SumsAgree
<1>4. a[S] = f[x] + a[R]
  <2>1. AnyOrder(a, f, S)
    BY <1>1, SumsTakeAway
  <2> QED BY <2>1 DEF AnyOrder
<1> QED BY <1>1, <1>2, <1>3, <1>4

\* A sum depends on the values of the function on the set only.
LEMMA SumOfSame ==
  ASSUME NEW S, IsFiniteSet(S), NEW f, \A x \in S : f[x] \in Int,
         NEW g, \A x \in S : g[x] = f[x]
  PROVE  SumFunctionOnSet(g, S) = SumFunctionOnSet(f, S)
<1>0. \A x \in S : g[x] \in Int
  OBVIOUS
<1>1. PICK a : Sums(a, f, S) /\ SumFunctionOnSet(f, S) = a[S]
  BY SumUnfolded
<1>2. PICK b : Sums(b, g, S) /\ SumFunctionOnSet(g, S) = b[S]
  BY <1>0, SumUnfolded
<1>3. S \subseteq S
  OBVIOUS
<1> QED BY <1>1, <1>2, <1>3, SumsAgree

\* Greater terms have a greater sum.
LEMMA SumIsMonotone ==
  ASSUME NEW S, IsFiniteSet(S), NEW f, \A x \in S : f[x] \in Int,
         NEW g, \A x \in S : g[x] \in Int, \A x \in S : f[x] <= g[x]
  PROVE  SumFunctionOnSet(f, S) <= SumFunctionOnSet(g, S)
<1>1. PICK a : Sums(a, f, S) /\ SumFunctionOnSet(f, S) = a[S]
  BY SumUnfolded
<1>2. PICK b : Sums(b, g, S) /\ SumFunctionOnSet(g, S) = b[S]
  BY SumUnfolded
<1> DEFINE F == {T \in SUBSET S : a[T] <= b[T]}
<1>3. {} \in F
  <2>1. a[{}] = 0 /\ b[{}] = 0
    BY <1>1, <1>2 DEF Sums
  <2> QED BY <2>1
<1>4. ASSUME NEW T \in SUBSET S, T # {}, \A R \in SUBSET T : R # T => R \in F
      PROVE  T \in F
  <2>1. PICK x \in T : x = AnyOf(T)
    BY <1>4 DEF AnyOf
  <2>2. T \ {x} \in F
    <3>1. T \ {x} \in SUBSET T /\ T \ {x} # T
      BY <2>1
    <3> QED BY <1>4, <3>1
  <2>3. a[T] = f[x] + a[T \ {x}] /\ b[T] = g[x] + b[T \ {x}]
    BY <1>1, <1>2, <1>4, <2>1 DEF Sums
  <2>4. a[T \ {x}] \in Int /\ b[T \ {x}] \in Int /\ f[x] \in Int /\ g[x] \in Int /\ f[x] <= g[x]
    BY <1>1, <1>2 DEF Sums
  <2> QED BY <2>2, <2>3, <2>4
<1>5. \A T \in SUBSET S : T \in F
  <2> HIDE DEF F
  <2> QED BY <1>3, <1>4, FiniteSetInduction
<1> QED BY <1>1, <1>2, <1>5

-----------------------------------------------------------------------------
(* Sequences                                                               *)

\* How many elements of I come before i.
RankIn(R, I, i) == Cardinality({j \in I : <<j, i>> \in R})

\* The pairs R order the elements of I.
OrdersStrictly(R, I) ==
  /\ \A i \in I : <<i, i>> \notin R
  /\ \A i, j, k \in I : <<i, j>> \in R /\ <<j, k>> \in R => <<i, k>> \in R
  /\ \A i, j \in I : i # j => <<i, j>> \in R \/ <<j, i>> \in R

\* In a finite set every rank below its size is that of exactly one element.
IsRanked(R, I) ==
  /\ \A i \in I : RankIn(R, I, i) \in 0..(Cardinality(I) - 1)
  /\ \A i, j \in I : RankIn(R, I, i) = RankIn(R, I, j) => i = j
  /\ \A k \in 0..(Cardinality(I) - 1) : \E i \in I : RankIn(R, I, i) = k

\* An order of a finite set ranks it: distinct elements have distinct ranks below
\* its size, so by the pigeonhole principle every such rank is taken.
LEMMA StrictOrderRanks ==
  ASSUME NEW R, NEW I, IsFiniteSet(I), OrdersStrictly(R, I)
  PROVE  IsRanked(R, I)
<1> DEFINE n == Cardinality(I)
           Pre(i) == {j \in I : <<j, i>> \in R}
<1>1. n \in Nat /\ \A i \in I : IsFiniteSet(Pre(i)) /\ Cardinality(Pre(i)) \in Nat
  <2>1. n \in Nat
    BY FS_CardinalityType
  <2>2. ASSUME NEW i \in I PROVE IsFiniteSet(Pre(i)) /\ Cardinality(Pre(i)) \in Nat
    <3>1. Pre(i) \subseteq I
      OBVIOUS
    <3> HIDE DEF Pre
    <3> QED BY <3>1, FS_Subset, FS_CardinalityType
  <2> QED BY <2>1, <2>2
<1>2. ASSUME NEW i \in I PROVE RankIn(R, I, i) \in 0..(n - 1)
  <2>1. Pre(i) \subseteq I \ {i}
    BY DEF OrdersStrictly
  <2>2. IsFiniteSet(I \ {i}) /\ Cardinality(I \ {i}) = n - 1
    BY FS_RemoveElement
  <2>3. Cardinality(Pre(i)) <= n - 1
    <3> HIDE DEF Pre
    <3> QED BY <2>1, <2>2, FS_Subset
  <2> QED BY <1>1, <2>3 DEF RankIn
<1>3. ASSUME NEW i \in I, NEW j \in I, <<i, j>> \in R PROVE RankIn(R, I, i) < RankIn(R, I, j)
  <2>1. Pre(i) \subseteq Pre(j) \ {i} /\ i \in Pre(j)
    BY <1>3 DEF OrdersStrictly
  <2>2. IsFiniteSet(Pre(j)) /\ Cardinality(Pre(j)) \in Nat /\ Cardinality(Pre(i)) \in Nat
    BY <1>1
  <2>3. Cardinality(Pre(i)) <= Cardinality(Pre(j)) - 1
    <3> HIDE DEF Pre
    <3>1. IsFiniteSet(Pre(j) \ {i}) /\ Cardinality(Pre(j) \ {i}) = Cardinality(Pre(j)) - 1
      BY <2>1, <2>2, FS_RemoveElement
    <3> QED BY <2>1, <3>1, FS_Subset
  <2>4. RankIn(R, I, i) = Cardinality(Pre(i)) /\ RankIn(R, I, j) = Cardinality(Pre(j))
    BY DEF RankIn
  <2> HIDE DEF Pre
  <2> QED BY <2>2, <2>3, <2>4
<1>4. \A i, j \in I : RankIn(R, I, i) = RankIn(R, I, j) => i = j
  <2> SUFFICES ASSUME NEW i \in I, NEW j \in I, i # j PROVE RankIn(R, I, i) # RankIn(R, I, j)
    OBVIOUS
  <2>1. RankIn(R, I, i) \in 0..(n - 1) /\ RankIn(R, I, j) \in 0..(n - 1)
    BY <1>2
  <2>2. <<i, j>> \in R \/ <<j, i>> \in R
    BY DEF OrdersStrictly
  <2>3. RankIn(R, I, i) < RankIn(R, I, j) \/ RankIn(R, I, j) < RankIn(R, I, i)
    BY <1>3, <2>2
  <2> HIDE DEF n
  <2> QED BY <1>1, <2>1, <2>3
<1>5. ASSUME NEW k \in 0..(n - 1), \A i \in I : RankIn(R, I, i) # k PROVE FALSE
  <2> DEFINE others == (0..(n - 1)) \ {k}
             rank == [i \in I |-> RankIn(R, I, i)]
  <2>1. rank \in [I -> others]
    BY <1>2, <1>5
  <2>2. IsFiniteSet(0..(n - 1)) /\ Cardinality(0..(n - 1)) = n
    <3> HIDE DEF n
    <3>1. 0 \in Int /\ n - 1 \in Int /\ k \in 0..(n - 1)
      BY <1>1
    <3>2. IsFiniteSet(0..(n - 1)) /\ Cardinality(0..(n - 1)) = IF 0 > n - 1 THEN 0 ELSE (n - 1) - 0 + 1
      BY <3>1, FS_Interval
    <3> QED BY <1>1, <3>1, <3>2
  <2>3. IsFiniteSet(others) /\ Cardinality(others) = n - 1
    BY <2>2, FS_RemoveElement
  <2>4. Cardinality(others) < Cardinality(I)
    BY <1>1, <2>3
  <2>5. PICK i, j \in I : i # j /\ rank[i] = rank[j]
    <3> HIDE DEF others, rank, n
    <3> QED BY <2>1, <2>3, <2>4, FS_PigeonHole
  <2> QED BY <1>4, <2>5
<1> QED BY <1>2, <1>4, <1>5 DEF IsRanked

\* What s holds at the first n positions of a list.
Listed(s, at, n) == [k \in 1..n |-> s[at[k]]]

\* t lists what s holds at the positions I, each of them once.
Enumerates(t, s, I) ==
  \E at \in [1..Cardinality(I) -> I] :
    /\ t = Listed(s, at, Cardinality(I))
    /\ \A k, l \in 1..Cardinality(I) : at[k] = at[l] => k = l
    /\ \A i \in I : \E k \in 1..Cardinality(I) : at[k] = i

\* Positions chosen by their rank are all of them, once each.
LEMMA RankedEnumerate ==
  ASSUME NEW R, NEW I, IsFiniteSet(I), IsRanked(R, I), NEW s,
         NEW at \in [1..Cardinality(I) -> I],
         \A k \in 1..Cardinality(I) : RankIn(R, I, at[k]) = k - 1,
         NEW t, t = Listed(s, at, Cardinality(I))
  PROVE  Enumerates(t, s, I)
<1>1. Cardinality(I) \in Nat
  BY FS_CardinalityType
<1>2. \A k, l \in 1..Cardinality(I) : at[k] = at[l] => k = l
  <2> SUFFICES ASSUME NEW k \in 1..Cardinality(I), NEW l \in 1..Cardinality(I), at[k] = at[l]
               PROVE  k = l
    OBVIOUS
  <2>1. k - 1 = l - 1
    OBVIOUS
  <2> QED BY <1>1, <2>1
<1>3. ASSUME NEW i \in I PROVE \E k \in 1..Cardinality(I) : at[k] = i
  <2>1. PICK k \in 1..Cardinality(I) : k = RankIn(R, I, i) + 1
    BY <1>1 DEF IsRanked
  <2>2. RankIn(R, I, at[k]) = k - 1 /\ at[k] \in I /\ RankIn(R, I, i) \in Int
    BY <1>1 DEF IsRanked
  <2>3. RankIn(R, I, at[k]) = RankIn(R, I, i)
    BY <1>1, <2>1, <2>2
  <2>4. at[k] = i
    BY <2>2, <2>3 DEF IsRanked
  <2> QED BY <2>4
<1> QED BY <1>2, <1>3 DEF Enumerates

\* What is enumerated is a sequence that holds exactly those elements.
LEMMA EnumeratedSequence ==
  ASSUME NEW X, NEW s \in Seq(X), NEW I \in SUBSET DOMAIN s, NEW t, Enumerates(t, s, I)
  PROVE  /\ t \in Seq(X) /\ Len(t) = Cardinality(I) /\ DOMAIN t = 1..Cardinality(I)
         /\ Cardinality(I) \in Nat /\ Cardinality(I) <= Len(s)
         /\ ToSet(t) = {s[i] : i \in I}
         /\ (\A i, j \in I : s[i] = s[j] => i = j) =>
              \A k, l \in DOMAIN t : t[k] = t[l] => k = l
<1>1. IsFiniteSet(I) /\ Cardinality(I) \in Nat /\ Cardinality(I) <= Len(s)
  <2>1. DOMAIN s = 1..Len(s) /\ Len(s) \in Nat
    OBVIOUS
  <2>2. PICK m \in Nat : m = Len(s)
    BY <2>1
  <2>3. IsFiniteSet(1..m) /\ Cardinality(1..m) = m
    <3>1. IsFiniteSet(1..m) /\ Cardinality(1..m) = IF 1 > m THEN 0 ELSE m - 1 + 1
      BY FS_Interval
    <3> QED BY <3>1
  <2>4. I \subseteq 1..m
    BY <2>1, <2>2
  <2> QED BY <2>2, <2>3, <2>4, FS_Subset, FS_CardinalityType
<1> DEFINE n == Cardinality(I)
<1>2. PICK at \in [1..n -> I] :
         /\ t = Listed(s, at, n)
         /\ \A k, l \in 1..n : at[k] = at[l] => k = l
         /\ \A i \in I : \E k \in 1..n : at[k] = i
  BY DEF Enumerates
<1> HIDE DEF n
<1>3. \A k \in 1..n : at[k] \in I /\ t[k] = s[at[k]] /\ s[at[k]] \in X
  BY <1>2 DEF Listed
<1>4. n \in Nat /\ DOMAIN t = 1..n
  BY <1>1, <1>2 DEF n, Listed
<1>5. t \in Seq(X) /\ Len(t) = n
  <2>1. t \in [1..n -> X]
    BY <1>2, <1>3 DEF Listed
  <2> QED BY <1>4, <2>1, SeqDef
<1>6. ToSet(t) = {s[i] : i \in I}
  <2>1. ToSet(t) = {t[k] : k \in 1..n}
    BY <1>4 DEF ToSet
  <2>2. \A k \in 1..n : t[k] \in {s[i] : i \in I}
    BY <1>3
  <2>3. ASSUME NEW i \in I PROVE s[i] \in {t[k] : k \in 1..n}
    <3>1. PICK k \in 1..n : at[k] = i
      BY <1>2
    <3> QED BY <1>3, <3>1
  <2> QED BY <2>1, <2>2, <2>3, Zenon
<1>7. ASSUME \A i, j \in I : s[i] = s[j] => i = j, NEW k \in DOMAIN t, NEW l \in DOMAIN t, t[k] = t[l]
      PROVE  k = l
  BY <1>2, <1>3, <1>4, <1>7
<1> QED BY <1>1, <1>4, <1>5, <1>6, <1>7 DEF n

\* A sequence that is not empty begins with one of its elements.
LEMMA FirstOfSequence ==
  ASSUME NEW X, NEW s \in Seq(X), s # <<>>
  PROVE  s[1] \in X
<1>1. 1 \in 1..Len(s)
  OBVIOUS
<1> QED BY <1>1

\* The positions of a concatenation are those of its parts.
LEMMA ConcatParts ==
  ASSUME NEW X, NEW s \in Seq(X), NEW t \in Seq(X)
  PROVE  /\ s \o t \in Seq(X) /\ Len(s \o t) = Len(s) + Len(t)
         /\ DOMAIN (s \o t) = 1..(Len(s) + Len(t))
         /\ \A k \in 1..(Len(s) + Len(t)) :
              \/ k <= Len(s) /\ k \in DOMAIN s /\ (s \o t)[k] = s[k]
              \/ k > Len(s) /\ k - Len(s) \in DOMAIN t /\ (s \o t)[k] = t[k - Len(s)]
<1>1. s \o t \in Seq(X) /\ Len(s \o t) = Len(s) + Len(t) /\ DOMAIN (s \o t) = 1..(Len(s) + Len(t))
  OBVIOUS
<1>2. ASSUME NEW k \in 1..(Len(s) + Len(t))
      PROVE  \/ k <= Len(s) /\ k \in DOMAIN s /\ (s \o t)[k] = s[k]
             \/ k > Len(s) /\ k - Len(s) \in DOMAIN t /\ (s \o t)[k] = t[k - Len(s)]
  <2>1. CASE k <= Len(s)
    BY <2>1
  <2>2. CASE k > Len(s)
    BY <2>2
  <2> QED BY <2>1, <2>2
<1> QED BY <1>1, <1>2

\* The same for the set of its elements.
LEMMA ConcatSet ==
  ASSUME NEW X, NEW s \in Seq(X), NEW t \in Seq(X)
  PROVE  s \o t \in Seq(X) /\ ToSet(s \o t) = ToSet(s) \cup ToSet(t)
<1>1. s \o t \in Seq(X) /\ Len(s \o t) = Len(s) + Len(t)
  OBVIOUS
<1>2. \A i \in 1..Len(s) : (s \o t)[i] = s[i]
  OBVIOUS
<1>3. \A i \in 1..Len(t) : (s \o t)[i + Len(s)] = t[i]
  OBVIOUS
<1>4. ToSet(s) \cup ToSet(t) \subseteq ToSet(s \o t)
  <2>1. \A i \in 1..Len(s) : i \in 1..Len(s \o t)
    BY <1>1
  <2>2. \A i \in 1..Len(t) : i + Len(s) \in 1..Len(s \o t)
    BY <1>1
  <2> QED BY <1>1, <1>2, <1>3, <2>1, <2>2, SMTT(20) DEF ToSet
<1>5. ASSUME NEW i \in 1..Len(s \o t) PROVE (s \o t)[i] \in ToSet(s) \cup ToSet(t)
  <2>1. CASE i <= Len(s)
    <3>1. i \in 1..Len(s)
      BY <1>1, <2>1
    <3> QED BY <1>2, <3>1 DEF ToSet
  <2>2. CASE i > Len(s)
    <3>1. PICK j \in 1..Len(t) : i = j + Len(s)
      <4>1. i - Len(s) \in 1..Len(t) /\ i = (i - Len(s)) + Len(s)
        BY <1>1, <2>2
      <4> QED BY <4>1
    <3> QED BY <1>3, <3>1 DEF ToSet
  <2> QED BY <1>1, <2>1, <2>2
<1>6. ToSet(s \o t) = {(s \o t)[i] : i \in 1..Len(s \o t)}
  BY <1>1 DEF ToSet
<1> QED BY <1>1, <1>4, <1>5, <1>6

\* Two sequences without repetition and in common make one without repetition.
LEMMA ConcatInjective ==
  ASSUME NEW X, NEW s \in Seq(X), NEW t \in Seq(X), IsInjective(s), IsInjective(t),
         ToSet(s) \cap ToSet(t) = {}
  PROVE  IsInjective(s \o t)
<1>1. Len(s \o t) = Len(s) + Len(t) /\ DOMAIN (s \o t) = 1..(Len(s) + Len(t))
  OBVIOUS
<1>2. \A i \in 1..(Len(s) + Len(t)) :
        \/ i \in 1..Len(s) /\ (s \o t)[i] = s[i] /\ s[i] \in ToSet(s)
        \/ i - Len(s) \in 1..Len(t) /\ (s \o t)[i] = t[i - Len(s)] /\ t[i - Len(s)] \in ToSet(t)
  <2> SUFFICES ASSUME NEW i \in 1..(Len(s) + Len(t))
               PROVE  \/ i \in 1..Len(s) /\ (s \o t)[i] = s[i] /\ s[i] \in ToSet(s)
                      \/ i - Len(s) \in 1..Len(t) /\ (s \o t)[i] = t[i - Len(s)] /\ t[i - Len(s)] \in ToSet(t)
    OBVIOUS
  <2>1. CASE i <= Len(s)
    BY <2>1 DEF ToSet
  <2>2. CASE i > Len(s)
    BY <2>2 DEF ToSet
  <2> QED BY <2>1, <2>2
<1>3. ASSUME NEW i \in 1..(Len(s) + Len(t)), NEW j \in 1..(Len(s) + Len(t)),
             (s \o t)[i] = (s \o t)[j]
      PROVE  i = j
  <2>1. CASE i \in 1..Len(s) /\ j \in 1..Len(s)
    BY <1>2, <1>3, <2>1 DEF IsInjective
  <2>2. CASE i \notin 1..Len(s) /\ j \notin 1..Len(s)
    <3>1. i - Len(s) \in 1..Len(t) /\ j - Len(s) \in 1..Len(t) /\ t[i - Len(s)] = t[j - Len(s)]
      BY <1>2, <1>3, <2>2
    <3>2. i - Len(s) = j - Len(s)
      BY <3>1 DEF IsInjective
    <3> QED BY <3>2
  <2>3. CASE (i \in 1..Len(s)) # (j \in 1..Len(s))
    BY <1>2, <1>3, <2>3
  <2> QED BY <2>1, <2>2, <2>3
<1> QED BY <1>1, <1>3 DEF IsInjective

\* The head of a sequence without repetition is not in its tail.
LEMMA HeadAndTail ==
  ASSUME NEW X, NEW s \in Seq(X), s # <<>>, IsInjective(s)
  PROVE  /\ Head(s) \in X /\ Tail(s) \in Seq(X) /\ Len(Tail(s)) = Len(s) - 1
         /\ Head(s) \in ToSet(s) /\ ToSet(Tail(s)) = ToSet(s) \ {Head(s)} /\ IsInjective(Tail(s))
<1>1. /\ Len(s) \in Nat /\ Len(s) > 0 /\ DOMAIN s = 1..Len(s) /\ Head(s) = s[1] /\ s[1] \in X
      /\ Tail(s) \in Seq(X) /\ Len(Tail(s)) = Len(s) - 1 /\ DOMAIN Tail(s) = 1..(Len(s) - 1)
      /\ \A k \in 1..(Len(s) - 1) : Tail(s)[k] = s[k + 1]
  <2>1. Len(s) \in Nat /\ Len(s) > 0 /\ DOMAIN s = 1..Len(s)
    OBVIOUS
  <2>2. Head(s) = s[1] /\ s[1] \in X
    BY <2>1, FirstOfSequence
  <2>3. Tail(s) \in Seq(X) /\ Len(Tail(s)) = Len(s) - 1
    OBVIOUS
  <2>4. \A k \in 1..(Len(s) - 1) : Tail(s)[k] = s[k + 1]
    BY <2>1
  <2> QED BY <2>1, <2>2, <2>3, <2>4
<1>2. Head(s) \in ToSet(s)
  BY <1>1 DEF ToSet
<1>3. IsInjective(Tail(s))
  <2> SUFFICES ASSUME NEW k \in 1..(Len(s) - 1), NEW l \in 1..(Len(s) - 1), Tail(s)[k] = Tail(s)[l]
               PROVE  k = l
    BY <1>1 DEF IsInjective
  <2>1. s[k + 1] = s[l + 1] /\ k + 1 \in DOMAIN s /\ l + 1 \in DOMAIN s
    BY <1>1
  <2>2. k + 1 = l + 1
    BY <2>1 DEF IsInjective
  <2> QED BY <2>2
<1>4. ToSet(Tail(s)) \subseteq ToSet(s) \ {Head(s)}
  <2> SUFFICES ASSUME NEW k \in 1..(Len(s) - 1) PROVE Tail(s)[k] \in ToSet(s) \ {Head(s)}
    BY <1>1 DEF ToSet
  <2>1. k + 1 \in DOMAIN s /\ 1 \in DOMAIN s /\ k + 1 # 1 /\ Tail(s)[k] = s[k + 1]
    BY <1>1
  <2>2. s[k + 1] # s[1]
    BY <2>1 DEF IsInjective
  <2> QED BY <1>1, <2>1, <2>2 DEF ToSet
<1>5. ToSet(s) \ {Head(s)} \subseteq ToSet(Tail(s))
  <2> SUFFICES ASSUME NEW k \in DOMAIN s, k # 1 PROVE s[k] \in ToSet(Tail(s))
    BY <1>1 DEF ToSet
  <2>1. k - 1 \in 1..(Len(s) - 1) /\ (k - 1) + 1 = k
    BY <1>1
  <2>2. Tail(s)[k - 1] = s[k]
    BY <1>1, <2>1
  <2> QED BY <1>1, <2>1, <2>2 DEF ToSet
<1> QED BY <1>1, <1>2, <1>3, <1>4, <1>5

\* What an appended element leaves where it was.
LEMMA AppendFacts ==
  ASSUME NEW X, NEW s \in Seq(X), NEW e \in X
  PROVE  /\ Append(s, e) \in Seq(X) /\ Len(Append(s, e)) = Len(s) + 1 /\ Len(s) \in Nat
         /\ DOMAIN Append(s, e) = 1..(Len(s) + 1) /\ DOMAIN s = 1..Len(s)
         /\ Append(s, e)[Len(s) + 1] = e
         /\ \A k \in 1..Len(s) : Append(s, e)[k] = s[k]
OBVIOUS

\* Appending to the second part appends to the whole.
LEMMA AppendToConcat ==
  ASSUME NEW X, NEW s \in Seq(X), NEW t \in Seq(X), NEW e \in X
  PROVE  s \o Append(t, e) = Append(s \o t, e)
<1>1. /\ s \o t \in Seq(X) /\ Len(s \o t) = Len(s) + Len(t) /\ Len(s) \in Nat /\ Len(t) \in Nat
      /\ \A k \in 1..Len(s) : (s \o t)[k] = s[k]
      /\ \A k \in 1..Len(t) : (s \o t)[k + Len(s)] = t[k]
  OBVIOUS
<1>2. /\ Append(t, e) \in Seq(X) /\ Len(Append(t, e)) = Len(t) + 1
      /\ Append(t, e)[Len(t) + 1] = e /\ \A k \in 1..Len(t) : Append(t, e)[k] = t[k]
  BY AppendFacts
<1> DEFINE u == Append(t, e)
           v == s \o t
<1> HIDE DEF u, v
<1>3. /\ s \o u \in Seq(X) /\ Len(s \o u) = Len(s) + Len(t) + 1
      /\ DOMAIN (s \o u) = 1..(Len(s) + Len(t) + 1)
      /\ \A k \in 1..(Len(s) + Len(t) + 1) :
           \/ k <= Len(s) /\ k \in DOMAIN s /\ (s \o u)[k] = s[k]
           \/ k > Len(s) /\ k - Len(s) \in DOMAIN u /\ (s \o u)[k] = u[k - Len(s)]
  <2>1. u \in Seq(X) /\ Len(u) = Len(t) + 1
    BY <1>2 DEF u
  <2>2. /\ s \o u \in Seq(X) /\ Len(s \o u) = Len(s) + Len(u)
        /\ DOMAIN (s \o u) = 1..(Len(s) + Len(u))
        /\ \A k \in 1..(Len(s) + Len(u)) :
             \/ k <= Len(s) /\ k \in DOMAIN s /\ (s \o u)[k] = s[k]
             \/ k > Len(s) /\ k - Len(s) \in DOMAIN u /\ (s \o u)[k] = u[k - Len(s)]
    BY <2>1, ConcatParts
  <2>3. Len(s) + Len(u) = Len(s) + Len(t) + 1
    BY <1>1, <2>1
  <2> QED BY <2>2, <2>3
<1>4. /\ Append(v, e) \in Seq(X) /\ DOMAIN Append(v, e) = 1..(Len(s) + Len(t) + 1)
      /\ Append(v, e)[Len(s) + Len(t) + 1] = e
      /\ \A k \in 1..(Len(s) + Len(t)) : Append(v, e)[k] = v[k]
  <2>1. v \in Seq(X) /\ Len(v) = Len(s) + Len(t)
    BY <1>1 DEF v
  <2> QED BY <2>1, AppendFacts
<1>5. ASSUME NEW k \in 1..(Len(s) + Len(t) + 1) PROVE (s \o u)[k] = Append(v, e)[k]
  <2>1. CASE k <= Len(s)
    <3>1. k \in 1..(Len(s) + Len(t)) /\ k \in 1..Len(s) /\ ~ (k > Len(s))
      BY <1>1, <2>1
    <3>2. v[k] = s[k]
      BY <1>1, <3>1 DEF v
    <3> QED BY <1>3, <1>4, <3>1, <3>2
  <2>2. CASE k > Len(s) /\ k < Len(s) + Len(t) + 1
    <3>1. PICK l \in 1..Len(t) : k = l + Len(s) /\ k - Len(s) = l /\ k \in 1..(Len(s) + Len(t))
      <4>1. k - Len(s) \in 1..Len(t) /\ k = (k - Len(s)) + Len(s) /\ k \in 1..(Len(s) + Len(t))
        BY <1>1, <2>2
      <4> QED BY <4>1
    <3>2. v[k] = t[l] /\ u[l] = t[l]
      BY <1>1, <1>2, <3>1 DEF u, v
    <3>3. (s \o u)[k] = u[l]
      BY <1>1, <1>3, <2>2, <3>1
    <3>4. Append(v, e)[k] = v[k]
      BY <1>4, <3>1
    <3> QED BY <3>2, <3>3, <3>4
  <2>3. CASE k = Len(s) + Len(t) + 1
    <3>1. k - Len(s) = Len(t) + 1 /\ ~ (k <= Len(s))
      BY <1>1, <2>3
    <3>2. (s \o u)[k] = u[Len(t) + 1]
      BY <1>3, <3>1
    <3> QED BY <1>2, <1>4, <2>3, <3>2 DEF u
  <2>4. k <= Len(s) \/ (k > Len(s) /\ k < Len(s) + Len(t) + 1) \/ k = Len(s) + Len(t) + 1
    BY <1>1
  <2> QED BY <2>1, <2>2, <2>3, <2>4
<1>6. s \o u = Append(v, e)
  BY <1>3, <1>4, <1>5
<1> QED BY <1>6 DEF u, v
=============================================================================
