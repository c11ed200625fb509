-------------------------------- MODULE Sums --------------------------------
(***************************************************************************)
(* Facts about sums over finite sets, MapThenSumSet of the community       *)
(* modules, that the proofs about money need.  A recursive function is a   *)
(* CHOOSE of a solution of its equation: that there is one, and only one,  *)
(* and what it computes follows by looking at a smallest set for which it  *)
(* would fail.                                                             *)
(***************************************************************************)
EXTENDS Integers, FiniteSetsExt, FiniteSetTheorems, WellFoundedInduction, TLAPS

\* The sum of v[x] for x in S.
SumOver(v, S) == MapThenSumSet(LAMBDA x : v[x], S)

Some(S) == CHOOSE x \in S : TRUE

\* g solves the equation of the sum on the subsets of S.
IsSum(g, v, S) ==
  g = [s \in SUBSET S |-> IF s = {} THEN 0 ELSE v[Some(s)] + g[s \ {Some(s)}]]

\* Of the subsets of a finite set that have a property, one is smallest.
LEMMA SmallestSet ==
  ASSUME NEW U, IsFiniteSet(U), NEW B, B \subseteq SUBSET U, B # {}
  PROVE  \E T \in B : \A R \in B : ~(R \subseteq T /\ R # T)
<1>1. IsWellFoundedOn(StrictSubsetOrdering(U), SUBSET U)
  BY FS_StrictSubsetOrderingWellFounded, FS_FiniteSubsetsOfFinite
<1>2. PICK T \in B : \A R \in B : ~(<<R, T>> \in StrictSubsetOrdering(U))
  BY <1>1, WFMin
<1> QED BY <1>2 DEF StrictSubsetOrdering

LEMMA SumUnique ==
  ASSUME NEW v, NEW S, NEW T, IsFiniteSet(S), NEW g, NEW h, IsSum(g, v, S), IsSum(h, v, T),
         NEW R, R \subseteq S, R \subseteq T
  PROVE  g[R] = h[R]
<1> DEFINE B == {r \in SUBSET S : r \subseteq T /\ g[r] # h[r]}
<1> SUFFICES ASSUME B # {} PROVE FALSE
  OBVIOUS
<1>1. PICK r \in B : \A q \in B : ~(q \subseteq r /\ q # r)
  <2>1. B \subseteq SUBSET S OBVIOUS
  <2> HIDE DEF B
  <2> QED BY <2>1, SmallestSet
<1>2. /\ g[r] = IF r = {} THEN 0 ELSE v[Some(r)] + g[r \ {Some(r)}]
      /\ h[r] = IF r = {} THEN 0 ELSE v[Some(r)] + h[r \ {Some(r)}]
  BY DEF IsSum
<1>3. r # {} => r \ {Some(r)} \subseteq r /\ r \ {Some(r)} # r
  BY DEF Some
<1> QED BY <1>1, <1>2, <1>3

LEMMA SumExists ==
  ASSUME NEW v, NEW U, IsFiniteSet(U)
  PROVE  \E g : IsSum(g, v, U)
<1> DEFINE B == {s \in SUBSET U : ~\E g : IsSum(g, v, s)}
<1> SUFFICES ASSUME B # {} PROVE FALSE
  OBVIOUS
<1>1. PICK S \in B : \A r \in B : ~(r \subseteq S /\ r # S)
  <2>1. B \subseteq SUBSET U OBVIOUS
  <2> HIDE DEF B
  <2> QED BY <2>1, SmallestSet
<1> DEFINE val(s) == (CHOOSE h : IsSum(h, v, s))[s]
           g == [s \in SUBSET S |-> IF s = {} THEN 0 ELSE v[Some(s)] + val(s \ {Some(s)})]
<1>2. ASSUME NEW r \in SUBSET S, r # S PROVE IsSum(CHOOSE h : IsSum(h, v, r), v, r)
  <2>1. \E h : IsSum(h, v, r) BY <1>1, <1>2
  <2> QED BY <2>1
<1>f. \A r \in SUBSET S : IsFiniteSet(r) BY FS_Subset
<1>s. \A s \in SUBSET S : s # {} => s \ {Some(s)} \in SUBSET S /\ s \ {Some(s)} # S
  BY DEF Some
<1>3. ASSUME NEW r \in SUBSET S, r # S PROVE g[r] = val(r)
  <2> DEFINE h == CHOOSE h : IsSum(h, v, r)
  <2>1. IsSum(h, v, r) BY <1>2, <1>3
  <2> HIDE DEF h
  <2>2. h[r] = IF r = {} THEN 0 ELSE v[Some(r)] + h[r \ {Some(r)}]
    BY <2>1 DEF IsSum
  <2>3. CASE r = {} BY <2>2, <2>3 DEF h
  <2>4. CASE r # {}
    <3> DEFINE q == r \ {Some(r)}
               k == CHOOSE k : IsSum(k, v, q)
    <3>1. q \in SUBSET S /\ q # S /\ q \subseteq r BY <1>s, <2>4
    <3>2. IsSum(k, v, q) BY <3>1, <1>2
    <3>3. k[q] = h[q]
      <4> HIDE DEF k, q
      <4> QED BY <2>1, <3>1, <3>2, <1>f, SumUnique
    <3>4. g[r] = v[Some(r)] + k[q] BY <2>4
    <3> QED BY <2>2, <2>4, <3>3, <3>4 DEF h
  <2> QED BY <2>3, <2>4
<1>4. \A s \in SUBSET S : s # {} => g[s \ {Some(s)}] = val(s \ {Some(s)})
  <2> HIDE DEF g, val
  <2> QED BY <1>3, <1>s
<1>5. \A s \in SUBSET S : g[s] = IF s = {} THEN 0 ELSE v[Some(s)] + g[s \ {Some(s)}]
  <2>1. \A s \in SUBSET S : g[s] = IF s = {} THEN 0 ELSE v[Some(s)] + val(s \ {Some(s)})
    OBVIOUS
  <2> HIDE DEF g, val
  <2> QED BY <1>4, <2>1
<1>6. g = [s \in SUBSET S |-> IF s = {} THEN 0 ELSE v[Some(s)] + g[s \ {Some(s)}]]
  <2>1. g = [s \in SUBSET S |-> g[s]] OBVIOUS
  <2> HIDE DEF g
  <2> QED BY <1>5, <2>1
<1>7. IsSum(g, v, S) BY <1>6 DEF IsSum
<1> QED BY <1>1, <1>7

\* The sum over S is what every solution on a larger set has for S.
LEMMA SumSolves ==
  ASSUME NEW v, NEW U, IsFiniteSet(U), NEW S, S \subseteq U, NEW g, IsSum(g, v, U)
  PROVE  SumOver(v, S) = g[S]
<1> DEFINE iter[s \in SUBSET S] ==
             IF s = {} THEN 0 ELSE LET x == CHOOSE x \in s : TRUE IN v[x] + iter[s \ {x}]
<1>1. SumOver(v, S) = iter[S] BY DEF SumOver, MapThenSumSet, MapThenFoldSet
<1>2. iter = CHOOSE h : h = [s \in SUBSET S |->
                               IF s = {} THEN 0 ELSE v[Some(s)] + h[s \ {Some(s)}]]
  BY DEF Some
<1> HIDE DEF iter
<1>3. IsFiniteSet(S) BY FS_Subset
<1>4. \E h : IsSum(h, v, S) BY <1>3, SumExists
<1>5. IsSum(iter, v, S) BY <1>2, <1>4 DEF IsSum
<1>6. iter[S] = g[S] BY <1>3, <1>5, SumUnique
<1> QED BY <1>1, <1>6

\* The sum over nothing.
LEMMA SumEmpty == ASSUME NEW v PROVE SumOver(v, {}) = 0
<1>1. IsFiniteSet({}) BY FS_EmptySet
<1>2. PICK g : IsSum(g, v, {}) BY <1>1, SumExists
<1>3. g[{}] = 0 BY <1>2 DEF IsSum
<1> QED BY <1>1, <1>2, <1>3, SumSolves

\* The sum over a set, by any element of it, and its type.
LEMMA SumRemove ==
  ASSUME NEW v, NEW S, IsFiniteSet(S), \A x \in S : v[x] \in Int
  PROVE  /\ SumOver(v, S) \in Int
         /\ \A x \in S : SumOver(v, S) = v[x] + SumOver(v, S \ {x})
<1>1. PICK g : IsSum(g, v, S) BY SumExists
<1>2. \A T \in SUBSET S : g[T] = IF T = {} THEN 0 ELSE v[Some(T)] + g[T \ {Some(T)}]
  BY <1>1 DEF IsSum
<1>s. \A T \in SUBSET S : T # {} => Some(T) \in T BY DEF Some
<1>3. \A T \in SUBSET S : g[T] \in Int
  <2> DEFINE B == {T \in SUBSET S : g[T] \notin Int}
  <2> SUFFICES ASSUME B # {} PROVE FALSE
    OBVIOUS
  <2>1. PICK T \in B : \A R \in B : ~(R \subseteq T /\ R # T)
    <3>1. B \subseteq SUBSET S OBVIOUS
    <3> HIDE DEF B
    <3> QED BY <3>1, SmallestSet
  <2>2. T # {}
    <3>1. g[{}] = 0 BY <1>2
    <3>2. g[T] \notin Int OBVIOUS
    <3> QED BY <3>1, <3>2
  <2>3. g[T \ {Some(T)}] \in Int BY <2>1, <2>2, <1>s
  <2> QED BY <2>2, <2>3, <1>2, <1>s
<1>4. \A T \in SUBSET S : \A x \in T : g[T] = v[x] + g[T \ {x}]
  <2> DEFINE B == {T \in SUBSET S : \E x \in T : g[T] # v[x] + g[T \ {x}]}
  <2> SUFFICES ASSUME B # {} PROVE FALSE
    OBVIOUS
  <2>1. PICK T \in B : \A R \in B : ~(R \subseteq T /\ R # T)
    <3>1. B \subseteq SUBSET S OBVIOUS
    <3> HIDE DEF B
    <3> QED BY <3>1, SmallestSet
  <2>2. PICK x \in T : g[T] # v[x] + g[T \ {x}] OBVIOUS
  <2> DEFINE c == Some(T)
  <2>3. c \in T /\ g[T] = v[c] + g[T \ {c}] BY <1>2, <1>s
  <2>4. c # x BY <2>2, <2>3
  <2> HIDE DEF c
  <2>5. g[T \ {c}] = v[x] + g[(T \ {c}) \ {x}]
    <3>1. T \ {c} \notin B BY <2>1, <2>3
    <3> QED BY <3>1, <2>4
  <2>6. g[T \ {x}] = v[c] + g[(T \ {x}) \ {c}]
    <3>1. T \ {x} \notin B BY <2>1
    <3> QED BY <3>1, <2>3, <2>4
  <2>7. (T \ {c}) \ {x} = (T \ {x}) \ {c} OBVIOUS
  <2>8. v[c] \in Int /\ v[x] \in Int /\ g[(T \ {x}) \ {c}] \in Int BY <2>3, <1>3
  <2>9. g[T] = v[c] + (v[x] + g[(T \ {x}) \ {c}]) BY <2>3, <2>5, <2>7
  <2>10. g[T] # v[x] + (v[c] + g[(T \ {x}) \ {c}]) BY <2>2, <2>6
  <2>11. \A i, j, k \in Int : i + (j + k) = j + (i + k) OBVIOUS
  <2> QED BY <2>8, <2>9, <2>10, <2>11
<1>5. \A T \in SUBSET S : SumOver(v, T) = g[T] BY <1>1, SumSolves
<1> QED BY <1>3, <1>4, <1>5

\* The sum over a set and one more element.
LEMMA SumAdd ==
  ASSUME NEW v, NEW S, IsFiniteSet(S), NEW y, y \notin S, \A x \in S \cup {y} : v[x] \in Int
  PROVE  SumOver(v, S \cup {y}) = v[y] + SumOver(v, S)
<1>1. IsFiniteSet(S \cup {y}) BY FS_AddElement
<1>2. (S \cup {y}) \ {y} = S OBVIOUS
<1> QED BY <1>1, <1>2, SumRemove

\* The sum over one element.
LEMMA SumOne == ASSUME NEW v, NEW x, v[x] \in Int PROVE SumOver(v, {x}) = v[x]
<1>1. SumOver(v, {} \cup {x}) = v[x] + SumOver(v, {}) BY SumAdd, FS_EmptySet
<1>2. {} \cup {x} = {x} /\ SumOver(v, {}) = 0 BY SumEmpty
<1> QED BY <1>1, <1>2

\* The sum depends on the summands only.
LEMMA SumSame ==
  ASSUME NEW v, NEW w, NEW S, IsFiniteSet(S), \A x \in S : v[x] \in Int /\ v[x] = w[x]
  PROVE  SumOver(v, S) = SumOver(w, S)
<1> DEFINE B == {T \in SUBSET S : SumOver(v, T) # SumOver(w, T)}
<1> SUFFICES ASSUME B # {} PROVE FALSE
  OBVIOUS
<1>1. PICK T \in B : \A R \in B : ~(R \subseteq T /\ R # T)
  <2>1. B \subseteq SUBSET S OBVIOUS
  <2> HIDE DEF B
  <2> QED BY <2>1, SmallestSet
<1>2. PICK x : x \in T BY SumEmpty
<1>3. SumOver(v, T \ {x}) = SumOver(w, T \ {x}) BY <1>1, <1>2
<1>4. IsFiniteSet(T) BY FS_Subset
<1>5. SumOver(v, T) = v[x] + SumOver(v, T \ {x}) BY <1>2, <1>4, SumRemove
<1>6. SumOver(w, T) = w[x] + SumOver(w, T \ {x}) BY <1>2, <1>4, SumRemove
<1> QED BY <1>2, <1>3, <1>5, <1>6

\* A sum of naturals is one, and no part of it is more.
LEMMA SumNat ==
  ASSUME NEW v, NEW S, IsFiniteSet(S), \A x \in S : v[x] \in Nat
  PROVE  SumOver(v, S) \in Nat
<1> DEFINE B == {T \in SUBSET S : SumOver(v, T) \notin Nat}
<1> SUFFICES ASSUME B # {} PROVE FALSE
  OBVIOUS
<1>1. PICK T \in B : \A R \in B : ~(R \subseteq T /\ R # T)
  <2>1. B \subseteq SUBSET S OBVIOUS
  <2> HIDE DEF B
  <2> QED BY <2>1, SmallestSet
<1>2. PICK x : x \in T BY SumEmpty
<1>3. SumOver(v, T \ {x}) \in Nat BY <1>1, <1>2
<1>4. IsFiniteSet(T) BY FS_Subset
<1>5. SumOver(v, T) = v[x] + SumOver(v, T \ {x}) BY <1>2, <1>4, SumRemove
<1> QED BY <1>2, <1>3, <1>5

\* The sum over two sets that are apart.
LEMMA SumUnion ==
  ASSUME NEW v, NEW S, NEW T, IsFiniteSet(S), IsFiniteSet(T), S \cap T = {},
         \A x \in S \cup T : v[x] \in Int
  PROVE  SumOver(v, S \cup T) = SumOver(v, S) + SumOver(v, T)
<1> DEFINE B == {R \in SUBSET T : SumOver(v, S \cup R) # SumOver(v, S) + SumOver(v, R)}
<1> SUFFICES ASSUME B # {} PROVE FALSE
  OBVIOUS
<1>1. PICK R \in B : \A Q \in B : ~(Q \subseteq R /\ Q # R)
  <2>1. B \subseteq SUBSET T OBVIOUS
  <2> HIDE DEF B
  <2> QED BY <2>1, SmallestSet
<1>0. SumOver(v, S) \in Int BY SumRemove
<1>2. PICK x : x \in R
  <2>1. SumOver(v, S \cup R) # SumOver(v, S) + SumOver(v, R) OBVIOUS
  <2> SUFFICES ASSUME R = {} PROVE FALSE
    OBVIOUS
  <2>2. S \cup R = S /\ SumOver(v, R) = 0 BY SumEmpty
  <2> QED BY <1>0, <2>1, <2>2
<1>3. SumOver(v, S \cup (R \ {x})) = SumOver(v, S) + SumOver(v, R \ {x}) BY <1>1, <1>2
<1>4. IsFiniteSet(R) /\ IsFiniteSet(R \ {x}) /\ IsFiniteSet(S \cup R)
  BY FS_Subset, FS_Union
<1>5. SumOver(v, R) = v[x] + SumOver(v, R \ {x}) BY <1>2, <1>4, SumRemove
<1>6. SumOver(v, S \cup R) = v[x] + SumOver(v, S \cup (R \ {x}))
  <2>1. (S \cup R) \ {x} = S \cup (R \ {x}) BY <1>2
  <2> QED BY <1>2, <1>4, <2>1, SumRemove
<1>7. SumOver(v, R \ {x}) \in Int /\ v[x] \in Int BY <1>2, <1>4, SumRemove
<1> QED BY <1>0, <1>3, <1>5, <1>6, <1>7

\* A sum of zeros.
LEMMA SumZero ==
  ASSUME NEW v, NEW S, IsFiniteSet(S), \A x \in S : v[x] = 0
  PROVE  SumOver(v, S) = 0
<1> DEFINE B == {T \in SUBSET S : SumOver(v, T) # 0}
<1> SUFFICES ASSUME B # {} PROVE FALSE
  OBVIOUS
<1>1. PICK T \in B : \A R \in B : ~(R \subseteq T /\ R # T)
  <2>1. B \subseteq SUBSET S OBVIOUS
  <2> HIDE DEF B
  <2> QED BY <2>1, SmallestSet
<1>2. PICK x : x \in T BY SumEmpty
<1>3. SumOver(v, T \ {x}) = 0 BY <1>1, <1>2
<1>4. IsFiniteSet(T) BY FS_Subset
<1>5. SumOver(v, T) = v[x] + SumOver(v, T \ {x}) BY <1>2, <1>4, SumRemove
<1> QED BY <1>2, <1>3, <1>5

\* One summand changes.
LEMMA SumChange ==
  ASSUME NEW S, IsFiniteSet(S), NEW v, NEW w, NEW y \in S,
         \A x \in S : v[x] \in Int /\ w[x] \in Int,
         \A x \in S \ {y} : w[x] = v[x]
  PROVE  SumOver(w, S) = SumOver(v, S) - v[y] + w[y]
<1>2. IsFiniteSet(S \ {y}) BY FS_RemoveElement
<1>3. SumOver(v, S \ {y}) = SumOver(w, S \ {y}) BY <1>2, SumSame
<1>4. SumOver(v, S) = v[y] + SumOver(v, S \ {y}) BY SumRemove
<1>5. SumOver(w, S) = w[y] + SumOver(w, S \ {y}) BY SumRemove
<1>6. SumOver(v, S \ {y}) \in Int BY <1>2, SumRemove
<1> QED BY <1>3, <1>4, <1>5, <1>6
=============================================================================
