------------------------------ MODULE SageProofs ------------------------------
(* What is proved of the SAGE programs.  Of llama-sage-dual-live, for any     *)
(* number of tokens, tokenizers and sizes: each of the two contexts holds the *)
(* text that was selected, a context of a derived size has room for it, and a *)
(* run of two models without encoders is a SelectedText.  Of the scripts, for *)
(* any data: four programs decide by one rule, the plans, accounts, samples   *)
(* and estimates of the tiered cache agree, a projection's limits are those   *)
(* at which the target is met, and planner and runner tell the same story.    *)
EXTENDS DualLive, SageTools, FiniteSetTheorems, NaturalsInduction, WellFoundedInduction, SequenceTheorems, TLAPS

-----------------------------------------------------------------------------
(* A set of whole numbers that is not empty has a least element.              *)
LEMMA LeastElement ==
    ASSUME NEW T, T \subseteq Nat, T # {}
    PROVE  \E n \in T : \A m \in T : n <= m
<1>1. IsWellFoundedOn(OpToRel(<, Nat), Nat)
  BY NatLessThanWellFounded
<1>2. PICK x \in T : \A y \in T : ~(<<y, x>> \in OpToRel(<, Nat))
  BY <1>1, WFMin, Zenon
<1>3. \A y \in T : y \in Nat /\ x \in Nat
  OBVIOUS
<1>4. \A y \in T : ~(y < x)
  BY <1>2, <1>3, Zenon DEF OpToRel
<1>5. \A y \in T : x <= y
  BY <1>3, <1>4
<1> QED BY <1>5

(* Induction, for a set of whole numbers: what a set holds is stated, and no  *)
(* operator is passed.                                                        *)
LEMMA AllOfNat ==
    ASSUME NEW T, 0 \in T, \A n \in Nat : n \in T => n + 1 \in T
    PROVE  \A n \in Nat : n \in T
<1>1. SUFFICES ASSUME Nat \ T # {} PROVE FALSE
  OBVIOUS
<1>2. PICK n \in Nat \ T : \A m \in Nat \ T : n <= m
  <2>1. Nat \ T \subseteq Nat
    OBVIOUS
  <2> QED BY <1>1, <2>1, LeastElement
<1>3. n # 0 /\ n - 1 \in Nat 
  BY <1>2
<1>4. n - 1 \in T
  BY <1>2, <1>3
<1> QED BY <1>2, <1>3, <1>4

One(s) == CHOOSE x \in s : TRUE

\* Whether it adds up g over the subsets of S.
Sums(it, g, S) == it = [s \in SUBSET S |-> IF s = {} THEN 0 ELSE g[One(s)] + it[s \ {One(s)}]]

(* The element a fold over a set takes first.                                 *)
LEMMA OneOf == \A s : s # {} => One(s) \in s
BY DEF One

(* SumOver is the value at S of a function that adds up.                      *)
LEMMA SumIsIterated ==
    ASSUME NEW S, NEW g
    PROVE  SumOver(g, S) = (CHOOSE it : Sums(it, g, S))[S]
BY Zenon DEF SumOver, MapThenSumSet, MapThenFoldSet, Sums, One

(* What is left of a finite set without one of its elements.                  *)
LEMMA RemoveOne ==
    ASSUME NEW S, IsFiniteSet(S), NEW s \in SUBSET S, s # {}, NEW x \in s
    PROVE  /\ IsFiniteSet(s) /\ IsFiniteSet(s \ {x}) /\ s \ {x} \in SUBSET S
           /\ Cardinality(s) \in Nat /\ Cardinality(s \ {x}) = Cardinality(s) - 1 /\ Cardinality(s \ {x}) \in Nat
           /\ Cardinality(s) # 0
<1>1. IsFiniteSet(s)
  BY FS_Subset
<1>2. IsFiniteSet(s \ {x}) /\ Cardinality(s \ {x}) = Cardinality(s) - 1
  BY <1>1, FS_RemoveElement
<1> QED BY <1>1, <1>2, FS_CardinalityType, FS_EmptySet

(* There is a function that adds up: it is built one cardinality at a time.   *)
LEMMA SumExists ==
    ASSUME NEW S, IsFiniteSet(S), NEW g, \A x \in S : g[x] \in Int
    PROVE  \E it \in [SUBSET S -> Int] : Sums(it, g, S)
<1> DEFINE Few(n) == {s \in SUBSET S : Cardinality(s) <= n}
           Value(it, s) == IF s = {} THEN 0 ELSE g[One(s)] + it[s \ {One(s)}]
           T == {n \in Nat : \E it \in [Few(n) -> Int] : \A s \in Few(n) : it[s] = Value(it, s)}
<1>0. \A s \in SUBSET S : IsFiniteSet(s) /\ Cardinality(s) \in Nat /\ (Cardinality(s) = 0 <=> s = {})
  BY FS_Subset, FS_CardinalityType, FS_EmptySet
<1>1. 0 \in T
  <2> DEFINE it == [s \in Few(0) |-> 0]
  <2>1. \A s \in Few(0) : s = {}
    BY <1>0
  <2>2. it \in [Few(0) -> Int] /\ \A s \in Few(0) : it[s] = Value(it, s)
    BY <2>1
  <2> QED BY <2>2
<1>2. ASSUME NEW n \in Nat, n \in T PROVE n + 1 \in T
  <2>1. PICK it \in [Few(n) -> Int] : \A s \in Few(n) : it[s] = Value(it, s)
    BY <1>2
  <2> DEFINE more == [s \in Few(n + 1) |-> Value(it, s)]
  <2>2. ASSUME NEW s \in Few(n + 1), s # {}
        PROVE  One(s) \in s /\ s \ {One(s)} \in Few(n) /\ s \ {One(s)} \in Few(n + 1)
    <3>1. One(s) \in s
      BY <2>2, OneOf
    <3>2. s \in SUBSET S /\ Cardinality(s) <= n + 1
      OBVIOUS
    <3> DEFINE t == s \ {One(s)}
    <3>3. t \in SUBSET S /\ Cardinality(t) = Cardinality(s) - 1 /\ Cardinality(t) \in Nat /\ Cardinality(s) \in Nat
      BY <2>2, <3>1, <3>2, RemoveOne
    <3> HIDE DEF t
    <3>4. Cardinality(t) <= n /\ Cardinality(t) <= n + 1
      BY <3>2, <3>3
    <3>5. t \in Few(n) /\ t \in Few(n + 1)
      BY <3>3, <3>4
    <3> QED BY <3>1, <3>5 DEF t
  <2>3. \A s \in Few(n) : s \in Few(n + 1) /\ more[s] = it[s]
    <3>1. \A s \in Few(n) : s \in Few(n + 1)
      BY <1>0
    <3> QED BY <3>1, <2>1
  <2>4. more \in [Few(n + 1) -> Int]
    <3> SUFFICES ASSUME NEW s \in Few(n + 1) PROVE Value(it, s) \in Int
      OBVIOUS
    <3> QED BY <2>1, <2>2
  <2>5. ASSUME NEW s \in Few(n + 1) PROVE more[s] = Value(more, s)
    BY <2>2, <2>3
  <2> HIDE DEF more, Few, Value
  <2>6. \E f \in [Few(n + 1) -> Int] : \A s \in Few(n + 1) : f[s] = Value(f, s)
    BY <2>4, <2>5
  <2> QED BY <2>6
<1> HIDE DEF T
<1>3. \A n \in Nat : n \in T
  BY <1>1, <1>2, AllOfNat
<1>4. Cardinality(S) \in Nat /\ Few(Cardinality(S)) = SUBSET S
  BY FS_CardinalityType, FS_Subset
<1>5. PICK it \in [SUBSET S -> Int] : \A s \in SUBSET S : it[s] = Value(it, s)
  <2>1. Cardinality(S) \in T
    BY <1>3, <1>4
  <2>2. \E it \in [Few(Cardinality(S)) -> Int] : \A s \in Few(Cardinality(S)) : it[s] = Value(it, s)
    BY <2>1 DEF T
  <2> HIDE DEF Few
  <2> QED BY <2>2, <1>4
<1>6. it = [s \in SUBSET S |-> Value(it, s)]
  <2> HIDE DEF Value
  <2> QED BY <1>5
<1> QED BY <1>6, <1>5 DEF Sums

\* What the sum of a set is does not depend on the set it is computed in.
LEMMA SumsAgree ==
    ASSUME NEW S, IsFiniteSet(S), NEW T, IsFiniteSet(T), NEW g,
           NEW i, Sums(i, g, S), NEW j, Sums(j, g, T)
    PROVE  \A s \in SUBSET (S \cap T) : i[s] = j[s]
<1> DEFINE N == {n \in Nat : \A s \in SUBSET (S \cap T) : Cardinality(s) = n => i[s] = j[s]}
<1>0. \A s \in SUBSET (S \cap T) : IsFiniteSet(s) /\ Cardinality(s) \in Nat /\ (Cardinality(s) = 0 <=> s = {})
  BY FS_Subset, FS_CardinalityType, FS_EmptySet
<1>1. 0 \in N
  BY <1>0 DEF Sums
<1>2. ASSUME NEW n \in Nat, n \in N PROVE n + 1 \in N
  <2> SUFFICES ASSUME NEW s \in SUBSET (S \cap T), Cardinality(s) = n + 1 PROVE i[s] = j[s]
    OBVIOUS
  <2>1. s # {} /\ One(s) \in s
    BY <1>0, OneOf
  <2> DEFINE t == s \ {One(s)}
  <2>2. t \in SUBSET (S \cap T) /\ Cardinality(t) = n
    <3>1. IsFiniteSet(s) /\ Cardinality(s) = n + 1 /\ One(s) \in s
      BY <1>0, <2>1
    <3>2. Cardinality(t) = Cardinality(s) - 1
      BY <3>1, FS_RemoveElement
    <3> HIDE DEF t
    <3>3. Cardinality(t) = n
      BY <3>1, <3>2
    <3>4. t \in SUBSET (S \cap T)
      BY DEF t
    <3> QED BY <3>3, <3>4
  <2>3. i[t] = j[t]
    BY <2>2, <1>2
  <2>4. i[s] = g[One(s)] + i[t] /\ j[s] = g[One(s)] + j[t]
    BY <2>1 DEF Sums
  <2> QED BY <2>3, <2>4
<1> HIDE DEF N
<1>3. \A n \in Nat : n \in N
  BY <1>1, <1>2, AllOfNat
<1> QED BY <1>0, <1>3 DEF N

(* The sum over a set: nothing of nothing, and otherwise one element and the  *)
(* sum of the others.                                                         *)
LEMMA SumFrom ==
    ASSUME NEW S, IsFiniteSet(S), NEW g, NEW it, Sums(it, g, S)
    PROVE  \A s \in SUBSET S : SumOver(g, s) = it[s]
<1> SUFFICES ASSUME NEW s \in SUBSET S PROVE SumOver(g, s) = it[s]
  OBVIOUS
<1>1. IsFiniteSet(s) /\ s \in SUBSET (s \cap S)
  BY FS_Subset
<1>2. \E j : Sums(j, g, s)
  <2> DEFINE j == [t \in SUBSET s |-> it[t]]
  <2>1. \A t \in SUBSET s : t \in SUBSET S /\ it[t] = IF t = {} THEN 0 ELSE g[One(t)] + it[t \ {One(t)}]
    BY DEF Sums
  <2>2. \A t \in SUBSET s : j[t] = IF t = {} THEN 0 ELSE g[One(t)] + j[t \ {One(t)}]
    BY <2>1
  <2>3. j = [t \in SUBSET s |-> IF t = {} THEN 0 ELSE g[One(t)] + j[t \ {One(t)}]]
    BY <2>2
  <2> QED BY <2>3 DEF Sums
<1>3. Sums(CHOOSE j : Sums(j, g, s), g, s)
  BY <1>2, Zenon
<1>4. (CHOOSE j : Sums(j, g, s))[s] = it[s]
  <2> DEFINE j == CHOOSE j : Sums(j, g, s)
  <2>1. Sums(j, g, s)
    BY <1>3
  <2> HIDE DEF j
  <2>2. j[s] = it[s]
    BY <1>1, <2>1, SumsAgree
  <2> QED BY <2>2 DEF j
<1> QED BY <1>4, SumIsIterated, Zenon

(* A sum of whole numbers is a whole number.                                  *)
LEMMA SumTyped ==
    ASSUME NEW S, IsFiniteSet(S), NEW g, \A x \in S : g[x] \in Int
    PROVE  SumOver(g, S) \in Int /\ SumOver(g, {}) = 0
<1>1. PICK it \in [SUBSET S -> Int] : Sums(it, g, S)
  BY SumExists
<1>2. SumOver(g, S) = it[S] /\ SumOver(g, {}) = it[{}]
  BY <1>1, SumFrom
<1>3. it[{}] = 0
  BY <1>1 DEF Sums
<1> QED BY <1>2, <1>3

\* The sum does not depend on the element that is taken first.
LEMMA SumStep ==
    ASSUME NEW S, IsFiniteSet(S), NEW g, \A x \in S : g[x] \in Int
    PROVE  \A x \in S : SumOver(g, S) = g[x] + SumOver(g, S \ {x})
<1>1. PICK it \in [SUBSET S -> Int] : Sums(it, g, S)
  BY SumExists
<1> DEFINE N == {n \in Nat : \A s \in SUBSET S : Cardinality(s) = n => \A x \in s : it[s] = g[x] + it[s \ {x}]}
<1>2. \A s \in SUBSET S : IsFiniteSet(s) /\ Cardinality(s) \in Nat /\ (Cardinality(s) = 0 <=> s = {})
  BY FS_Subset, FS_CardinalityType, FS_EmptySet
<1>3. 0 \in N
  BY <1>2
<1>4. ASSUME NEW n \in Nat, n \in N PROVE n + 1 \in N
  <2> SUFFICES ASSUME NEW s \in SUBSET S, Cardinality(s) = n + 1, NEW x \in s PROVE it[s] = g[x] + it[s \ {x}]
    OBVIOUS
  <2> DEFINE y == One(s)
  <2>1. y \in s /\ it[s] = g[y] + it[s \ {y}]
    BY <1>1, OneOf DEF Sums
  <2> HIDE DEF y
  <2>2. CASE x = y
    BY <2>1, <2>2
  <2>3. CASE x # y
    <3>1. /\ s \ {x} \in SUBSET S /\ s \ {y} \in SUBSET S
          /\ Cardinality(s \ {x}) = n /\ Cardinality(s \ {y}) = n
      BY <2>1, <1>2, FS_RemoveElement, SMTT(30)
    <3>2. it[s \ {x}] = g[y] + it[(s \ {x}) \ {y}] /\ it[s \ {y}] = g[x] + it[(s \ {y}) \ {x}]
      BY <3>1, <2>1, <2>3, <1>4
    <3>3. (s \ {x}) \ {y} = (s \ {y}) \ {x}
      OBVIOUS
    <3> DEFINE rest == it[(s \ {x}) \ {y}]
    <3>4. g[x] \in Int /\ g[y] \in Int /\ rest \in Int
      BY <2>1
    <3>5. it[s \ {x}] = g[y] + rest /\ it[s] = g[y] + (g[x] + rest)
      BY <2>1, <3>2, <3>3
    <3> HIDE DEF rest
    <3> QED BY <3>4, <3>5
  <2> QED BY <2>2, <2>3
<1> HIDE DEF N
<1>5. \A n \in Nat : n \in N
  BY <1>3, <1>4, AllOfNat
<1>6. \A x \in S : it[S] = g[x] + it[S \ {x}]
  BY <1>2, <1>5 DEF N
<1>7. SumOver(g, S) = it[S] /\ \A x \in S : SumOver(g, S \ {x}) = it[S \ {x}]
  <2>1. \A s \in SUBSET S : SumOver(g, s) = it[s]
    BY <1>1, SumFrom
  <2> QED BY <2>1
<1> QED BY <1>6, <1>7

(* Equal numbers have equal sums.                                             *)
LEMMA SumEqual ==
    ASSUME NEW S, IsFiniteSet(S), NEW g, NEW h, \A x \in S : g[x] \in Int /\ g[x] = h[x]
    PROVE  SumOver(g, S) = SumOver(h, S)
<1>1. PICK it \in [SUBSET S -> Int] : Sums(it, g, S)
  BY SumExists
<1>2. Sums(it, h, S)
  <2>1. \A s \in SUBSET S : s # {} => g[One(s)] = h[One(s)]
    BY OneOf
  <2>2. \A s \in SUBSET S : it[s] = IF s = {} THEN 0 ELSE h[One(s)] + it[s \ {One(s)}]
    BY <1>1, <2>1 DEF Sums
  <2>3. it = [s \in SUBSET S |-> IF s = {} THEN 0 ELSE h[One(s)] + it[s \ {One(s)}]]
    BY <2>2
  <2> QED BY <2>3 DEF Sums
<1> QED BY <1>1, <1>2, SumFrom

\* The sum of a sequence's numbers.
LEMMA SumUpTo ==
    ASSUME NEW n \in Nat, NEW g, \A k \in 1 .. n + 1 : g[k] \in Int
    PROVE  SumOver(g, 1 .. n + 1) = SumOver(g, 1 .. n) + g[n + 1] /\ SumOver(g, 1 .. n) \in Int
<1>1. IsFiniteSet(1 .. n + 1) /\ IsFiniteSet(1 .. n) /\ n + 1 \in 1 .. n + 1 /\ (1 .. n + 1) \ {n + 1} = 1 .. n
  BY FS_Interval
<1>2. SumOver(g, 1 .. n + 1) = g[n + 1] + SumOver(g, 1 .. n)
  BY <1>1, SumStep
<1>3. SumOver(g, 1 .. n) \in Int /\ g[n + 1] \in Int
  <2>1. \A k \in 1 .. n : g[k] \in Int
    OBVIOUS
  <2> QED BY <2>1, <1>1, SumTyped
<1> QED BY <1>2, <1>3

(* A number taken so many times.                                              *)
LEMMA SumConstant ==
    ASSUME NEW n \in Nat, NEW c \in Int, NEW g, \A k \in 1 .. n : g[k] = c
    PROVE  SumOver(g, 1 .. n) = n * c
<1> DEFINE N == {m \in Nat : m <= n => SumOver(g, 1 .. m) = m * c}
<1>1. 0 \in N
  <2>1. SumOver(g, {}) = 0
    BY FS_EmptySet, SumTyped
  <2>2. 1 .. 0 = {}
    OBVIOUS
  <2> QED BY <2>1, <2>2
<1>2. ASSUME NEW m \in Nat, m \in N PROVE m + 1 \in N
  <2> SUFFICES ASSUME m + 1 <= n PROVE SumOver(g, 1 .. m + 1) = (m + 1) * c
    OBVIOUS
  <2>1. SumOver(g, 1 .. m) = m * c
    BY <1>2
  <2>2. \A k \in 1 .. m + 1 : g[k] \in Int /\ g[k] = c
    OBVIOUS
  <2>3. SumOver(g, 1 .. m + 1) = SumOver(g, 1 .. m) + g[m + 1]
    BY <2>2, SumUpTo
  <2>4. g[m + 1] = c /\ (m + 1) * c = m * c + c
    BY <2>2
  <2> QED BY <2>1, <2>3, <2>4
<1> HIDE DEF N
<1>3. \A m \in Nat : m \in N
  BY <1>1, <1>2, AllOfNat
<1> QED BY <1>3 DEF N

(* The sums of two and of four numbers.                                       *)
LEMMA SumOfTwo ==
    ASSUME NEW g, g[1] \in Int, g[2] \in Int
    PROVE  /\ SumOver(g, 1 .. 2) = g[1] + g[2]
           /\ SumOver(g, 1 .. 1) = g[1]
<1>1. SumOver(g, 1 .. 0) = 0 /\ SumOver(g, 1 .. 0 + 1) = SumOver(g, 1 .. 0) + g[0 + 1]
  <2>1. SumOver(g, {}) = 0 /\ 1 .. 0 = {}
    BY FS_EmptySet, SumTyped
  <2>2. \A k \in 1 .. 0 + 1 : g[k] \in Int
    OBVIOUS
  <2>3. SumOver(g, 1 .. 0 + 1) = SumOver(g, 1 .. 0) + g[0 + 1]
    BY <2>2, SumUpTo
  <2> QED BY <2>1, <2>3
<1>2. SumOver(g, 1 .. 1 + 1) = SumOver(g, 1 .. 1) + g[1 + 1]
  <2>1. \A k \in 1 .. 1 + 1 : g[k] \in Int
    OBVIOUS
  <2> QED BY <2>1, SumUpTo
<1>3. 0 + 1 = 1 /\ 1 + 1 = 2
  OBVIOUS
<1> QED BY <1>1, <1>2, <1>3

LEMMA SumOfFour ==
    ASSUME NEW g, \A k \in 1 .. 4 : g[k] \in Int
    PROVE  SumOver(g, 1 .. 4) = g[1] + g[2] + g[3] + g[4]
<1>1. g[1] \in Int /\ g[2] \in Int /\ g[3] \in Int /\ g[4] \in Int
  OBVIOUS
<1>2. SumOver(g, 1 .. 2) = g[1] + g[2]
  BY <1>1, SumOfTwo
<1>3. SumOver(g, 1 .. 2 + 1) = SumOver(g, 1 .. 2) + g[2 + 1]
  <2>1. \A k \in 1 .. 2 + 1 : g[k] \in Int
    OBVIOUS
  <2> QED BY <2>1, SumUpTo
<1>4. SumOver(g, 1 .. 3 + 1) = SumOver(g, 1 .. 3) + g[3 + 1]
  <2>1. \A k \in 1 .. 3 + 1 : g[k] \in Int
    OBVIOUS
  <2> QED BY <2>1, SumUpTo
<1> QED BY <1>1, <1>2, <1>3, <1>4

-----------------------------------------------------------------------------
(* The elements of a finite set of whole numbers: the largest, the smallest.  *)
LEMMA LargestElement ==
    ASSUME NEW S, IsFiniteSet(S), S \subseteq Int, S # {}
    PROVE  Max(S) \in S /\ \A x \in S : x <= Max(S)
<1> DEFINE N == {n \in Nat : \A T \in SUBSET S : T # {} /\ Cardinality(T) <= n => \E x \in T : \A y \in T : y <= x}
<1>0. \A T \in SUBSET S : IsFiniteSet(T) /\ Cardinality(T) \in Nat /\ (Cardinality(T) = 0 <=> T = {})
  BY FS_Subset, FS_CardinalityType, FS_EmptySet
<1>1. 0 \in N
  <2> SUFFICES ASSUME NEW T \in SUBSET S, T # {}, Cardinality(T) <= 0 PROVE FALSE
    OBVIOUS
  <2>1. Cardinality(T) = 0
    BY <1>0
  <2> QED BY <1>0, <2>1
<1>2. ASSUME NEW n \in Nat, n \in N PROVE n + 1 \in N
  <2> SUFFICES ASSUME NEW T \in SUBSET S, T # {}, Cardinality(T) <= n + 1
               PROVE  \E x \in T : \A y \in T : y <= x
    OBVIOUS
  <2>1. PICK t \in T : TRUE
    OBVIOUS
  <2>2. T \ {t} \in SUBSET S /\ Cardinality(T \ {t}) <= n
    <3>1. Cardinality(T \ {t}) = Cardinality(T) - 1
      BY <1>0, FS_RemoveElement
    <3> QED BY <1>0, <3>1
  <2>3. CASE T \ {t} = {}
    BY <2>3
  <2>4. CASE T \ {t} # {}
    <3>1. PICK x \in T \ {t} : \A y \in T \ {t} : y <= x
      BY <1>2, <2>2, <2>4
    <3>2. x \in Int /\ t \in Int /\ \A y \in T : y = t \/ y <= x
      BY <3>1
    <3>3. CASE t <= x
      BY <3>1, <3>2, <3>3
    <3>4. CASE x <= t
      <4>1. \A y \in T : y \in Int
        OBVIOUS
      <4>2. \A y \in T : y <= t
        BY <3>2, <3>4, <4>1
      <4> QED BY <4>2
    <3> QED BY <3>2, <3>3, <3>4
  <2> QED BY <2>3, <2>4
<1>3. \A n \in Nat : n \in N
  <2> HIDE DEF N
  <2> QED BY <1>1, <1>2, AllOfNat
<1>4. \E x \in S : \A y \in S : y <= x
  BY <1>0, <1>3
<1>5. \E x \in S : \A y \in S : x >= y
  BY <1>4
<1>6. Max(S) \in S /\ \A y \in S : Max(S) >= y
  BY <1>5, Zenon DEF Max
<1> QED BY <1>6

(* The k-th element of InOrder stands behind k - 1 others: places are the     *)
(* numbers of elements before, and they are all taken when no two are equal.  *)
LEMMA PlacesTaken ==
    ASSUME NEW S, IsFiniteSet(S), NEW place \in [S -> Nat],
           \A x \in S : place[x] < Cardinality(S),
           \A x \in S, y \in S : place[x] = place[y] => x = y
    PROVE  \A k \in 1 .. Cardinality(S) : \E x \in S : place[x] = k - 1
<1> DEFINE n == Cardinality(S)
           T == 0 .. n - 1
<1>1. n \in Nat
  BY FS_CardinalityType
<1>2. IsFiniteSet(T) /\ Cardinality(T) = n
  BY <1>1, FS_Interval
<1>3. place \in [S -> T]
  BY <1>1
<1> HIDE DEF T
<1>4. place \in Injection(S, T)
  BY <1>3 DEF Injection, IsInjective
<1>5. place \in Surjection(S, T)
  BY <1>2, <1>4, FS_Injection
<1>6. \A t \in T : \E x \in S : place[x] = t
  BY <1>5 DEF Surjection
<1> QED BY <1>1, <1>6 DEF T

(* The number of elements with a smaller key is a place of its own for each   *)
(* element.                                                                   *)
Place(key, S, x) == Cardinality({y \in S : key[y] < key[x]})

LEMMA KeysGivePlaces ==
    ASSUME NEW S, IsFiniteSet(S), NEW key \in [S -> Int], \A x \in S, y \in S : key[x] = key[y] => x = y
    PROVE  /\ \A x \in S : Place(key, S, x) \in Nat /\ Place(key, S, x) < Cardinality(S)
           /\ \A x \in S, y \in S : Place(key, S, x) = Place(key, S, y) => x = y
           /\ \A k \in 1 .. Cardinality(S) : \E x \in S : Place(key, S, x) = k - 1
<1> DEFINE n == Cardinality(S)
           Under(x) == {y \in S : key[y] < key[x]}
           place == [x \in S |-> Cardinality(Under(x))]
<1>1. n \in Nat
  BY FS_CardinalityType
<1>2. \A x \in S : Under(x) \in SUBSET S /\ x \notin Under(x)
  OBVIOUS
<1>3. \A T \in SUBSET S : IsFiniteSet(T) /\ Cardinality(T) \in Nat /\ Cardinality(T) <= n /\ (Cardinality(T) = n => T = S)
  BY FS_Subset, FS_CardinalityType
<1>4. \A x \in S : Cardinality(Under(x)) \in Nat /\ Cardinality(Under(x)) < n
  <2> HIDE DEF Under
  <2> QED BY <1>1, <1>2, <1>3
<1>5. ASSUME NEW x \in S, NEW y \in S, key[x] < key[y] PROVE Cardinality(Under(x)) < Cardinality(Under(y))
  <2>1. \A z \in S : key[z] < key[x] => key[z] < key[y]
    BY <1>5
  <2>2. x \in Under(y)
    BY <1>5
  <2>3. Under(x) \subseteq Under(y)
    BY <2>1
  <2>4. Under(y) \in SUBSET S
    OBVIOUS
  <2> HIDE DEF Under
  <2>5. /\ Cardinality(Under(x)) <= Cardinality(Under(y))
        /\ Cardinality(Under(y)) = Cardinality(Under(x)) => Under(y) = Under(x)
    BY <1>3, <2>3, <2>4, FS_Subset
  <2> QED BY <1>2, <1>4, <2>2, <2>5
<1>6. \A x \in S, y \in S : Cardinality(Under(x)) = Cardinality(Under(y)) => x = y
  <2> SUFFICES ASSUME NEW x \in S, NEW y \in S, Cardinality(Under(x)) = Cardinality(Under(y)), x # y PROVE FALSE
    OBVIOUS
  <2>1. key[x] < key[y] \/ key[y] < key[x]
    OBVIOUS
  <2> HIDE DEF Under
  <2> QED BY <2>1, <1>4, <1>5
<1> HIDE DEF Under
<1>7. \A k \in 1 .. n : \E x \in S : Cardinality(Under(x)) = k - 1
  <2>1. place \in [S -> Nat] /\ \A x \in S : place[x] = Cardinality(Under(x))
    BY <1>4
  <2> HIDE DEF place
  <2>2. /\ \A x \in S : place[x] < n
        /\ \A x \in S, y \in S : place[x] = place[y] => x = y
    BY <1>4, <1>6, <2>1
  <2>3. \A k \in 1 .. n : \E x \in S : place[x] = k - 1
    BY <2>1, <2>2, PlacesTaken
  <2> QED BY <2>1, <2>3
<1>8. \A x : Place(key, S, x) = Cardinality(Under(x))
  BY DEF Place, Under
<1> QED BY <1>4, <1>6, <1>7, <1>8

(* A set of whole numbers is put in order, and every one of them has a place. *)
LEMMA NumbersInOrder ==
    ASSUME NEW S, IsFiniteSet(S), S \subseteq Int
    PROVE  /\ InOrder(S, <) \in [1 .. Cardinality(S) -> S]
           /\ \A x \in S : \E k \in 1 .. Cardinality(S) : InOrder(S, <)[k] = x
<1> DEFINE n == Cardinality(S)
           key == [x \in S |-> x]
           at(x) == Cardinality({y \in S : y < x})
           pick(k) == CHOOSE x \in S : at(x) = k - 1
           s == InOrder(S, <)
<1>1. n \in Nat
  BY FS_CardinalityType
<1>2. \A x \in S : at(x) = Place(key, S, x)
  <2> SUFFICES ASSUME NEW x \in S PROVE {y \in S : y < x} = {y \in S : key[y] < key[x]}
    BY DEF Place
  <2> QED OBVIOUS
<1>3. key \in [S -> Int] /\ \A x \in S, y \in S : key[x] = key[y] => x = y
  OBVIOUS
<1>4. s = [k \in 1 .. n |-> pick(k)]
  BY Zenon DEF InOrder
<1> HIDE DEF at, s, key
<1>5. /\ \A x \in S : at(x) \in Nat /\ at(x) < n
      /\ \A x \in S, y \in S : at(x) = at(y) => x = y
      /\ \A k \in 1 .. n : \E x \in S : at(x) = k - 1
  <2>1. /\ \A x \in S : Place(key, S, x) \in Nat /\ Place(key, S, x) < Cardinality(S)
        /\ \A x \in S, y \in S : Place(key, S, x) = Place(key, S, y) => x = y
        /\ \A k \in 1 .. Cardinality(S) : \E x \in S : Place(key, S, x) = k - 1
    <3>1. \A x \in S : Place(key, S, x) \in Nat /\ Place(key, S, x) < Cardinality(S)
      BY <1>3, KeysGivePlaces, ZenonT(60)
    <3>2. \A x \in S, y \in S : Place(key, S, x) = Place(key, S, y) => x = y
      BY <1>3, KeysGivePlaces, ZenonT(60)
    <3>3. \A k \in 1 .. Cardinality(S) : \E x \in S : Place(key, S, x) = k - 1
      BY <1>3, KeysGivePlaces, ZenonT(60)
    <3> QED BY <3>1, <3>2, <3>3
  <2>2. \A x \in S, y \in S : at(x) = at(y) => x = y
    BY <1>2, <2>1
  <2>3. \A k \in 1 .. n : \E x \in S : at(x) = k - 1
    BY <1>2, <2>1
  <2> QED BY <1>2, <2>1, <2>2, <2>3
<1>6. ASSUME NEW k \in 1 .. n PROVE pick(k) \in S /\ at(pick(k)) = k - 1
  BY <1>5, Zenon
<1> HIDE DEF pick
<1>7. ASSUME NEW x \in S PROVE \E k \in 1 .. n : s[k] = x
  <2> DEFINE k == at(x) + 1
  <2>1. k \in 1 .. n /\ k - 1 = at(x)
    BY <1>1, <1>5
  <2> HIDE DEF k
  <2>2. pick(k) \in S /\ at(pick(k)) = at(x)
    BY <1>6, <2>1
  <2> QED BY <1>4, <1>5, <2>1, <2>2
<1>8. s \in [1 .. n -> S]
  BY <1>4, <1>6
<1> QED BY <1>7, <1>8 DEF s

(* The largest of a set of whole numbers, of the elements of a sequence.      *)
LEMMA LargestOf ==
    ASSUME NEW S, IsFiniteSet(S), S \subseteq Nat, NEW m \in Nat, m \in S \cup {0}, \A x \in S : x <= m
    PROVE  Max({0} \cup S) = m
<1>1. IsFiniteSet({0} \cup S) /\ {0} \cup S \subseteq Int /\ {0} \cup S # {}
  <2>1. {0} \cup S = S \cup {0}
    OBVIOUS
  <2> QED BY <2>1, FS_AddElement
<1> DEFINE M == Max({0} \cup S)
<1>2. M \in {0} \cup S /\ \A x \in {0} \cup S : x <= M
  BY <1>1, LargestElement
<1> HIDE DEF M
<1>3. M \in Nat /\ m \in {0} \cup S
  BY <1>2
<1>4. m <= M
  BY <1>2, <1>3
<1>5. M <= m
  BY <1>2
<1> QED BY <1>3, <1>4, <1>5 DEF M

(* The largest of some numbers is the one none exceeds.                       *)
LEMMA LargestOfMany ==
    ASSUME NEW n \in Nat, NEW g, NEW m \in Nat, \A k \in 1 .. n : g[k] \in Nat /\ g[k] <= m,
           \E k \in 1 .. n : g[k] = m
    PROVE  Max({0} \cup {g[k] : k \in 1 .. n}) = m
<1> DEFINE S == {g[k] : k \in 1 .. n}
<1>1. IsFiniteSet(1 .. n)
  BY FS_Interval
<1>2. [k \in 1 .. n |-> g[k]] \in Surjection(1 .. n, S)
  BY DEF Surjection
<1>3. S \subseteq Nat /\ m \in S /\ \A x \in S : x <= m
  OBVIOUS
<1> HIDE DEF S
<1>4. IsFiniteSet(S)
  BY <1>1, <1>2, FS_Surjection
<1>5. m \in S \cup {0}
  BY <1>3
<1>6. Max({0} \cup S) = m
  BY <1>3, <1>4, <1>5, LargestOf
<1> QED BY <1>6 DEF S

-----------------------------------------------------------------------------
(* Products and quotients of whole numbers.                                   *)
LEMMA Product == \A a \in Nat, b \in Nat : a * b \in Nat
OBVIOUS

(* A product of positive numbers is positive.                                 *)
LEMMA PositiveProduct == \A a \in Nat \ {0}, b \in Nat \ {0} : a * b \in Nat \ {0}
OBVIOUS

(* What is known of a quotient and its remainder.                             *)
LEMMA Division ==
    ASSUME NEW x \in Nat, NEW b \in Nat, b > 0
    PROVE  x \div b \in Int /\ x = b * (x \div b) + (x % b) /\ x % b < b
<1>1. x = b * (x \div b) + (x % b)
  OBVIOUS
<1>2. x \div b \in Int /\ x % b < b
  OBVIOUS
<1> QED BY <1>1, <1>2

(* The bytes that a page cache may have active.                               *)
LEMMA Quotient ==
    ASSUME NEW n \in Nat, NEW d \in Nat \ {0}
    PROVE  n \div d \in Nat /\ d * (n \div d) <= n /\ (\A m \in Nat : n < m * d => n \div d < m)
<1> DEFINE q == n \div d
<1>1. q \in Nat /\ n % d \in 0 .. d - 1 /\ n = d * q + (n % d)
  OBVIOUS
<1> HIDE DEF q
<1>2. d * q \in Nat /\ d * q <= n
  BY <1>1, Product
<1>3. ASSUME NEW m \in Nat, n < m * d PROVE q < m
  <2>1. CASE m <= q
    <3>1. m * d <= q * d /\ q * d = d * q
      BY <1>1, <2>1
    <3>2. m * d \in Nat
      BY Product
    <3> QED BY <1>2, <1>3, <3>1, <3>2
  <2> QED BY <2>1, <1>1
<1> QED BY <1>1, <1>2, <1>3 DEF q

(* A product divided by one of its factors.                                   *)
LEMMA WholeQuotient ==
    ASSUME NEW n \in Nat \ {0}, NEW q \in Nat, NEW r \in 0 .. n - 1
    PROVE  (n * q + r) \div n = q
<1> DEFINE nq == n * q
           x == nq + r
           p == x \div n
           rest == x % n
<1>1. nq \in Nat /\ x \in Nat /\ n \in Nat /\ n > 0
  BY Product
<1>2. p \in Int /\ x = n * p + rest /\ rest < n /\ rest \in Nat
  <2> HIDE DEF x
  <2> QED BY <1>1, Division
<1> HIDE DEF p, rest
<1>3. CASE p < q
  <2>1. n * (p + 1) <= n * q
    <3>1. p + 1 <= q
      BY <1>2, <1>3
    <3> QED BY <1>2, <3>1
  <2>2. n * (p + 1) = n * p + n
    BY <1>2
  <2>3. n * p \in Int
    BY <1>2
  <2> QED BY <1>1, <1>2, <2>1, <2>2, <2>3
<1>4. CASE q < p
  <2>1. n * (q + 1) <= n * p
    <3>1. q + 1 <= p
      BY <1>2, <1>4
    <3> QED BY <1>2, <3>1
  <2>2. n * (q + 1) = n * q + n
    OBVIOUS
  <2>3. n * p \in Int
    BY <1>2
  <2> QED BY <1>1, <1>2, <2>1, <2>2, <2>3
<1>5. p = q
  BY <1>2, <1>3, <1>4
<1> QED BY <1>5 DEF p

-----------------------------------------------------------------------------
(* The text of so many rows.                                                  *)
SelectedOf(rows) == [i \in DOMAIN rows |-> rows[i].selected]

LEMMA RowSelects == \A row \in Row : row.selected \in Piece
BY DEF Row

LEMMA SelectedIsSeq ==
    ASSUME NEW rows \in Seq(Row)
    PROVE  SelectedOf(rows) \in Seq(Piece) /\ Len(SelectedOf(rows)) = Len(rows)
<1>1. Len(rows) \in Nat /\ DOMAIN rows = 1 .. Len(rows)
  BY LenProperties
<1>2. \A i \in 1 .. Len(rows) : rows[i] \in Row
  BY ElementOfSeq
<1>3. SelectedOf(rows) \in [1 .. Len(rows) -> Piece]
  BY <1>1, <1>2, RowSelects DEF SelectedOf
<1> QED BY <1>1, <1>3, SeqDef DEF SelectedOf

LEMMA PromptIsSeq == <<Prompt>> \in Seq(Piece) /\ Len(<<Prompt>>) = 1
BY DEF Prompt, Piece

LEMMA AppendToConcat ==
    ASSUME NEW S, NEW a \in Seq(S), NEW b \in Seq(S), NEW x \in S
    PROVE  a \o Append(b, x) = Append(a \o b, x)
<1>1. Append(b, x) = b \o <<x>> /\ <<x>> \in Seq(S)
  BY AppendIsConcat
<1>2. a \o b \in Seq(S)
  BY ConcatProperties
<1>3. a \o (b \o <<x>>) = (a \o b) \o <<x>>
  BY <1>1, ConcatAssociative
<1>4. Append(a \o b, x) = (a \o b) \o <<x>>
  BY <1>2, AppendIsConcat
<1> QED BY <1>1, <1>3, <1>4

LEMMA TextIsSeq ==
    ASSUME NEW rows \in Seq(Row)
    PROVE  TextAfter(rows) \in Seq(Piece)
BY SelectedIsSeq, PromptIsSeq, ConcatProperties DEF TextAfter, SelectedOf

LEMMA TextGrows ==
    ASSUME NEW rows \in Seq(Row), NEW row \in Row
    PROVE  TextAfter(Append(rows, row)) = Append(TextAfter(rows), row.selected)
<1> DEFINE before == SelectedOf(rows)
           after  == SelectedOf(Append(rows, row))
           longer == Append(before, row.selected)
<1>1. /\ before \in Seq(Piece) /\ Len(before) = Len(rows) /\ row.selected \in Piece
      /\ Append(rows, row) \in Seq(Row) /\ Len(Append(rows, row)) = Len(rows) + 1
  BY SelectedIsSeq, RowSelects, AppendProperties
<1>2. after \in Seq(Piece) /\ longer \in Seq(Piece) /\ Len(after) = Len(rows) + 1 /\ Len(longer) = Len(rows) + 1
  <2>1. \A q \in Seq(Row) : SelectedOf(q) \in Seq(Piece) /\ Len(SelectedOf(q)) = Len(q)
    BY SelectedIsSeq
  <2>2. longer \in Seq(Piece) /\ Len(longer) = Len(before) + 1
    BY <1>1, AppendProperties
  <2> QED BY <1>1, <2>1, <2>2
<1>3. ASSUME NEW i \in 1 .. Len(rows) + 1 PROVE after[i] = longer[i]
  <2>1. after[i] = Append(rows, row)[i].selected
    BY <1>1, LenProperties DEF SelectedOf
  <2>2. i <= Len(rows) => before[i] = rows[i].selected
    BY LenProperties DEF SelectedOf
  <2> QED BY <1>1, <2>1, <2>2, AppendProperties
<1>4. after = longer
  BY <1>2, <1>3, SeqEqual
<1>5. <<Prompt>> \o longer = Append(<<Prompt>> \o before, row.selected)
  BY <1>1, PromptIsSeq, AppendToConcat
<1> QED BY <1>4, <1>5 DEF TextAfter, SelectedOf

-----------------------------------------------------------------------------
(* Types.                                                                     *)
LEMMA AnswersAreTyped ==
    /\ NoAnswer \in AnAnswer
    /\ \A r \in Runner, seen \in Seq(Piece), empty \in BOOLEAN :
          [by |-> r, after |-> seen, empty |-> empty] \in AnAnswer
BY EmptySeq DEF NoAnswer, AnAnswer, Runner

(* The sizes that are computed, the answers and the text of a run have their  *)
(* types.                                                                     *)
LEMMA ContextForIsSize == \A n \in Nat : ctx_size \in CtxSizes => ContextFor(n) \in Nat
BY DualLiveAssumption DEF ContextFor

LEMMA KnownIsSeq ==
    ASSUME TypeOK, NEW r \in Runner
    PROVE  Known(r) \in Seq(Piece) /\ NewTokens(r) \in Nat
<1>1. read[r] \in Seq(Piece) /\ pending[r] \in Seq(Piece) /\ n_pending[r] \in Nat
  BY DEF TypeOK
<1> QED BY <1>1, ConcatProperties DEF Known, NewTokens

(* What generate_one() does to the types when it succeeds, and when it fails. *)
LEMMA DecodeTypes ==
    ASSUME TypeOK, NEW r \in Runner, Decode(r), answer' \in [Runner -> AnAnswer],
           pc' \in {"ask", "append", "write"}
    PROVE  TypeOK'
<1>1. Known(r) \in Seq(Piece) /\ NewTokens(r) \in Nat /\ <<>> \in Seq(Piece)
  BY KnownIsSeq, EmptySeq
<1>2. read' \in [Runner -> Seq(Piece)] /\ pending' \in [Runner -> Seq(Piece)]
  BY <1>1 DEF TypeOK, Decode
<1>3. n_pos' \in [Runner -> Nat] /\ n_pending' \in [Runner -> Nat] /\ decode_calls' \in [Runner -> Nat]
  BY <1>1, SMTT(30) DEF TypeOK, Decode
<1> QED BY <1>2, <1>3 DEF TypeOK, Decode, loadVars

LEMMA AnswersType ==
    ASSUME TypeOK, NEW r \in Runner, Answers(r)
    PROVE  answer' \in [Runner -> AnAnswer]
BY KnownIsSeq, AnswersAreTyped, SMTT(30) DEF Answers, TypeOK

LEMMA FailsType == TypeOK /\ Fails => TypeOK'
BY DEF TypeOK, Fails, loadVars, runnerVars

(* The selected piece, and the row that names it.                             *)
LEMMA SelectedTyped ==
    ASSUME TypeOK
    PROVE  /\ Author \in Runner /\ SelectedPiece \in Piece
           /\ Retokenized \subseteq Nat
           /\ [proxy |-> answer["proxy"], oracle |-> answer["oracle"], selected |-> SelectedPiece] \in Row
<1>1. Author \in Runner
  BY DEF Author, Runner
<1>2. Len(steps) \in Nat
  BY LenProperties DEF TypeOK
<1>3. SelectedPiece \in Piece
  BY <1>1, <1>2 DEF SelectedPiece, Piece, Runner
<1>4. Retokenized \subseteq Nat
  BY DualLiveAssumption DEF Retokenized
<1>5. answer["proxy"] \in AnAnswer /\ answer["oracle"] \in AnAnswer
  BY DEF TypeOK, Runner
<1> QED BY <1>1, <1>3, <1>4, <1>5 DEF Row

LEMMA AppendTypes ==
    ASSUME TypeOK, AppendSelected
    PROVE  TypeOK'
<1>1. CASE Fails
  BY <1>1, FailsType
<1>2. CASE ~Fails
  <2>1. PICK n \in Retokenized : FeedBoth([r \in Runner |-> IF r = Author THEN 1 ELSE n])
    BY <1>2 DEF AppendSelected
  <2>2. n \in Nat /\ SelectedPiece \in Piece
    BY SelectedTyped
  <2>3. pending' \in [Runner -> Seq(Piece)]
    BY <2>1, <2>2, AppendProperties DEF FeedBoth, TypeOK
  <2>4. n_pending' \in [Runner -> Nat] /\ accepted_text_tokens' \in [Runner -> Nat]
    <3> DEFINE tokens == [r \in Runner |-> IF r = Author THEN 1 ELSE n]
    <3>1. tokens \in [Runner -> Nat]
      BY <2>2
    <3>2. n_pending \in [Runner -> Nat] /\ accepted_text_tokens \in [Runner -> Nat]
      BY DEF TypeOK
    <3>3. /\ n_pending' = [r \in Runner |-> n_pending[r] + tokens[r]]
          /\ accepted_text_tokens' = [r \in Runner |-> accepted_text_tokens[r] + tokens[r]]
      BY <2>1 DEF FeedBoth
    <3> HIDE DEF tokens
    <3> QED BY <3>1, <3>2, <3>3
  <2>5. steps' \in Seq(Row)
    <3> DEFINE row == [proxy |-> answer["proxy"], oracle |-> answer["oracle"], selected |-> SelectedPiece]
    <3>1. steps \in Seq(Row)
      BY DEF TypeOK
    <3>2. row \in Row
      BY SelectedTyped
    <3>3. steps' = Append(steps, row)
      BY <1>2 DEF AppendSelected
    <3> HIDE DEF row
    <3> QED BY <3>1, <3>2, <3>3, AppendProperties
  <2>6. answer' \in [Runner -> AnAnswer]
    BY <1>2, AnswersAreTyped DEF AppendSelected
  <2> QED BY <1>2, <2>3, <2>4, <2>5, <2>6 DEF AppendSelected, TypeOK, loadVars
<1> QED BY <1>1, <1>2

LEMMA NextTypes == TypeOK /\ [Next]_vars => TypeOK'
<1> SUFFICES ASSUME TypeOK, [Next]_vars PROVE TypeOK'
  OBVIOUS
<1>0. "proxy" \in Runner /\ "oracle" \in Runner
  BY DEF Runner
<1>1. CASE InitRunners
  <2>1. CASE Fails
    BY <2>1, FailsType
  <2>2. CASE ~Fails
    <3>1. PICK tokens \in [Runner -> 1 .. MaxPieces] :
             /\ prompt_tokens' = tokens /\ n_pending' = tokens
             /\ n_ctx' = [r \in Runner |-> ContextFor(tokens[r])]
             /\ pending' = [r \in Runner |-> <<Prompt>>]
             /\ pc' = "propose"
             /\ UNCHANGED <<ctx_size, read, n_pos, accepted_text_tokens, decode_calls, answer, steps>>
      BY <1>1, <2>2 DEF InitRunners
    <3>2. tokens \in [Runner -> Nat]
      BY <3>1, DualLiveAssumption
    <3>3. n_ctx' \in [Runner -> Nat]
      BY <3>1, <3>2, ContextForIsSize DEF TypeOK
    <3>4. pending' \in [Runner -> Seq(Piece)]
      BY <3>1, PromptIsSeq
    <3> QED BY <3>1, <3>2, <3>3, <3>4 DEF TypeOK
  <2> QED BY <2>1, <2>2
<1>2. ASSUME NEW r \in Runner, EndsText(r) PROVE TypeOK'
  BY <1>2, DecodeTypes DEF EndsText, TypeOK
<1>3. ASSUME NEW r \in Runner, Answers(r), pc' \in {"ask", "append"} PROVE TypeOK'
  BY <1>3, DecodeTypes, AnswersType DEF Answers
<1>4. CASE Propose
  BY <1>0, <1>2, <1>3, <1>4, FailsType DEF Propose
<1>5. CASE AskOracle
  BY <1>0, <1>2, <1>3, <1>5, FailsType DEF AskOracle
<1>6. CASE AppendSelected
  BY <1>6, AppendTypes
<1>7. CASE EndLoop \/ WriteOutput \/ UNCHANGED vars
  BY <1>7, FailsType DEF EndLoop, WriteOutput, TypeOK, vars, loadVars, runnerVars
<1> QED BY <1>1, <1>4, <1>5, <1>6, <1>7 DEF Next

LEMMA InitTypes == Init => TypeOK
<1>1. <<>> \in Seq(Piece) /\ <<>> \in Seq(Row) /\ NoAnswer \in AnAnswer
  BY EmptySeq, AnswersAreTyped
<1> QED BY <1>1 DEF Init, TypeOK

(* The variables keep their types whatever the models answer.                 *)
THEOREM TypeCorrect == Spec => []TypeOK
BY InitTypes, NextTypes, PTL DEF Spec

-----------------------------------------------------------------------------
(* What makes the promises inductive: before the models are loaded nothing is *)
(* known; afterwards the sizes are those computed from the prompt, no more    *)
(* than NPredict pieces are selected, and the answers of the step at hand     *)
(* were given to all the text there is.                                       *)
Running == pc \notin {"load", "failed"}

Fresh ==
    pc = "load" =>
        /\ steps = <<>>
        /\ \A r \in Runner : read[r] = <<>> /\ n_pos[r] = 0 /\ accepted_text_tokens[r] = 0 /\ answer[r] = NoAnswer

Sizes == Running => \A r \in Runner : n_ctx[r] = ContextFor(prompt_tokens[r])

StepsBounded == Len(steps) <= NPredict /\ (pc \in {"ask", "append"} => Len(steps) < NPredict)

Shown(r) == answer[r].by = r /\ (r \notin Encoders => answer[r].after = TextAfter(steps))

StepAnswers ==
    /\ pc = "propose" => \A r \in Runner : answer[r] = NoAnswer
    /\ pc \in {"ask", "append"} => Shown("proxy")
    /\ pc = "ask" => answer["oracle"] = NoAnswer
    /\ pc = "append" => answer["oracle"] = NoAnswer \/ Shown("oracle")

IInv == TypeOK /\ Fresh /\ Sizes /\ StepsBounded /\ StepAnswers /\ ContextsHoldTheText
LEMMA InitInv == Init => IInv
<1> SUFFICES ASSUME Init PROVE IInv
  OBVIOUS
<1>1. steps = <<>> /\ Len(steps) = 0 /\ pc = "load"
  BY DEF Init
<1>2. Fresh
  BY DEF Init, Fresh
<1>3. Sizes /\ StepsBounded /\ StepAnswers /\ ContextsHoldTheText
  BY <1>1, DualLiveAssumption DEF Sizes, Running, StepsBounded, StepAnswers, ContextsHoldTheText
<1> QED BY <1>2, <1>3, InitTypes DEF IInv

(* generate_one() reads all the text there is, and leaves none pending.       *)
LEMMA KnownIsText ==
    ASSUME IInv, Running, NEW r \in Runner
    PROVE  r \notin Encoders => Known(r) = TextAfter(steps)
BY DEF IInv, Running, ContextsHoldTheText, Known

LEMMA DecodeHolds ==
    ASSUME IInv, Running, NEW r \in Runner, Decode(r)
    PROVE  ContextsHoldTheText'
<1> SUFFICES ASSUME NEW q \in Runner \ Encoders
             PROVE  /\ read'[q] \o pending'[q] = TextAfter(steps)
                    /\ n_pos'[q] + n_pending'[q] = prompt_tokens[q] + accepted_text_tokens[q]
  BY DEF ContextsHoldTheText, Decode, loadVars
<1>1. /\ read[q] \o pending[q] = TextAfter(steps)
      /\ n_pos[q] + n_pending[q] = prompt_tokens[q] + accepted_text_tokens[q]
  BY DEF IInv, ContextsHoldTheText, Running
<1>2. TypeOK
  BY DEF IInv
<1>3. CASE q # r
  BY <1>1, <1>2, <1>3 DEF Decode, TypeOK
<1>4. CASE q = r
  <2>1. read'[q] = read[q] \o pending[q] /\ pending'[q] = <<>>
    BY <1>2, <1>4 DEF Decode, TypeOK, Known
  <2>2. n_pos'[q] = n_pos[q] + n_pending[q] /\ n_pending'[q] = 0
    BY <1>2, <1>4 DEF Decode, TypeOK, NewTokens
  <2>3. read[q] \o pending[q] \in Seq(Piece) /\ n_pos[q] + n_pending[q] \in Nat
    BY <1>2, ConcatProperties, SMTT(30) DEF TypeOK
  <2> QED BY <1>1, <2>1, <2>2, <2>3, ConcatEmptySeq
<1> QED BY <1>3, <1>4

(* A failure, and the end of a text, leave what was promised.                 *)
LEMMA FailsInv == IInv /\ Fails => IInv'
<1> SUFFICES ASSUME IInv, Fails PROVE IInv'
  OBVIOUS
<1>1. TypeOK' /\ pc' = "failed" /\ steps' = steps /\ Len(steps) <= NPredict
  BY FailsType DEF IInv, Fails, StepsBounded
<1> QED BY <1>1 DEF IInv, Fresh, Sizes, Running, StepsBounded, StepAnswers, ContextsHoldTheText

LEMMA EndsTextInv ==
    ASSUME IInv, Running, NEW r \in Runner, EndsText(r)
    PROVE  IInv'
<1>1. TypeOK'
  BY DecodeTypes DEF EndsText, IInv, TypeOK
<1>2. pc' = "write" /\ ContextsHoldTheText'
  BY DecodeHolds DEF EndsText
<1>3. UNCHANGED <<loadVars, steps>>
  BY DEF EndsText, Decode
<1> QED BY <1>1, <1>2, <1>3 DEF IInv, Fresh, Sizes, Running, ContextFor, StepsBounded, StepAnswers, loadVars

(* An answer is shown all the text there is.                                  *)
LEMMA AnswerShown ==
    ASSUME IInv, Running, NEW r \in Runner, Answers(r)
    PROVE  /\ Shown(r)'
           /\ \A q \in Runner : q # r => answer'[q] = answer[q]
           /\ UNCHANGED <<loadVars, steps>>
<1>1. PICK empty \in BOOLEAN : answer' = [answer EXCEPT ![r] = [by |-> r, after |-> Known(r), empty |-> empty]]
  BY DEF Answers
<1>2. DOMAIN answer = Runner
  BY DEF IInv, TypeOK
<1>3. UNCHANGED <<loadVars, steps>>
  BY DEF Answers, Decode
<1>4. answer'[r].by = r /\ answer'[r].after = Known(r)
  BY <1>1, <1>2
<1> QED BY <1>1, <1>2, <1>3, <1>4, KnownIsText DEF Shown

LEMMA AnswersInv ==
    ASSUME IInv, Running, NEW r \in Runner, Answers(r), pc' \in {"ask", "append"},
           Len(steps) < NPredict, StepAnswers'
    PROVE  IInv'
<1>1. TypeOK'
  BY DecodeTypes, AnswersType DEF Answers, IInv
<1>2. ContextsHoldTheText'
  BY DecodeHolds DEF Answers
<1>3. UNCHANGED <<loadVars, steps>> /\ n_ctx' = n_ctx /\ prompt_tokens' = prompt_tokens /\ ctx_size' = ctx_size
  BY AnswerShown DEF loadVars
<1>4. Sizes'
  BY <1>3 DEF IInv, Sizes, Running, ContextFor
<1>5. StepsBounded' /\ Fresh'
  BY <1>3 DEF IInv, StepsBounded, Fresh
<1> QED BY <1>1, <1>2, <1>4, <1>5 DEF IInv

(* Both models are fed the piece that is selected.                            *)
LEMMA AppendInv == IInv /\ AppendSelected => IInv'
<1> SUFFICES ASSUME IInv, AppendSelected PROVE IInv'
  OBVIOUS
<1>1. CASE Fails
  BY <1>1, FailsInv
<1>2. CASE ~Fails
  <2> DEFINE row == [proxy |-> answer["proxy"], oracle |-> answer["oracle"], selected |-> SelectedPiece]
  <2>1. TypeOK /\ TypeOK' /\ row \in Row /\ row.selected = SelectedPiece
    BY AppendTypes, SelectedTyped DEF IInv
  <2>2. /\ pc = "append" /\ pc' = "propose" /\ steps' = Append(steps, row)
        /\ answer' = [r \in Runner |-> NoAnswer]
        /\ UNCHANGED <<loadVars, read, n_pos, decode_calls>>
    BY <1>2 DEF AppendSelected
  <2>3. PICK n \in Retokenized : FeedBoth([r \in Runner |-> IF r = Author THEN 1 ELSE n])
    BY <1>2 DEF AppendSelected
  <2> DEFINE tokens == [r \in Runner |-> IF r = Author THEN 1 ELSE n]
  <2>4. tokens \in [Runner -> Nat] /\ SelectedPiece \in Piece
    BY <2>1, SelectedTyped
  <2>5. /\ pending' = [r \in Runner |-> Append(pending[r], SelectedPiece)]
        /\ n_pending' = [r \in Runner |-> n_pending[r] + tokens[r]]
        /\ accepted_text_tokens' = [r \in Runner |-> accepted_text_tokens[r] + tokens[r]]
    BY <2>3 DEF FeedBoth
  <2> HIDE DEF row, tokens
  <2>6. steps \in Seq(Row) /\ TextAfter(steps') = Append(TextAfter(steps), SelectedPiece)
    <3>1. steps \in Seq(Row)
      BY <2>1 DEF TypeOK
    <3> QED BY <2>1, <2>2, <3>1, TextGrows
  <2>7. ContextsHoldTheText'
    <3> SUFFICES ASSUME NEW q \in Runner \ Encoders
                 PROVE  /\ read'[q] \o pending'[q] = TextAfter(steps')
                        /\ n_pos'[q] + n_pending'[q] = prompt_tokens'[q] + accepted_text_tokens'[q]
      BY DEF ContextsHoldTheText, TextAfter
    <3>1. /\ read[q] \o pending[q] = TextAfter(steps)
          /\ n_pos[q] + n_pending[q] = prompt_tokens[q] + accepted_text_tokens[q]
      BY <2>2 DEF IInv, ContextsHoldTheText
    <3>2. read[q] \in Seq(Piece) /\ pending[q] \in Seq(Piece)
      BY <2>1 DEF TypeOK
    <3>3. read[q] \o Append(pending[q], SelectedPiece) = Append(read[q] \o pending[q], SelectedPiece)
      <4>1. \A a, b \in Seq(Piece), x \in Piece : a \o Append(b, x) = Append(a \o b, x)
        BY AppendToConcat
      <4> QED BY <2>4, <3>2, <4>1
    <3>4. read'[q] \o pending'[q] = TextAfter(steps')
      BY <2>2, <2>5, <2>6, <3>1, <3>3
    <3>5. /\ n_pos[q] \in Nat /\ n_pending[q] \in Nat /\ prompt_tokens[q] \in Nat
          /\ accepted_text_tokens[q] \in Nat /\ tokens[q] \in Nat
      BY <2>1, <2>4 DEF TypeOK
    <3>6. prompt_tokens' = prompt_tokens /\ n_pos' = n_pos
      BY <2>2 DEF loadVars
    <3>7. n_pos[q] + (n_pending[q] + tokens[q]) = prompt_tokens[q] + (accepted_text_tokens[q] + tokens[q])
      BY <3>1, <3>5, SMTT(30)
    <3> QED BY <2>5, <3>4, <3>6, <3>7
  <2>8. Sizes' /\ Fresh'
    BY <2>2 DEF IInv, Sizes, Running, Fresh, ContextFor, loadVars
  <2>9. StepAnswers'
    BY <2>2 DEF StepAnswers
  <2>10. StepsBounded'
    <3>1. Len(steps') = Len(steps) + 1 /\ Len(steps) \in Nat
      BY <2>1, <2>2, <2>6, AppendProperties, LenProperties
    <3> QED BY <2>2, <3>1, DualLiveAssumption DEF IInv, StepsBounded
  <2> QED BY <2>1, <2>7, <2>8, <2>9, <2>10 DEF IInv
<1> QED BY <1>1, <1>2
LEMMA NextInv == IInv /\ [Next]_vars => IInv'
<1> SUFFICES ASSUME IInv, [Next]_vars PROVE IInv'
  OBVIOUS
<1>0. TypeOK /\ "proxy" \in Runner /\ "oracle" \in Runner /\ "proxy" # "oracle"
  BY DEF IInv, Runner
<1>1. CASE InitRunners
  <2>1. CASE Fails
    BY <2>1, FailsInv
  <2>2. CASE ~Fails
    <3>1. TypeOK'
      BY <1>0, NextTypes
    <3>2. PICK tokens \in [Runner -> 1 .. MaxPieces] :
             /\ prompt_tokens' = tokens /\ n_pending' = tokens
             /\ n_ctx' = [r \in Runner |-> ContextFor(tokens[r])]
             /\ pending' = [r \in Runner |-> <<Prompt>>]
             /\ pc' = "propose" /\ ctx_size' = ctx_size
             /\ UNCHANGED <<ctx_size, read, n_pos, accepted_text_tokens, decode_calls, answer, steps>>
      BY <1>1, <2>2 DEF InitRunners
    <3>3. /\ steps = <<>>
          /\ \A r \in Runner : read[r] = <<>> /\ n_pos[r] = 0 /\ accepted_text_tokens[r] = 0 /\ answer[r] = NoAnswer
      BY <1>1 DEF IInv, InitRunners, Fresh
    <3>4. Sizes'
      BY <3>2 DEF Sizes, ContextFor
    <3>5. StepAnswers' /\ Fresh' /\ StepsBounded'
      BY <3>2, <3>3 DEF IInv, StepAnswers, Fresh, StepsBounded
    <3>6. TextAfter(steps) = <<Prompt>>
      <4>1. [i \in DOMAIN steps |-> steps[i].selected] = <<>>
        BY <3>3
      <4> QED BY <4>1, PromptIsSeq, ConcatEmptySeq DEF TextAfter
    <3>7. ContextsHoldTheText'
      <4> SUFFICES ASSUME NEW q \in Runner
                   PROVE  /\ read'[q] \o pending'[q] = TextAfter(steps)
                          /\ n_pos'[q] + n_pending'[q] = prompt_tokens'[q] + accepted_text_tokens'[q]
        BY <3>2 DEF ContextsHoldTheText
      <4>1. read'[q] = <<>> /\ pending'[q] = <<Prompt>> /\ <<>> \o <<Prompt>> = <<Prompt>>
        BY <3>2, <3>3, PromptIsSeq, ConcatEmptySeq
      <4>2. n_pos'[q] = 0 /\ accepted_text_tokens'[q] = 0 /\ n_pending'[q] = prompt_tokens'[q] /\ prompt_tokens'[q] \in Nat
        BY <3>1, <3>2, <3>3 DEF TypeOK
      <4> QED BY <3>6, <4>1, <4>2
    <3> QED BY <3>1, <3>4, <3>5, <3>7 DEF IInv
  <2> QED BY <2>1, <2>2
<1>2. CASE Propose
  <2>0. pc = "propose" /\ Running /\ Len(steps) < NPredict
    <3>1. Len(steps) \in Nat
      BY <1>0, LenProperties DEF TypeOK
    <3> QED BY <1>2, <3>1 DEF Propose, Running
  <2>1. ASSUME Answers("proxy"), pc' \in {"ask", "append"} PROVE IInv'
    <3>1. Shown("proxy")' /\ answer'["oracle"] = answer["oracle"]
      BY <1>0, <2>0, <2>1, AnswerShown
    <3>2. answer["oracle"] = NoAnswer
      BY <1>0, <2>0 DEF IInv, StepAnswers
    <3>3. StepAnswers'
      BY <2>1, <3>1, <3>2 DEF StepAnswers, Shown
    <3> QED BY <1>0, <2>0, <2>1, <3>3, AnswersInv
  <2> QED BY <1>0, <1>2, <2>0, <2>1, FailsInv, EndsTextInv DEF Propose
<1>3. CASE AskOracle
  <2>0. pc = "ask" /\ Running /\ Len(steps) < NPredict
    BY <1>3 DEF AskOracle, Running, IInv, StepsBounded
  <2>1. ASSUME Answers("oracle"), pc' = "append" PROVE IInv'
    <3>1. Shown("oracle")' /\ answer'["proxy"] = answer["proxy"] /\ steps' = steps
      BY <1>0, <2>0, <2>1, AnswerShown
    <3>2. Shown("proxy")'
      BY <2>0, <3>1 DEF IInv, StepAnswers, Shown, TextAfter
    <3>3. StepAnswers'
      BY <2>1, <3>1, <3>2 DEF StepAnswers, Shown
    <3> QED BY <1>0, <2>0, <2>1, <3>3, AnswersInv
  <2> QED BY <1>0, <1>3, <2>0, <2>1, FailsInv, EndsTextInv DEF AskOracle
<1>4. CASE AppendSelected
  BY <1>4, AppendInv
<1>5. CASE EndLoop \/ WriteOutput
  <2>1. CASE Fails
    BY <2>1, FailsInv
  <2>2. CASE ~Fails
    <3>1. /\ UNCHANGED <<loadVars, runnerVars, answer, steps>>
          /\ pc \notin {"load", "failed"} /\ pc' \in {"write", "done"}
      BY <1>5, <2>2 DEF EndLoop, WriteOutput
    <3>2. TypeOK'
      BY <1>0, NextTypes
    <3>3. ContextsHoldTheText'
      BY <3>1 DEF IInv, ContextsHoldTheText, loadVars, runnerVars, TextAfter
    <3>4. Sizes' /\ StepsBounded' /\ StepAnswers' /\ Fresh'
      BY <3>1 DEF IInv, Sizes, Running, StepsBounded, StepAnswers, Fresh, ContextFor, loadVars
    <3> QED BY <3>2, <3>3, <3>4 DEF IInv
  <2> QED BY <2>1, <2>2
<1>6. CASE UNCHANGED vars
  BY <1>6 DEF IInv, TypeOK, Fresh, Sizes, Running, StepsBounded, StepAnswers, Shown, ContextsHoldTheText, ContextFor, TextAfter,
              vars, loadVars, runnerVars
<1> QED BY <1>1, <1>2, <1>3, <1>4, <1>5, <1>6 DEF Next

THEOREM Invariance == Spec => []IInv
BY InitInv, NextInv, PTL DEF Spec

(* Whatever is fed in whichever tokens, and however far the oracle falls      *)
(* behind, both contexts hold the selected text once and in its order.        *)
THEOREM ContextsTheorem == Spec => []ContextsHoldTheText
<1>1. IInv => ContextsHoldTheText
  BY DEF IInv
<1> QED BY <1>1, Invariance, PTL

(* A context of a derived size has room for all pending tokens as long as its *)
(* tokenizer makes no more than Slack tokens too many.                        *)
THEOREM RoomTheorem == Spec => []RoomSuffices
<1>1. IInv => RoomSuffices
  <2> SUFFICES ASSUME IInv, NEW r \in Runner \ Encoders, ctx_size = 0, Running,
                      accepted_text_tokens[r] <= Len(steps) + Slack
               PROVE  n_pos[r] + n_pending[r] <= n_ctx[r]
    BY DEF RoomSuffices, Running
  <2>1. n_pos[r] + n_pending[r] = prompt_tokens[r] + accepted_text_tokens[r]
    BY DEF IInv, ContextsHoldTheText, Running
  <2>2. n_ctx[r] = ContextFor(prompt_tokens[r]) /\ Len(steps) <= NPredict
    BY DEF IInv, Sizes, StepsBounded
  <2>3. prompt_tokens[r] \in Nat /\ accepted_text_tokens[r] \in Nat /\ Len(steps) \in Nat /\ n_ctx[r] \in Nat
    BY LenProperties DEF IInv, TypeOK
  <2>4. ContextFor(prompt_tokens[r]) >= prompt_tokens[r] + NPredict + Slack
    BY <2>3, DualLiveAssumption DEF ContextFor
  <2> QED BY <2>1, <2>2, <2>3, <2>4, DualLiveAssumption
<1> QED BY <1>1, Invariance, PTL
-----------------------------------------------------------------------------
(* The refinement.  What a row shows of the text does not change when more    *)
(* rows follow it.                                                            *)
LEMMA SeenGrows ==
    ASSUME NEW rows \in Seq(Row), NEW row \in Row
    PROVE  SeenOf(Append(rows, row)) = Append(SeenOf(rows), SeenRow(Append(rows, row), Len(rows) + 1))
<1> DEFINE more == Append(rows, row)
<1>1. /\ Len(rows) \in Nat /\ DOMAIN rows = 1 .. Len(rows)
      /\ more \in Seq(Row) /\ Len(more) = Len(rows) + 1 /\ DOMAIN more = 1 .. Len(rows) + 1
      /\ \A i \in 1 .. Len(rows) : more[i] = rows[i] /\ rows[i] \in Row
  BY LenProperties, AppendProperties, ElementOfSeq
<1>2. ASSUME NEW i \in 1 .. Len(rows) PROVE SeenRow(more, i) = SeenRow(rows, i)
  <2>1. SubSeq(more, 1, i - 1) = SubSeq(rows, 1, i - 1)
    BY <1>1
  <2> HIDE DEF more
  <2> QED BY <1>1, <2>1 DEF SeenRow, SeenIn
<1> HIDE DEF more
<1>3. SeenOf(more) = [i \in 1 .. Len(rows) + 1 |-> IF i <= Len(rows) THEN SeenRow(rows, i) ELSE SeenRow(more, Len(rows) + 1)]
  BY <1>1, <1>2 DEF SeenOf
<1>4. DOMAIN SeenOf(rows) = 1 .. Len(rows) /\ \A i \in 1 .. Len(rows) : SeenOf(rows)[i] = SeenRow(rows, i)
  BY <1>1 DEF SeenOf
<1>5. Len(SeenOf(rows)) = Len(rows)
  BY <1>1, <1>4
<1>6. Append(SeenOf(rows), SeenRow(more, Len(rows) + 1))
      = [i \in 1 .. Len(rows) + 1 |-> IF i <= Len(rows) THEN SeenRow(rows, i) ELSE SeenRow(more, Len(rows) + 1)]
  BY <1>1, <1>4, <1>5
<1> QED BY <1>3, <1>6 DEF more
LEMMA TextStep == Encoders = {} /\ IInv /\ IInv' /\ [Next]_vars => [Text!Next]_TextSeen
<1> SUFFICES ASSUME Encoders = {}, IInv, [Next]_vars, steps' # steps PROVE Text!Next
  BY DEF TextSeen, SeenOf, SeenRow, SeenIn, TextAfter
<1>1. AppendSelected /\ ~Fails
  BY DEF Next, vars, InitRunners, Propose, AskOracle, EndsText, Answers, Decode, AppendSelected, EndLoop, WriteOutput, Fails
<1> DEFINE row  == [proxy |-> answer["proxy"], oracle |-> answer["oracle"], selected |-> SelectedPiece]
           more == Append(steps, row)
           n    == Len(steps)
<1>2. TypeOK /\ steps \in Seq(Row) /\ n \in Nat /\ row \in Row
  BY SelectedTyped, LenProperties DEF IInv, TypeOK
<1>3. steps' = more /\ pc = "append"
  BY <1>1 DEF AppendSelected
<1>4. SubSeq(more, 1, n) = steps /\ more[n + 1] = row /\ more \in Seq(Row)
  BY <1>2, AppendProperties
<1>5. ASSUME NEW r \in Runner, Shown(r)
      PROVE  SeenIn(more, answer[r], n + 1) = [by |-> r, at |-> n] /\ answer[r] # NoAnswer
  <2>1. answer[r].by = r /\ answer[r].after = TextAfter(steps)
    BY <1>5 DEF Shown
  <2>2. answer[r] # NoAnswer
    BY <2>1 DEF NoAnswer, Runner
  <2>3. (n + 1) - 1 = n
    BY <1>2
  <2>4. SubSeq(more, 1, (n + 1) - 1) = steps
    BY <1>4, <2>3
  <2> HIDE DEF more, n, row
  <2> QED BY <2>1, <2>2, <2>3, <2>4 DEF SeenIn
<1>6. SeenIn(more, NoAnswer, n + 1) = NoAnswer
  BY DEF SeenIn
<1>7. TextSeen' = Append(TextSeen, SeenRow(more, n + 1))
  BY <1>2, <1>3, SeenGrows DEF TextSeen
<1>8. Len(TextSeen) = n
  <2>1. DOMAIN TextSeen = 1 .. n
    BY <1>2, LenProperties DEF TextSeen, SeenOf
  <2> QED BY <1>2, <2>1
<1>9. Shown("proxy") /\ (answer["oracle"] = NoAnswer \/ Shown("oracle"))
  BY <1>3 DEF IInv, StepAnswers
<1>10. SeenRow(more, n + 1) = [proxy |-> SeenIn(more, answer["proxy"], n + 1), oracle |-> SeenIn(more, answer["oracle"], n + 1),
                              selected |-> SeenIn(more, row[Author], n + 1)]
  <2>1. row.selected.by = Author /\ row.proxy = answer["proxy"] /\ row.oracle = answer["oracle"]
    BY DEF SelectedPiece
  <2> HIDE DEF more, row, n
  <2> QED BY <1>4, <2>1 DEF SeenRow
<1>11. "proxy" \in Runner /\ "oracle" \in Runner
  BY DEF Runner
<1>12. CASE answer["oracle"] = NoAnswer
  <2>1. row[Author] = answer["proxy"]
    BY <1>12 DEF Author
  <2> HIDE DEF more, row, n
  <2>2. SeenRow(more, n + 1) = [proxy |-> [by |-> "proxy", at |-> n], oracle |-> NoAnswer, selected |-> [by |-> "proxy", at |-> n]]
    BY <1>5, <1>6, <1>9, <1>10, <1>11, <1>12, <2>1
  <2>3. [by |-> "proxy", at |-> n] \in Text!AnswerOf("proxy")
    BY <1>8 DEF Text!AnswerOf
  <2> QED BY <1>7, <2>2, <2>3 DEF Text!Next, Text!Accepts
<1>13. CASE answer["oracle"] # NoAnswer
  <2>1. row[Author] = answer["oracle"]
    BY <1>13 DEF Author
  <2> HIDE DEF more, row, n
  <2>2. SeenRow(more, n + 1) = [proxy |-> [by |-> "proxy", at |-> n], oracle |-> [by |-> "oracle", at |-> n],
                                selected |-> [by |-> "oracle", at |-> n]]
    BY <1>5, <1>9, <1>10, <1>11, <1>13, <2>1
  <2>3. [by |-> "proxy", at |-> n] \in Text!AnswerOf("proxy") /\ [by |-> "oracle", at |-> n] \in Text!AnswerOf("oracle")
    BY <1>8 DEF Text!AnswerOf
  <2> QED BY <1>7, <2>2, <2>3 DEF Text!Next, Text!FallsBack
<1> QED BY <1>12, <1>13

(* Two models without encoders write a text in which every token was          *)
(* generated from all the text before it, and the oracle was asked exactly    *)
(* where its token stands.                                                    *)
THEOREM TextRefinement ==
    ASSUME Encoders = {}
    PROVE  Spec => TextSpec
<1>1. Init => Text!Init
  BY DEF Init, Text!Init, TextSeen, SeenOf
<1>2. IInv /\ IInv' /\ [Next]_vars => [Text!Next]_TextSeen
  BY TextStep
<1> QED BY <1>1, <1>2, Invariance, PTL DEF Spec, TextSpec, Text!Spec

-----------------------------------------------------------------------------
(* The rule common_sage_decide() of patch 0008, written as a chain of early   *)
(* exits, decides what the rule of sage_cpp_policy_parity.py decides, which   *)
(* names its conditions first.                                                *)
LEMMA DecideParity ==
    ASSUME NEW task, NEW gate, NEW frozen, task.has_ffn \in BOOLEAN
    PROVE  CppDecide(task, gate, frozen) = ExpectedDecision(task, gate, frozen)
<1> DEFINE accept  == ProxyGateAccepts(task, gate)
           needed  == VerifierNeeded(task, gate)
           covered == needed /\ task.has_ffn
           verdict == covered /\ FrozenAccept(task, frozen)
<1> USE DEF CppDecide, ExpectedDecision
<1>0. /\ accept <=> (task.proxy_entropy <= gate.max_entropy \/ task.proxy_margin >= gate.min_margin)
      /\ needed <=> accept /\ task.token_class \in gate.verifier_classes
      /\ accept \in BOOLEAN /\ needed \in BOOLEAN /\ covered \in BOOLEAN /\ verdict \in BOOLEAN
  BY DEF ProxyGateAccepts, VerifierNeeded, FrozenAccept
<1>1. CASE ~accept
  BY <1>0, <1>1 DEF ProxyGateAccepts, VerifierNeeded, FrozenAccept
<1>2. CASE accept /\ ~needed
  BY <1>0, <1>2 DEF ProxyGateAccepts, VerifierNeeded, FrozenAccept
<1>3. CASE needed /\ ~covered
  BY <1>0, <1>3 DEF ProxyGateAccepts, VerifierNeeded, FrozenAccept
<1>4. CASE covered /\ verdict
  BY <1>0, <1>4 DEF ProxyGateAccepts, VerifierNeeded, FrozenAccept
<1>5. CASE covered /\ ~verdict
  BY <1>0, <1>5 DEF ProxyGateAccepts, VerifierNeeded, FrozenAccept
<1> QED BY <1>0, <1>1, <1>2, <1>3, <1>4, <1>5

(* The fields of a decision that the reports and the replays read.            *)
Fields == {"proxy_gate_accept", "verifier_needed", "verifier_covered", "verifier_accept", "action", "reason"}

(* A task that needs a verdict and whose capture has tensors, but not the     *)
(* sentinel.                                                                  *)
LacksSentinel(task, gate) == VerifierNeeded(task, gate) /\ task.tensor_count > 0 /\ ~task.has_ffn

(* make_decisions() of sage_runtime_scheduler.py decides alike, field by      *)
(* field, unless the task lacks the sentinel.                                 *)
LEMMA SchedulerParity ==
    ASSUME NEW task, NEW gate, NEW frozen, task.has_ffn \in BOOLEAN,
           task.has_ffn => task.tensor_count > 0,
           ~LacksSentinel(task, gate)
    PROVE  \A f \in Fields :
              SchedulerDecision(task, gate, FrozenAccept(task, frozen))[f] = ExpectedDecision(task, gate, frozen)[f]
<1> DEFINE accept  == ProxyGateAccepts(task, gate)
           needed  == VerifierNeeded(task, gate)
           covered == needed /\ task.has_ffn
           verdict == covered /\ FrozenAccept(task, frozen)
           d == SchedulerDecision(task, gate, FrozenAccept(task, frozen))
           e == ExpectedDecision(task, gate, frozen)
<1>0. /\ needed => accept
      /\ needed => (task.tensor_count > 0 <=> task.has_ffn)
      /\ accept \in BOOLEAN /\ needed \in BOOLEAN /\ FrozenAccept(task, frozen) \in BOOLEAN
  BY DEF ProxyGateAccepts, VerifierNeeded, FrozenAccept, LacksSentinel
<1> SUFFICES /\ d.proxy_gate_accept = e.proxy_gate_accept /\ d.verifier_needed = e.verifier_needed
             /\ d.verifier_covered = e.verifier_covered /\ d.verifier_accept = e.verifier_accept
             /\ d.action = e.action /\ d.reason = e.reason
  BY DEF Fields
<1> USE DEF SchedulerDecision, ExpectedDecision
<1>1. CASE ~accept
  BY <1>0, <1>1
<1>2. CASE accept /\ ~needed
  BY <1>0, <1>2
<1>3. CASE needed /\ ~covered
  BY <1>0, <1>3
<1>4. CASE covered /\ verdict
  BY <1>0, <1>4
<1>5. CASE covered /\ ~verdict
  BY <1>0, <1>5
<1> QED BY <1>0, <1>1, <1>2, <1>3, <1>4, <1>5

(* A replay (sage_multitoken_replay.py) that looks up the C++ hook's decision *)
(* repeats it: it recomputes the gate and the need of a verdict, and takes    *)
(* the recorded decision only where there was one to take.                    *)
LEMMA ReplayParity ==
    ASSUME NEW task, NEW gate, NEW frozen, NEW source, task.has_ffn \in BOOLEAN
    PROVE  LET replayed == ReplayRule(ProxyGateAccepts(task, gate), VerifierNeeded(task, gate),
                                      CppDecide(task, gate, frozen), source)
               decided  == CppDecide(task, gate, frozen)
           IN  /\ replayed.action = decided.action /\ replayed.reason = decided.reason
               /\ replayed.verifier_covered = decided.verifier_covered
<1> DEFINE accept  == ProxyGateAccepts(task, gate)
           needed  == VerifierNeeded(task, gate)
           covered == needed /\ task.has_ffn
           e == ExpectedDecision(task, gate, frozen)
<1>0. CppDecide(task, gate, frozen) = e
  BY DecideParity
<1>1. e # NoDecision
  <2>1. e.action # NoDecision.action
    BY DEF ExpectedDecision, NoDecision, Accept, Fallback
  <2> QED BY <2>1
<1>2. /\ needed => accept
      /\ accept \in BOOLEAN /\ needed \in BOOLEAN /\ covered \in BOOLEAN
  BY DEF ProxyGateAccepts, VerifierNeeded
<1>3. /\ ~accept => e.action = Fallback /\ e.reason = "proxy_gate_reject" /\ ~e.verifier_covered
      /\ accept /\ ~needed => e.action = Accept /\ e.reason = "proxy_gate_non_verifier_class" /\ ~e.verifier_covered
      /\ e.verifier_covered \in BOOLEAN
  BY <1>2 DEF ExpectedDecision
<1> HIDE DEF accept, needed, covered, e
<1>4. CASE ~accept
  BY <1>0, <1>2, <1>3, <1>4 DEF ReplayRule, accept, needed
<1>5. CASE accept /\ ~needed
  BY <1>0, <1>2, <1>3, <1>5 DEF ReplayRule, accept, needed
<1>6. CASE needed
  BY <1>0, <1>1, <1>2, <1>6 DEF ReplayRule, accept, needed
<1> QED BY <1>2, <1>4, <1>5, <1>6

(* A task that lacks the sentinel parts them: the hook misses the signal      *)
(* and asks the oracle; the scheduler counts the task as covered, and without *)
(* the sum only the entropy can accept it.                                    *)
LEMMA WithoutSentinelParts ==
    ASSUME NEW task, NEW gate, NEW frozen, task.has_ffn \in BOOLEAN, LacksSentinel(task, gate)
    PROVE  LET scheduled == SchedulerDecision(task, gate, FrozenAccept(task, frozen))
               decided   == CppDecide(task, gate, frozen)
               sure      == task.proxy_entropy <= frozen.entropy
           IN  /\ ~decided.verifier_covered /\ decided.action = Fallback
               /\ decided.reason = "missing_runtime_signal"
               /\ scheduled.verifier_covered /\ scheduled.action = (IF sure THEN Accept ELSE Fallback)
               /\ scheduled.reason = (IF sure THEN "runtime_verifier_accept" ELSE "runtime_verifier_reject")
<1>1. ProxyGateAccepts(task, gate) /\ VerifierNeeded(task, gate) /\ task.tensor_count > 0 /\ task.has_ffn = FALSE
  BY DEF LacksSentinel, VerifierNeeded
<1>2. FrozenAccept(task, frozen) <=> task.proxy_entropy <= frozen.entropy
  BY <1>1 DEF FrozenAccept
<1>3. CppDecide(task, gate, frozen) = ExpectedDecision(task, gate, frozen)
  BY DecideParity
<1>4. ~ExpectedDecision(task, gate, frozen).verifier_covered
  BY <1>1 DEF ExpectedDecision
<1>5. ExpectedDecision(task, gate, frozen).action = Fallback
  BY <1>1 DEF ExpectedDecision
<1>6. ExpectedDecision(task, gate, frozen).reason = "missing_runtime_signal"
  BY <1>1 DEF ExpectedDecision
<1>7. CASE task.proxy_entropy <= frozen.entropy
  BY <1>1, <1>2, <1>3, <1>4, <1>5, <1>6, <1>7 DEF SchedulerDecision
<1>8. CASE ~(task.proxy_entropy <= frozen.entropy)
  BY <1>1, <1>2, <1>3, <1>4, <1>5, <1>6, <1>8 DEF SchedulerDecision
<1> QED BY <1>7, <1>8

(* One rule in three programs, for every task (whose sentinel, when it was    *)
(* captured, is one of its tensors): the Python scheduler and the C++ hook    *)
(* accept or refuse the proxy's token alike, and for the same reason, unless  *)
(* the token needs a verdict and was captured without the sentinel.  There    *)
(* the hook asks the oracle and the scheduler lets the entropy decide, so     *)
(* that they act alike exactly when the entropy refuses.  The replay of the   *)
(* hook's decision repeats it in every case.                                  *)
THEOREM OneRuleTheorem ==
    ASSUME NEW task, NEW gate, NEW frozen, NEW source, task.has_ffn \in BOOLEAN,
           task.has_ffn => task.tensor_count > 0
    PROVE  LET scheduled == SchedulerDecision(task, gate, FrozenAccept(task, frozen))
               decided   == CppDecide(task, gate, frozen)
               replayed  == ReplayRule(ProxyGateAccepts(task, gate), VerifierNeeded(task, gate), decided, source)
               lacking   == LacksSentinel(task, gate)
               sure      == task.proxy_entropy <= frozen.entropy
           IN  /\ ~lacking => \A f \in Fields : scheduled[f] = decided[f]
               /\ lacking => /\ decided.reason = "missing_runtime_signal" /\ decided.action = Fallback
                             /\ scheduled.reason = (IF sure THEN "runtime_verifier_accept"
                                                           ELSE "runtime_verifier_reject")
                             /\ (scheduled.action = decided.action) <=> ~sure
               /\ replayed.action = decided.action /\ replayed.reason = decided.reason
               /\ replayed.verifier_covered = decided.verifier_covered
<1> DEFINE scheduled == SchedulerDecision(task, gate, FrozenAccept(task, frozen))
           decided   == CppDecide(task, gate, frozen)
           sure      == task.proxy_entropy <= frozen.entropy
<1>1. ~LacksSentinel(task, gate) => \A f \in Fields : scheduled[f] = decided[f]
  BY DecideParity, SchedulerParity
<1>2. LacksSentinel(task, gate) => /\ decided.reason = "missing_runtime_signal" /\ decided.action = Fallback
                                  /\ scheduled.reason = (IF sure THEN "runtime_verifier_accept"
                                                                ELSE "runtime_verifier_reject")
                                  /\ scheduled.action = (IF sure THEN Accept ELSE Fallback)
  BY WithoutSentinelParts
<1>3. LacksSentinel(task, gate) => ((scheduled.action = decided.action) <=> ~sure)
  <2> HIDE DEF scheduled, decided, sure
  <2> QED BY <1>2 DEF Accept, Fallback
<1> QED BY <1>1, <1>2, <1>3, ReplayParity

(* The check of sage_cpp_policy_parity.py finds no mismatch: whatever rows,   *)
(* gate and frozen thresholds it is given, the decisions common_sage_decide() *)
(* takes on them meet every match it requires.                                *)
THEOREM ParityTheorem ==
    ASSUME NEW S, NEW rows \in Seq(S), rows # <<>>, NEW gate, NEW frozen,
           \A i \in DOMAIN rows : rows[i].task.has_ffn \in BOOLEAN
    PROVE  RunParity(rows, [i \in DOMAIN rows |-> CppDecide(rows[i].task, gate, frozen)], gate, frozen)
              .meets_required_matches
<1> DEFINE cpp == [i \in DOMAIN rows |-> CppDecide(rows[i].task, gate, frozen)]
           expected == [i \in DOMAIN rows |-> ExpectedDecision(rows[i].task, gate, frozen)]
           wrong == {i \in DOMAIN rows : ParityMismatch(rows[i], cpp[i], expected[i]) # {}}
<1>1. cpp = expected
  BY DecideParity
<1>2. Len(cpp) = Len(rows)
  <2>1. Len(rows) \in Nat /\ DOMAIN rows = 1 .. Len(rows)
    BY LenProperties
  <2>2. cpp \in [1 .. Len(rows) -> {cpp[i] : i \in 1 .. Len(rows)}]
    BY <2>1
  <2>3. cpp \in Seq({cpp[i] : i \in 1 .. Len(rows)}) /\ DOMAIN cpp = 1 .. Len(rows)
    BY <2>1, <2>2, SeqDef
  <2> QED BY <2>1, <2>3, LenProperties
<1>3. wrong = {}
  <2>1. \A row, d : ParityMismatch(row, d, d) = {}
    BY DEF ParityMismatch
  <2> QED BY <1>1, <2>1
<1> HIDE DEF cpp, wrong
<1>4. RunParity(rows, cpp, gate, frozen).meets_required_matches = (wrong = {})
  BY <1>2 DEF RunParity, wrong
<1> QED BY <1>3, <1>4 DEF cpp

-----------------------------------------------------------------------------
(* The tiers of the oracle's cache.  The options are those the scripts accept *)
(* (make_payload() refuses widths of zero bits).                              *)
TokensOf(account) == <<account.hot_tokens, account.warm_tokens, account.cold_tokens>>
TierOptions == [hot_recent : Nat, sinks : Nat, warm_max : Nat, warm_bits : Nat \ {0},
                cold_dim : Nat, cold_bits : Nat \ {0}, hot_budget : Int, include_context_limit : BOOLEAN]

(* Three programs split a cache alike.  The plan of sage_kv_ledger.py, the    *)
(* account of sage_kv_runtime_ledger.py, which takes the sinks off first, and *)
(* estimate_tiered_kv_bytes() of patch 0014 give every number of tokens the   *)
(* same hot, warm and cold shares, and the three shares are all the tokens:   *)
(* none is in two tiers, none in no tier.                                     *)
THEOREM TiersTheorem ==
    ASSUME NEW opt \in TierOptions, NEW n \in Nat, NEW ledger, NEW full_bits
    PROVE  LET plan == <<HotTokens(n, opt), WarmTokens(n, opt), ColdTokens(n, opt)>>
           IN  /\ TokensOf(Account(ledger, opt, n)) = plan
               /\ TokensOf(CppAccount(n, full_bits, opt)) = plan
               /\ plan[1] + plan[2] + plan[3] = n
<1> DEFINE r == opt.hot_recent  s == opt.sinks  w == opt.warm_max
<1>0. r \in Nat /\ s \in Nat /\ w \in Nat
  BY DEF TierOptions
<1> HIDE DEF r, s, w
<1> USE DEF Smaller, NotNegative
<1>1. /\ HotTokens(n, opt) = Smaller(n, r + s)
      /\ WarmTokens(n, opt) = Smaller(NotNegative(n - Smaller(n, r + s)), w)
      /\ ColdTokens(n, opt) = NotNegative(n - HotTokens(n, opt) - WarmTokens(n, opt))
  BY DEF HotTokens, WarmTokens, ColdTokens, r, s, w
<1>2. HotTokens(n, opt) + WarmTokens(n, opt) + ColdTokens(n, opt) = n
  BY <1>0, <1>1
<1>3. NotNegative(n) = n /\ NotNegative(r) = r /\ NotNegative(s) = s /\ NotNegative(w) = w
  BY <1>0
<1> DEFINE a == Smaller(n, s)
           b == Smaller(NotNegative(n - a), r)
           c == Smaller(NotNegative(NotNegative(n - a) - b), w)
           d == NotNegative(NotNegative(n - a) - b - c)
<1>4. a + b = HotTokens(n, opt) /\ c = WarmTokens(n, opt) /\ d = ColdTokens(n, opt)
  BY <1>0, <1>1
<1> HIDE DEF a, b, c, d, Smaller, NotNegative
<1>5. TokensOf(Account(ledger, opt, n)) = <<a + b, c, d>>
  <2> DEFINE account == Account(ledger, opt, n)
  <2>1. account.hot_tokens = a + b /\ account.warm_tokens = c /\ account.cold_tokens = d
    BY DEF Account, a, b, c, d, r, s, w
  <2> QED BY <2>1 DEF TokensOf
<1>6. TokensOf(CppAccount(n, full_bits, opt)) = <<a + b, c, d>>
  BY <1>3 DEF CppAccount, TokensOf, a, b, c, d, r, s, w
<1> QED BY <1>2, <1>4, <1>5, <1>6

(* int(round(bits / 8)) does not decrease, although it takes halves to the    *)
(* even neighbour.                                                            *)
LEMMA RoundedGrows ==
    ASSUME NEW a \in Nat, NEW b \in Nat, a <= b
    PROVE  RoundedBytes(a) <= RoundedBytes(b)
BY DEF RoundedBytes

(* The C++ rounding, halves up, is at most one byte above it.                 *)
LEMMA RoundedTwice ==
    ASSUME NEW a \in Nat
    PROVE  /\ CppRoundedBytes(a) - RoundedBytes(a) \in {0, 1}
           /\ a % 8 = 0 => CppRoundedBytes(a) = RoundedBytes(a)
BY DEF RoundedBytes, CppRoundedBytes

(* A product and a tier grow with their tokens.                               *)
LEMMA ProductGrows ==
    ASSUME NEW a \in Nat, NEW b \in Nat, NEW k \in Nat, a <= b
    PROVE  a * k \in Nat /\ b * k \in Nat /\ a * k <= b * k
OBVIOUS

(* More tokens leave no tier smaller.                                         *)
LEMMA TiersGrow ==
    ASSUME NEW opt \in TierOptions, NEW m \in Nat, NEW n \in Nat, m <= n
    PROVE  /\ {HotTokens(n, opt), WarmTokens(n, opt), ColdTokens(n, opt),
               HotTokens(m, opt), WarmTokens(m, opt), ColdTokens(m, opt)} \subseteq Nat
           /\ HotTokens(m, opt) <= HotTokens(n, opt)
           /\ WarmTokens(m, opt) <= WarmTokens(n, opt)
           /\ ColdTokens(m, opt) <= ColdTokens(n, opt)
<1>1. opt.hot_recent \in Nat /\ opt.sinks \in Nat /\ opt.warm_max \in Nat
  BY DEF TierOptions
<1> DEFINE size == opt.hot_recent + opt.sinks
           most == opt.warm_max
           beyond(x) == NotNegative(x - HotTokens(x, opt))
<1>2. size \in Nat /\ most \in Nat
  BY <1>1
<1>3. \A x \in Nat : /\ HotTokens(x, opt) = Smaller(x, size)
                    /\ WarmTokens(x, opt) = Smaller(beyond(x), most)
                    /\ ColdTokens(x, opt) = NotNegative(x - HotTokens(x, opt) - WarmTokens(x, opt))
  BY DEF HotTokens, WarmTokens, ColdTokens
<1> HIDE DEF size, most
<1>4. \A x \in Nat : /\ HotTokens(x, opt) \in Nat /\ HotTokens(x, opt) = IF x < size THEN x ELSE size
                    /\ beyond(x) \in Nat /\ beyond(x) = IF x < size THEN 0 ELSE x - size
  BY <1>2, <1>3 DEF Smaller, NotNegative
<1> HIDE DEF beyond
<1>5. \A x \in Nat : /\ WarmTokens(x, opt) \in Nat
                    /\ WarmTokens(x, opt) = IF beyond(x) < most THEN beyond(x) ELSE most
  BY <1>2, <1>3, <1>4 DEF Smaller
<1>6. \A x \in Nat : /\ ColdTokens(x, opt) \in Nat
                    /\ ColdTokens(x, opt) = IF beyond(x) < most THEN 0 ELSE beyond(x) - most
  <2> SUFFICES ASSUME NEW x \in Nat
               PROVE  /\ ColdTokens(x, opt) \in Nat
                      /\ ColdTokens(x, opt) = IF beyond(x) < most THEN 0 ELSE beyond(x) - most
    OBVIOUS
  <2>1. x - HotTokens(x, opt) = beyond(x)
    BY <1>2, <1>4
  <2>2. ColdTokens(x, opt) = NotNegative(beyond(x) - WarmTokens(x, opt))
    BY <1>3, <2>1
  <2> QED BY <2>2, <1>2, <1>4, <1>5 DEF NotNegative
<1>7. HotTokens(m, opt) <= HotTokens(n, opt) /\ beyond(m) <= beyond(n)
  BY <1>2, <1>4
<1>8. WarmTokens(m, opt) <= WarmTokens(n, opt) /\ ColdTokens(m, opt) <= ColdTokens(n, opt)
  BY <1>2, <1>4, <1>5, <1>6, <1>7, SMTT(30)
<1> QED BY <1>4, <1>5, <1>6, <1>7, <1>8

LedgerBits(ledger) ==
    {ledger.tiers.hot.bits_per_token, ledger.tiers.warm.bits_per_token, ledger.tiers.cold.bits_per_token}

(* What Account's record holds.                                               *)
LEMMA AccountBytes ==
    ASSUME NEW opt \in TierOptions, NEW n \in Nat, NEW ledger
    PROVE  LET account == Account(ledger, opt, n)
           IN  /\ account.hot_bytes = RoundedBytes(HotTokens(n, opt) * ledger.tiers.hot.bits_per_token)
               /\ account.warm_bytes = RoundedBytes(WarmTokens(n, opt) * ledger.tiers.warm.bits_per_token)
               /\ account.cold_bytes = RoundedBytes(ColdTokens(n, opt) * ledger.tiers.cold.bits_per_token)
               /\ account.tier_bytes = account.hot_bytes + account.warm_bytes + account.cold_bytes
               /\ account.full_bytes = RoundedBytes(n * ledger.full_bits)
<1> DEFINE account == Account(ledger, opt, n)
<1>1. TokensOf(account) = <<HotTokens(n, opt), WarmTokens(n, opt), ColdTokens(n, opt)>>
  BY TiersTheorem
<1>2. /\ account.hot_tokens = HotTokens(n, opt) /\ account.warm_tokens = WarmTokens(n, opt)
      /\ account.cold_tokens = ColdTokens(n, opt)
  BY <1>1 DEF TokensOf
<1>3. /\ account.hot_bytes = RoundedBytes(account.hot_tokens * ledger.tiers.hot.bits_per_token)
      /\ account.warm_bytes = RoundedBytes(account.warm_tokens * ledger.tiers.warm.bits_per_token)
      /\ account.cold_bytes = RoundedBytes(account.cold_tokens * ledger.tiers.cold.bits_per_token)
      /\ account.tier_bytes = account.hot_bytes + account.warm_bytes + account.cold_bytes
      /\ account.full_bytes = RoundedBytes(n * ledger.full_bits)
  BY DEF Account
<1> QED BY <1>2, <1>3

(* A longer context never needs fewer bytes: the total that                   *)
(* sage_kv_runtime_ledger.py accounts for the tiers does not decrease as a    *)
(* live trace goes on, so the last step of a trace is its largest.            *)
THEOREM GrowsTheorem ==
    ASSUME NEW opt \in TierOptions, NEW m \in Nat, NEW n \in Nat, m <= n,
           NEW ledger, LedgerBits(ledger) \subseteq Nat
    PROVE  Account(ledger, opt, m).tier_bytes <= Account(ledger, opt, n).tier_bytes
<1> DEFINE hot == ledger.tiers.hot.bits_per_token
           warm == ledger.tiers.warm.bits_per_token
           cold == ledger.tiers.cold.bits_per_token
<1>1. hot \in Nat /\ warm \in Nat /\ cold \in Nat
  BY DEF LedgerBits
<1>2. ASSUME NEW a \in Nat, NEW b \in Nat, NEW k \in Nat, a <= b
      PROVE  /\ RoundedBytes(a * k) \in Nat /\ RoundedBytes(b * k) \in Nat
             /\ RoundedBytes(a * k) <= RoundedBytes(b * k)
  <2>1. a * k \in Nat /\ b * k \in Nat /\ a * k <= b * k
    BY <1>2, ProductGrows
  <2>2. \A x \in Nat : RoundedBytes(x) \in Nat
    BY DEF RoundedBytes
  <2> QED BY <2>1, <2>2, RoundedGrows
<1> HIDE DEF hot, warm, cold
<1> DEFINE HotBytes(x)  == RoundedBytes(HotTokens(x, opt) * hot)
           WarmBytes(x) == RoundedBytes(WarmTokens(x, opt) * warm)
           ColdBytes(x) == RoundedBytes(ColdTokens(x, opt) * cold)
<1>3. HotBytes(m) \in Nat /\ HotBytes(n) \in Nat /\ HotBytes(m) <= HotBytes(n)
  BY <1>1, <1>2, TiersGrow
<1>4. WarmBytes(m) \in Nat /\ WarmBytes(n) \in Nat /\ WarmBytes(m) <= WarmBytes(n)
  BY <1>1, <1>2, TiersGrow
<1>5. ColdBytes(m) \in Nat /\ ColdBytes(n) \in Nat /\ ColdBytes(m) <= ColdBytes(n)
  BY <1>1, <1>2, TiersGrow
<1>6. \A x \in {m, n} : Account(ledger, opt, x).tier_bytes = HotBytes(x) + WarmBytes(x) + ColdBytes(x)
  BY AccountBytes DEF hot, warm, cold
<1> HIDE DEF HotBytes, WarmBytes, ColdBytes
<1> QED BY <1>3, <1>4, <1>5, <1>6

(* The sizes of a model whose keys and values are k numbers to a token: 16    *)
(* bits each in full, opt.warm_bits each in the warm tier.                    *)
LedgerFor(ledger, opt, k) ==
    /\ ledger.full_bits = 16 * k /\ ledger.tiers.hot.bits_per_token = 16 * k
    /\ ledger.tiers.warm.bits_per_token = k * opt.warm_bits
    /\ ledger.tiers.cold.bits_per_token = opt.cold_dim * opt.cold_bits

(* The estimate of llama-sage-dual-live (patch 0014) against the account of   *)
(* the scripts, for a model both take the same sizes from: full and hot bytes *)
(* are equal, and warm and cold bytes are equal or one more in the C++        *)
(* program, which rounds halves up where Python rounds them to even.  The     *)
(* C++ product of tokens, bits and width is divided by 16 without a rest.     *)
THEOREM BytesTheorem ==
    ASSUME NEW opt \in TierOptions, NEW n \in Nat, NEW k \in Nat, NEW ledger, LedgerFor(ledger, opt, k)
    PROVE  LET plan == Account(ledger, opt, n)
               cpp  == CppAccount(n, 16 * k, opt)
           IN  /\ cpp.full_bytes = plan.full_bytes /\ cpp.hot_bytes = plan.hot_bytes
               /\ cpp.warm_bytes - plan.warm_bytes \in {0, 1}
               /\ cpp.cold_bytes - plan.cold_bytes \in {0, 1}
<1> DEFINE plan == Account(ledger, opt, n)
           cpp  == CppAccount(n, 16 * k, opt)
           hot == HotTokens(n, opt)  warm == WarmTokens(n, opt)  cold == ColdTokens(n, opt)
<1>1. hot \in Nat /\ warm \in Nat /\ cold \in Nat
  BY TiersGrow
<1>2. opt.warm_bits \in Nat \ {0} /\ opt.cold_dim \in Nat /\ opt.cold_bits \in Nat \ {0}
  BY DEF TierOptions
<1>3. /\ AtLeastOne(opt.warm_bits) = opt.warm_bits /\ AtLeastOne(opt.cold_bits) = opt.cold_bits
      /\ NotNegative(opt.cold_dim) = opt.cold_dim /\ NotNegative(n) = n
  BY <1>2 DEF AtLeastOne, NotNegative
<1>4. cpp.hot_tokens = hot /\ cpp.warm_tokens = warm /\ cpp.cold_tokens = cold
  BY TiersTheorem DEF TokensOf
<1> HIDE DEF hot, warm, cold
<1>5. /\ cpp.hot_bytes = CppRoundedBytes(cpp.hot_tokens * (16 * k))
      /\ cpp.warm_bytes = CppRoundedBytes((cpp.warm_tokens * (16 * k) * opt.warm_bits) \div 16)
      /\ cpp.cold_bytes = CppRoundedBytes(cpp.cold_tokens * opt.cold_dim * opt.cold_bits)
      /\ cpp.full_bytes = CppRoundedBytes(n * (16 * k))
  BY <1>3 DEF CppAccount
<1>6. /\ plan.hot_bytes = RoundedBytes(hot * (16 * k))
      /\ plan.warm_bytes = RoundedBytes(warm * (k * opt.warm_bits))
      /\ plan.cold_bytes = RoundedBytes(cold * (opt.cold_dim * opt.cold_bits))
      /\ plan.full_bytes = RoundedBytes(n * (16 * k))
  <2>1. /\ plan.hot_bytes = RoundedBytes(hot * ledger.tiers.hot.bits_per_token)
        /\ plan.warm_bytes = RoundedBytes(warm * ledger.tiers.warm.bits_per_token)
        /\ plan.cold_bytes = RoundedBytes(cold * ledger.tiers.cold.bits_per_token)
        /\ plan.full_bytes = RoundedBytes(n * ledger.full_bits)
    BY AccountBytes, SMTT(30) DEF hot, warm, cold
  <2> HIDE DEF plan
  <2> QED BY <2>1 DEF LedgerFor
<1>7. \A x \in Nat : x * (16 * k) \in Nat /\ (x * (16 * k)) % 8 = 0
  <2> SUFFICES ASSUME NEW x \in Nat PROVE x * (16 * k) \in Nat /\ (x * (16 * k)) % 8 = 0
    OBVIOUS
  <2>1. x * k \in Nat /\ x * (16 * k) = 16 * (x * k)
    OBVIOUS
  <2>2. \A y \in Nat : (16 * y) % 8 = 0
    OBVIOUS
  <2> QED BY <2>1, <2>2
<1>8. \A b \in Nat : warm * (k * b) \in Nat /\ (warm * (16 * k) * b) \div 16 = warm * (k * b)
  <2> SUFFICES ASSUME NEW b \in Nat
               PROVE  warm * (k * b) \in Nat /\ (warm * (16 * k) * b) \div 16 = warm * (k * b)
    OBVIOUS
  <2>1. k * b \in Nat
    OBVIOUS
  <2>2. warm * (k * b) \in Nat
    BY <1>1, <2>1
  <2>3. warm * (16 * k) * b = 16 * (warm * (k * b))
    BY <1>1
  <2>4. \A y \in Nat : (16 * y) \div 16 = y
    OBVIOUS
  <2> QED BY <2>2, <2>3, <2>4
<1>9. \A a \in Nat, b \in Nat : cold * (a * b) \in Nat /\ cold * a * b = cold * (a * b)
  <2> SUFFICES ASSUME NEW a \in Nat, NEW b \in Nat
               PROVE  cold * (a * b) \in Nat /\ cold * a * b = cold * (a * b)
    OBVIOUS
  <2>1. a * b \in Nat
    OBVIOUS
  <2> QED BY <1>1, <2>1
<1>10. cpp.full_bytes = plan.full_bytes /\ cpp.hot_bytes = plan.hot_bytes
  BY <1>1, <1>4, <1>5, <1>6, <1>7, RoundedTwice
<1>11. cpp.warm_bytes - plan.warm_bytes \in {0, 1}
  BY <1>2, <1>4, <1>5, <1>6, <1>8, RoundedTwice
<1>12. cpp.cold_bytes - plan.cold_bytes \in {0, 1}
  BY <1>2, <1>4, <1>5, <1>6, <1>9, RoundedTwice
<1> QED BY <1>10, <1>11, <1>12

-----------------------------------------------------------------------------
(* The packing of the warm tier: the four lanes of a byte.                    *)
LEMMA Lanes ==
    ASSUME NEW a \in 0 .. 3, NEW b \in 0 .. 3, NEW c \in 0 .. 3, NEW d \in 0 .. 3
    PROVE  LET byte == a + 4 * b + 16 * c + 64 * d
           IN  /\ byte \in 0 .. 255
               /\ (byte \div 4^0) % 4 = a /\ (byte \div 4^1) % 4 = b
               /\ (byte \div 4^2) % 4 = c /\ (byte \div 4^3) % 4 = d
<1> DEFINE byte == a + 4 * b + 16 * c + 64 * d
<1>1. 4^0 = 1 /\ 4^1 = 4 /\ 4^2 = 16 /\ 4^3 = 64
  OBVIOUS
<1>2. byte \in 0 .. 255
  OBVIOUS
<1>3. (byte \div 1) % 4 = a /\ (byte \div 4) % 4 = b /\ (byte \div 16) % 4 = c /\ (byte \div 64) % 4 = d
  OBVIOUS
<1> QED BY <1>1, <1>2, <1>3

(* Enough blocks of threads for n of them.                                    *)
LEMMA GridCovers ==
    ASSUME NEW n \in Nat, NEW block \in Nat, block > 0
    PROVE  GridFor(n, block) * block >= n /\ GridFor(n, block) * block \in Int
<1> DEFINE x == n + block - 1
           q == x \div block
           r == x % block
           p == block * q
<1>1. x \in Nat
  OBVIOUS
<1>2. q \in Int /\ x = p + r /\ r < block
  BY <1>1, Division
<1>3. r \in Int /\ p \in Int /\ p = q * block
  BY <1>1, <1>2
<1>4. q = GridFor(n, block)
  BY DEF GridFor
<1> HIDE DEF p, q, r
<1>5. p >= n
  BY <1>2, <1>3
<1> QED BY <1>3, <1>4, <1>5

(* A packed byte is a byte, and its lanes are the codes it was packed from.   *)
PackedSize(codes) == PackedBytes(Len(codes))

LEMMA PackedTyped ==
    ASSUME NEW codes \in Seq(0 .. 3)
    PROVE  LET packed == Pack(codes).packed
           IN  /\ Len(codes) \in Nat /\ PackedSize(codes) \in Nat
               /\ DOMAIN packed = 1 .. PackedSize(codes) /\ Len(packed) = PackedSize(codes)
               /\ Len(codes) <= 4 * PackedSize(codes)
               /\ \A j \in 1 .. PackedSize(codes) : packed[j] \in 0 .. 255
               /\ \A i \in 1 .. Len(codes) : (packed[((i - 1) \div 4) + 1] \div 4^((i - 1) % 4)) % 4 = codes[i]
<1> DEFINE packed == Pack(codes).packed
           n == Len(codes)
           lane(j, k) == IF 4 * (j - 1) + k <= n THEN codes[4 * (j - 1) + k] ELSE 0
           byte(j) == lane(j, 1) + 4 * lane(j, 2) + 16 * lane(j, 3) + 64 * lane(j, 4)
<1>1. n \in Nat /\ \A i \in 1 .. n : codes[i] \in 0 .. 3
  BY LenProperties, ElementOfSeq
<1>2. PackedSize(codes) \in Nat /\ n <= 4 * PackedSize(codes)
  BY <1>1 DEF PackedSize, PackedBytes
<1>3. packed = [j \in 1 .. PackedSize(codes) |-> byte(j)]
  BY DEF Pack, PackedSize
<1> HIDE DEF packed, n
<1>4. \A j \in 1 .. PackedSize(codes), k \in 1 .. 4 : lane(j, k) \in 0 .. 3
  BY <1>1, <1>2
<1> HIDE DEF lane
<1>5. ASSUME NEW j \in 1 .. PackedSize(codes)
      PROVE  /\ packed[j] = byte(j) /\ packed[j] \in 0 .. 255
             /\ (packed[j] \div 4^0) % 4 = lane(j, 1) /\ (packed[j] \div 4^1) % 4 = lane(j, 2)
             /\ (packed[j] \div 4^2) % 4 = lane(j, 3) /\ (packed[j] \div 4^3) % 4 = lane(j, 4)
  <2>1. packed[j] = byte(j)
    BY <1>3
  <2>2. lane(j, 1) \in 0 .. 3 /\ lane(j, 2) \in 0 .. 3 /\ lane(j, 3) \in 0 .. 3 /\ lane(j, 4) \in 0 .. 3
    BY <1>4
  <2> DEFINE a == lane(j, 1)  b == lane(j, 2)  c == lane(j, 3)  d == lane(j, 4)
  <2>3. byte(j) = a + 4 * b + 16 * c + 64 * d
    OBVIOUS
  <2> HIDE DEF a, b, c, d, byte
  <2>4. a \in 0 .. 3 /\ b \in 0 .. 3 /\ c \in 0 .. 3 /\ d \in 0 .. 3
    BY <2>2 DEF a, b, c, d
  <2>5. /\ byte(j) \in 0 .. 255
        /\ (byte(j) \div 4^0) % 4 = a /\ (byte(j) \div 4^1) % 4 = b
        /\ (byte(j) \div 4^2) % 4 = c /\ (byte(j) \div 4^3) % 4 = d
    BY <2>3, <2>4, Lanes, SMTT(30)
  <2> QED BY <2>1, <2>5 DEF a, b, c, d, byte
<1>6. ASSUME NEW i \in 1 .. n
      PROVE  (packed[((i - 1) \div 4) + 1] \div 4^((i - 1) % 4)) % 4 = codes[i]
  <2> DEFINE j == ((i - 1) \div 4) + 1
             k == (i - 1) % 4
  <2>1. j \in 1 .. PackedSize(codes) /\ k \in 0 .. 3 /\ 4 * (j - 1) + (k + 1) = i
    <3>1. i - 1 \in Nat /\ i <= 4 * PackedSize(codes)
      BY <1>1, <1>2
    <3>2. (i - 1) \div 4 \in Nat /\ k \in 0 .. 3 /\ i - 1 = 4 * ((i - 1) \div 4) + k
      BY <3>1
    <3> QED BY <3>1, <3>2, <1>1, <1>2
  <2> HIDE DEF j, k
  <2>2. lane(j, k + 1) = codes[i]
    BY <2>1, <1>1 DEF lane
  <2>3. (packed[j] \div 4^k) % 4 = lane(j, k + 1)
    <3>1. k = 0 \/ k = 1 \/ k = 2 \/ k = 3
      BY <2>1
    <3>2. CASE k = 0
      BY <2>1, <1>5, <3>2
    <3>3. CASE k = 1
      BY <2>1, <1>5, <3>3
    <3>4. CASE k = 2
      BY <2>1, <1>5, <3>4
    <3>5. CASE k = 3
      BY <2>1, <1>5, <3>5
    <3> QED BY <3>1, <3>2, <3>3, <3>4, <3>5
  <2> QED BY <2>2, <2>3 DEF j, k
<1>7. DOMAIN packed = 1 .. PackedSize(codes) /\ Len(packed) = PackedSize(codes)
  <2> DEFINE size == PackedSize(codes)  Byte == 0 .. 255
  <2>1. packed \in [1 .. size -> Byte] /\ size \in Nat
    BY <1>2, <1>3, <1>5
  <2> HIDE DEF size, Byte
  <2>2. packed \in Seq(Byte) /\ DOMAIN packed = 1 .. size
    BY <2>1, SeqDef
  <2>3. Len(packed) = size
    BY <2>1, <2>2, LenProperties
  <2> QED BY <2>2, <2>3 DEF size
<1> QED BY <1>1, <1>2, <1>5, <1>6, <1>7 DEF packed, n

(* Packing loses nothing: what pack_2bit_from_fp16_bytes() of                 *)
(* sage_kv_tier_smoke.py writes is bytes, and for any number of codes, also   *)
(* one that does not fill the last byte, unpack_2bit_codes() and the CUDA     *)
(* kernel, for every block size, read the codes back.                         *)
THEOREM PackingTheorem ==
    ASSUME NEW codes \in Seq(0 .. 3), NEW block \in Nat, block > 0
    PROVE  LET packed == Pack(codes).packed
           IN  /\ \A j \in DOMAIN packed : packed[j] \in 0 .. 255
               /\ Unpack(packed, Len(codes)).codes = codes
               /\ KernelUnpack(packed, Len(codes), GridFor(Len(codes), block), block) = codes
<1> DEFINE packed == Pack(codes).packed
           n == Len(codes)
           size == PackedSize(codes)
           code(i) == (packed[((i - 1) \div 4) + 1] \div 4^((i - 1) % 4)) % 4
<1>1. /\ n \in Nat /\ size \in Nat /\ DOMAIN packed = 1 .. size /\ Len(packed) = size /\ n <= 4 * size
      /\ \A j \in 1 .. size : packed[j] \in 0 .. 255
      /\ \A i \in 1 .. n : code(i) = codes[i]
  BY PackedTyped
<1>2. codes = [i \in 1 .. n |-> codes[i]]
  BY LenProperties
<1> HIDE DEF packed, n, size
<1>3. Smaller(n, 4 * Len(packed)) = n
  BY <1>1 DEF Smaller
<1>4. Unpack(packed, n).codes = [i \in 1 .. n |-> IF i <= n THEN code(i) ELSE 0]
  BY <1>3 DEF Unpack
<1>5. Unpack(packed, n).codes = codes
  BY <1>1, <1>2, <1>4
<1>6. Smaller(GridFor(n, block) * block, n) = n
  BY <1>1, GridCovers DEF Smaller
<1>7. KernelUnpack(packed, n, GridFor(n, block), block) = [i \in 1 .. n |-> code(i)]
  BY <1>6 DEF KernelUnpack
<1>8. KernelUnpack(packed, n, GridFor(n, block), block) = codes
  BY <1>1, <1>2, <1>7
<1> QED BY <1>1, <1>5, <1>8 DEF packed, n

-----------------------------------------------------------------------------
(* The shapes of a model: what a tensor's dimension is, is positive.          *)
KvTensor == [role : {"embedding", "query", "key", "value"}, layer : Nat, shape : Seq(Nat \ {0}) \ {<<>>}]
Shape    == {s \in [layer : Nat, k_dim : Nat, v_dim : Nat] : s.k_dim > 0 \/ s.v_dim > 0}

LEMMA DimensionPositive ==
    ASSUME NEW shape \in Seq(Nat \ {0}) \ {<<>>}, NEW hidden
    PROVE  TensorKvDim(shape, hidden) \in Nat \ {0}
<1> DEFINE n == Len(shape)
           others == ToSet(shape) \ {hidden}
<1>1. n \in Nat /\ n > 0 /\ DOMAIN shape = 1 .. n /\ \A i \in 1 .. n : shape[i] \in Nat \ {0}
  BY LenProperties, EmptySeq
<1>2. ToSet(shape) = {shape[i] : i \in 1 .. n}
  BY <1>1 DEF ToSet
<1>3. IsFiniteSet(ToSet(shape)) /\ ToSet(shape) \subseteq Nat \ {0}
  <2>1. IsFiniteSet(1 .. n)
    BY <1>1, FS_Interval
  <2>2. ExistsSurjection(1 .. n, ToSet(shape))
    <3>1. [i \in 1 .. n |-> shape[i]] \in Surjection(1 .. n, ToSet(shape))
      BY <1>2 DEF Surjection
    <3> QED BY <3>1 DEF ExistsSurjection
  <2> QED BY <1>1, <1>2, <2>2, FS_NatSurjection
<1>4. others # {} => Max(others) \in Nat \ {0}
  <2>1. IsFiniteSet(others) /\ others \subseteq Int
    BY <1>3, FS_Subset
  <2>2. others # {} => Max(others) \in others
    <3> HIDE DEF others
    <3> QED BY <2>1, LargestElement
  <2> QED BY <1>3, <2>2
<1>5. Last(shape) \in Nat \ {0} /\ shape[1] \in Nat \ {0}
  BY <1>1 DEF Last
<1> HIDE DEF others
<1>6. TensorKvDim(shape, hidden) = IF n = 1 THEN shape[1] ELSE IF others # {} THEN Max(others) ELSE Last(shape)
  BY <1>1 DEF TensorKvDim, others
<1> QED BY <1>4, <1>5, <1>6

\* The tensors of a role, and their layers.
OfRole(tensors, role) == {i \in DOMAIN tensors : tensors[i].role = role}
LayersOf(tensors, role) == {tensors[i].layer : i \in OfRole(tensors, role)}

(* The tensors of a role are finitely many, and so are their layers.          *)
LEMMA RoleIsFinite ==
    ASSUME NEW tensors \in Seq(KvTensor), NEW role
    PROVE  /\ IsFiniteSet(OfRole(tensors, role)) /\ OfRole(tensors, role) \subseteq Nat
           /\ IsFiniteSet(LayersOf(tensors, role)) /\ LayersOf(tensors, role) \subseteq Nat
           /\ \A i \in OfRole(tensors, role) : tensors[i] \in KvTensor
<1> DEFINE I == OfRole(tensors, role)
           L == LayersOf(tensors, role)
<1>1. Len(tensors) \in Nat /\ DOMAIN tensors = 1 .. Len(tensors) /\ \A i \in DOMAIN tensors : tensors[i] \in KvTensor
  BY LenProperties
<1>2. I \in SUBSET (1 .. Len(tensors)) /\ \A i \in I : tensors[i] \in KvTensor
  BY <1>1 DEF OfRole
<1>3. IsFiniteSet(I) /\ I \subseteq Nat
  <2>1. IsFiniteSet(1 .. Len(tensors))
    BY <1>1, FS_Interval
  <2> HIDE DEF I
  <2>2. IsFiniteSet(I)
    BY <1>2, <2>1, FS_Subset
  <2> QED BY <1>2, <2>2
<1>4. [i \in I |-> tensors[i].layer] \in Surjection(I, L)
  BY DEF Surjection, LayersOf
<1>5. IsFiniteSet(L)
  BY <1>3, <1>4, FS_Surjection
<1>6. L \subseteq Nat
  <2>1. \A i \in I : tensors[i].layer \in Nat
    BY <1>2 DEF KvTensor
  <2> QED BY <2>1 DEF LayersOf
<1> QED BY <1>2, <1>3, <1>5, <1>6

(* kv_dim_from_tensor(): the width found for a layer is a positive number.    *)
LEMMA DimsTyped ==
    ASSUME NEW tensors \in Seq(KvTensor), NEW role, NEW hidden
    PROVE  KvDims(tensors, role, hidden) \in [LayersOf(tensors, role) -> Nat \ {0}]
<1> DEFINE I == OfRole(tensors, role)
           L == LayersOf(tensors, role)
           at(l) == {i \in I : tensors[i].layer = l}
           dim(l) == TensorKvDim(tensors[Max(at(l))].shape, hidden)
<1>1. KvDims(tensors, role, hidden) = [l \in L |-> dim(l)]
  BY DEF KvDims, OfRole, LayersOf
<1>2. ASSUME NEW l \in L PROVE dim(l) \in Nat \ {0}
  <2>1. at(l) # {} /\ at(l) \in SUBSET I
    BY DEF LayersOf
  <2>2. IsFiniteSet(at(l)) /\ at(l) \subseteq Int
    <3> HIDE DEF at
    <3> QED BY <2>1, RoleIsFinite, FS_Subset
  <2>3. Max(at(l)) \in at(l)
    <3> HIDE DEF at
    <3> QED BY <2>1, <2>2, LargestElement
  <2>4. tensors[Max(at(l))] \in KvTensor
    <3> HIDE DEF at
    <3> QED BY <2>1, <2>3, RoleIsFinite
  <2>5. tensors[Max(at(l))].shape \in Seq(Nat \ {0}) \ {<<>>}
    BY <2>4 DEF KvTensor
  <2> QED BY <2>5, DimensionPositive
<1> HIDE DEF dim
<1> QED BY <1>1, <1>2

(* Every layer with a key has a shape, and every width in it is positive.     *)
LEMMA ShapesTyped ==
    ASSUME NEW K, NEW V, IsFiniteSet(K), IsFiniteSet(V), K \subseteq Nat, V \subseteq Nat,
           NEW keys \in [K -> Nat \ {0}], NEW values \in [V -> Nat \ {0}]
    PROVE  /\ ShapesOf(keys, values) \in Seq(Shape)
           /\ K # {} => Len(ShapesOf(keys, values)) > 0
<1> DEFINE L == DOMAIN keys \cup DOMAIN values
           key(layer) == IF layer \in DOMAIN keys THEN keys[layer] ELSE 0
           shape(layer) == [layer |-> layer, k_dim |-> key(layer),
                            v_dim |-> IF layer \in DOMAIN values THEN values[layer] ELSE key(layer)]
           S == {s \in {shape(l) : l \in L} : s.k_dim > 0 \/ s.v_dim > 0}
           n == Cardinality(S)
           at(x) == Cardinality({y \in S : y.layer < x.layer})
           pick(k) == CHOOSE x \in S : at(x) = k - 1
           index == [x \in S |-> x.layer]
<1>1. \A l \in L : key(l) \in Nat /\ shape(l) \in [layer : Nat, k_dim : Nat, v_dim : Nat]
                   /\ shape(l).layer = l /\ (shape(l).k_dim > 0 \/ shape(l).v_dim > 0)
  OBVIOUS
<1>2. S = {shape(l) : l \in L}
  <2> HIDE DEF shape
  <2> QED BY <1>1
<1>3. IsFiniteSet(S)
  <2>1. IsFiniteSet(L)
    BY FS_Union
  <2>2. [l \in L |-> shape(l)] \in Surjection(L, S)
    <3> HIDE DEF shape, L, S
    <3> QED BY <1>2 DEF Surjection
  <2> HIDE DEF L, S
  <2> QED BY <2>1, <2>2, FS_Surjection
<1>4. S \subseteq Shape
  <2> HIDE DEF shape, L
  <2> QED BY <1>1 DEF Shape
<1>5. K # {} => S # {}
  <2>1. DOMAIN keys = K /\ K \subseteq L
    OBVIOUS
  <2> HIDE DEF shape, S, L
  <2> QED BY <1>2, <2>1, ZenonT(60)
<1>6. index \in [S -> Int] /\ \A x \in S, y \in S : index[x] = index[y] => x = y
  <2> HIDE DEF shape, L
  <2>1. \A x \in S : \E l \in L : x = shape(l) /\ x.layer = l /\ l \in Nat
    BY <1>1, <1>2 DEF L
  <2> HIDE DEF S
  <2> QED BY <2>1
<1>7. ShapesOf(keys, values) = [k \in 1 .. n |-> pick(k)]
  BY Zenon DEF ShapesOf, InOrder
<1> HIDE DEF S
<1>8. \A x \in S : at(x) = Place(index, S, x)
  <2> SUFFICES ASSUME NEW x \in S PROVE {y \in S : y.layer < x.layer} = {y \in S : index[y] < index[x]}
    BY DEF Place
  <2> QED OBVIOUS
<1>9. \A k \in 1 .. n : \E x \in S : at(x) = k - 1
  <2> HIDE DEF at, index
  <2>1. \A k \in 1 .. n : \E x \in S : Place(index, S, x) = k - 1
    BY <1>3, <1>6, KeysGivePlaces
  <2> QED BY <1>8, <2>1
<1> HIDE DEF at
<1>10. \A k \in 1 .. n : pick(k) \in S
  BY <1>9, Zenon
<1>11. n \in Nat /\ (n = 0 <=> S = {})
  BY <1>3, FS_CardinalityType, FS_EmptySet
<1> HIDE DEF pick, n
<1>12. ShapesOf(keys, values) \in [1 .. n -> Shape]
  BY <1>4, <1>7, <1>10
<1>13. ShapesOf(keys, values) \in Seq(Shape) /\ Len(ShapesOf(keys, values)) = n
  <2>1. DOMAIN ShapesOf(keys, values) = 1 .. n /\ ShapesOf(keys, values) \in Seq(Shape)
    BY <1>11, <1>12, SeqDef
  <2> QED BY <1>11, <2>1, LenProperties
<1> QED BY <1>5, <1>11, <1>13

(* infer_layer_kv_shapes() of sage_kv_ledger.py: a model that has a tensor of *)
(* keys gets a shape for each layer, none without a dimension.                *)
LEMMA KvShapesTyped ==
    ASSUME NEW tensors \in Seq(KvTensor), OfRole(tensors, "key") # {}
    PROVE  KvShapes(tensors) \in Seq(Shape) /\ Len(KvShapes(tensors)) > 0
<1> DEFINE K == LayersOf(tensors, "key")
           V == LayersOf(tensors, "value")
           keys == KvDims(tensors, "key", HiddenDim(tensors))
           values == KvDims(tensors, "value", HiddenDim(tensors))
<1>1. keys \in [K -> Nat \ {0}] /\ values \in [V -> Nat \ {0}]
  BY DimsTyped
<1>2. IsFiniteSet(K) /\ IsFiniteSet(V) /\ K \subseteq Nat /\ V \subseteq Nat
  BY RoleIsFinite
<1>3. K # {}
  BY DEF LayersOf
<1>4. KvShapes(tensors) = ShapesOf(keys, values)
  BY DEF KvShapes
<1> HIDE DEF keys, values, K, V
<1>5. ShapesOf(keys, values) \in Seq(Shape) /\ (K # {} => Len(ShapesOf(keys, values)) > 0)
  BY <1>1, <1>2, ShapesTyped
<1> QED BY <1>3, <1>4, <1>5

-----------------------------------------------------------------------------
(* How many numbers a token has in the cache of a model with these shapes,    *)
(* and that its size is so many times the width of a number.                  *)
Numbers(shapes) == SumOver([i \in DOMAIN shapes |-> shapes[i].k_dim + shapes[i].v_dim], DOMAIN shapes)

(* A factor common to all numbers is one of their sum.                        *)
LEMMA SumScaled ==
    ASSUME NEW n \in Nat, NEW b \in Nat, NEW g, NEW h, \A k \in 1 .. n : g[k] \in Nat /\ h[k] = b * g[k]
    PROVE  SumOver(g, 1 .. n) \in Nat /\ SumOver(h, 1 .. n) = b * SumOver(g, 1 .. n)
<1> DEFINE N == {m \in Nat : m <= n => SumOver(g, 1 .. m) \in Nat /\ SumOver(h, 1 .. m) = b * SumOver(g, 1 .. m)}
<1>1. 0 \in N
  <2>1. SumOver(g, {}) = 0 /\ SumOver(h, {}) = 0
    BY FS_EmptySet, SumTyped
  <2>2. 1 .. 0 = {} /\ b * 0 = 0
    OBVIOUS
  <2> QED BY <2>1, <2>2
<1>2. ASSUME NEW m \in Nat, m \in N PROVE m + 1 \in N
  <2> SUFFICES ASSUME m + 1 <= n
               PROVE  SumOver(g, 1 .. m + 1) \in Nat /\ SumOver(h, 1 .. m + 1) = b * SumOver(g, 1 .. m + 1)
    OBVIOUS
  <2>1. SumOver(g, 1 .. m) \in Nat /\ SumOver(h, 1 .. m) = b * SumOver(g, 1 .. m)
    BY <1>2
  <2>2. \A k \in 1 .. m + 1 : g[k] \in Nat /\ h[k] = b * g[k]
    OBVIOUS
  <2>3. \A k \in 1 .. m + 1 : g[k] \in Int /\ h[k] \in Int
    <3>1. \A x \in Nat : b * x \in Int
      OBVIOUS
    <3> QED BY <2>2, <3>1
  <2>4. /\ SumOver(g, 1 .. m + 1) = SumOver(g, 1 .. m) + g[m + 1]
        /\ SumOver(h, 1 .. m + 1) = SumOver(h, 1 .. m) + h[m + 1]
    BY <2>3, SumUpTo
  <2>5. g[m + 1] \in Nat /\ h[m + 1] = b * g[m + 1]
    BY <2>2
  <2> DEFINE x == SumOver(g, 1 .. m)  y == g[m + 1]
  <2> HIDE DEF x, y
  <2>6. x \in Nat /\ y \in Nat /\ b * (x + y) = b * x + b * y
    <3>1. x \in Nat /\ y \in Nat
      BY <2>1, <2>5 DEF x, y
    <3> QED BY <3>1
  <2> QED BY <2>1, <2>4, <2>5, <2>6 DEF x, y
<1>3. \A m \in Nat : m \in N
  <2> HIDE DEF N
  <2> QED BY <1>1, <1>2, AllOfNat
<1> QED BY <1>3

(* The bits of a token are its numbers times the width of a number.           *)
LEMMA BitsAreNumbers ==
    ASSUME NEW shapes \in Seq(Shape), NEW b \in Nat
    PROVE  Numbers(shapes) \in Nat /\ BitsPerToken(shapes, b, b) = b * Numbers(shapes)
<1> DEFINE n == Len(shapes)
           g == [i \in DOMAIN shapes |-> shapes[i].k_dim + shapes[i].v_dim]
           h == [i \in DOMAIN shapes |-> shapes[i].k_dim * b + shapes[i].v_dim * b]
<1>1. n \in Nat /\ DOMAIN shapes = 1 .. n /\ \A i \in 1 .. n : shapes[i].k_dim \in Nat /\ shapes[i].v_dim \in Nat
  <2>1. n \in Nat /\ DOMAIN shapes = 1 .. n /\ \A i \in 1 .. n : shapes[i] \in Shape
    BY LenProperties
  <2> QED BY <2>1 DEF Shape
<1>2. \A i \in 1 .. n : g[i] \in Nat /\ h[i] = b * g[i]
  <2> SUFFICES ASSUME NEW i \in 1 .. n PROVE g[i] \in Nat /\ h[i] = b * g[i]
    OBVIOUS
  <2> DEFINE x == shapes[i].k_dim  y == shapes[i].v_dim
  <2>1. g[i] = x + y /\ h[i] = x * b + y * b /\ x \in Nat /\ y \in Nat
    BY <1>1
  <2> HIDE DEF g, h, x, y
  <2> QED BY <2>1
<1>3. BitsPerToken(shapes, b, b) = SumOver(h, 1 .. n)
  BY <1>1, Zenon DEF BitsPerToken, SumOf
<1>4. Numbers(shapes) = SumOver(g, 1 .. n)
  BY <1>1, Zenon DEF Numbers
<1> HIDE DEF g, h, n
<1>5. SumOver(g, 1 .. n) \in Nat /\ SumOver(h, 1 .. n) = b * SumOver(g, 1 .. n)
  BY <1>1, <1>2, SumScaled
<1> QED BY <1>3, <1>4, <1>5

(* A sum of positive numbers is positive.                                     *)
LEMMA SumPositive ==
    ASSUME NEW n \in Nat \ {0}, NEW g, \A k \in 1 .. n : g[k] \in Nat \ {0}
    PROVE  SumOver(g, 1 .. n) \in Nat \ {0}
<1> DEFINE m == n - 1
<1>1. m \in Nat /\ n = m + 1 /\ 1 \in Nat
  OBVIOUS
<1> HIDE DEF m
<1>2. SumOver(g, 1 .. m) \in Nat
  <2>1. \A k \in 1 .. m : g[k] \in Nat /\ g[k] = 1 * g[k]
    BY <1>1
  <2> QED BY <1>1, <2>1, SumScaled
<1>3. \A k \in 1 .. m + 1 : g[k] \in Int
  BY <1>1
<1>4. SumOver(g, 1 .. m + 1) = SumOver(g, 1 .. m) + g[m + 1]
  BY <1>1, <1>3, SumUpTo
<1>5. g[m + 1] \in Nat \ {0}
  BY <1>1
<1> QED BY <1>1, <1>2, <1>4, <1>5

(* A model with a shape has a number to keep for each token.                  *)
LEMMA NumbersPositive ==
    ASSUME NEW shapes \in Seq(Shape), Len(shapes) > 0
    PROVE  Numbers(shapes) \in Nat \ {0}
<1> DEFINE n == Len(shapes)
           g == [i \in DOMAIN shapes |-> shapes[i].k_dim + shapes[i].v_dim]
<1>1. n \in Nat \ {0} /\ DOMAIN shapes = 1 .. n /\ \A i \in 1 .. n : shapes[i] \in Shape
  BY LenProperties
<1>2. \A i \in 1 .. n : g[i] \in Nat \ {0}
  <2> SUFFICES ASSUME NEW i \in 1 .. n PROVE g[i] \in Nat \ {0}
    OBVIOUS
  <2>1. g[i] = shapes[i].k_dim + shapes[i].v_dim /\ shapes[i] \in Shape
    BY <1>1
  <2> QED BY <2>1 DEF Shape
<1>3. Numbers(shapes) = SumOver(g, 1 .. n)
  BY <1>1, Zenon DEF Numbers
<1> HIDE DEF g, n
<1> QED BY <1>1, <1>2, <1>3, SumPositive

-----------------------------------------------------------------------------
(* The plan of a context: the sizes of its tiers, and how it is split.        *)
LEMMA LedgerIsPlanned ==
    ASSUME NEW shapes \in Seq(Shape), Len(shapes) > 0, NEW context \in Nat, NEW opt \in TierOptions
    PROVE  LET ledger == KvLedger(shapes, context, opt)
           IN  /\ ledger # Failure /\ ledger.context = context
               /\ LedgerFor(ledger, opt, Numbers(shapes))
               /\ ledger.tiers.hot.tokens = HotTokens(context, opt)
               /\ ledger.tiers.warm.tokens = WarmTokens(context, opt)
               /\ ledger.tiers.cold.tokens = ColdTokens(context, opt)
               /\ ledger.tiers.hot.total_bytes = RoundedBytes(HotTokens(context, opt) * ledger.tiers.hot.bits_per_token)
               /\ ledger.tiers.warm.total_bytes = RoundedBytes(WarmTokens(context, opt) * ledger.tiers.warm.bits_per_token)
               /\ ledger.tiers.cold.total_bytes = RoundedBytes(ColdTokens(context, opt) * ledger.tiers.cold.bits_per_token)
               /\ ledger.full_bytes = RoundedBytes(context * ledger.full_bits)
               /\ ledger.tier_bytes = ledger.tiers.hot.total_bytes + ledger.tiers.warm.total_bytes + ledger.tiers.cold.total_bytes
               /\ ledger.saved_bytes = NotNegative(ledger.full_bytes - ledger.tier_bytes)
<1> DEFINE ledger == KvLedger(shapes, context, opt)
           full == BitsPerToken(shapes, 16, 16)
           warm_bits == BitsPerToken(shapes, opt.warm_bits, opt.warm_bits)
           hot  == Tier("hot", HotTokens(context, opt), full)
           warm == Tier("warm", WarmTokens(context, opt), warm_bits)
           cold == Tier("cold", ColdTokens(context, opt), opt.cold_dim * opt.cold_bits)
           tiers == [hot |-> hot, warm |-> warm, cold |-> cold]
           total == hot.total_bytes + warm.total_bytes + cold.total_bytes
           whole == RoundedBytes(context * full)
<1>1. shapes # <<>>
  BY LenProperties, EmptySeq
<1>2. ledger = [status |-> "planned", context |-> context, full_bits |-> full, tiers |-> tiers,
                full_bytes |-> whole, tier_bytes |-> total, saved_bytes |-> NotNegative(whole - total)]
  BY <1>1, Zenon DEF KvLedger
<1>3. full = 16 * Numbers(shapes) /\ warm_bits = Numbers(shapes) * opt.warm_bits
  <2>1. opt.warm_bits \in Nat
    BY DEF TierOptions
  <2>2. Numbers(shapes) \in Nat /\ full = 16 * Numbers(shapes) /\ warm_bits = opt.warm_bits * Numbers(shapes)
    BY <2>1, BitsAreNumbers
  <2> HIDE DEF full, warm_bits
  <2> QED BY <2>1, <2>2
<1> HIDE DEF full, warm_bits, whole
<1>4. /\ hot.tokens = HotTokens(context, opt) /\ hot.bits_per_token = full /\ hot.total_bytes = RoundedBytes(HotTokens(context, opt) * full)
      /\ warm.tokens = WarmTokens(context, opt) /\ warm.bits_per_token = warm_bits
      /\ warm.total_bytes = RoundedBytes(WarmTokens(context, opt) * warm_bits)
      /\ cold.tokens = ColdTokens(context, opt) /\ cold.bits_per_token = opt.cold_dim * opt.cold_bits
      /\ cold.total_bytes = RoundedBytes(ColdTokens(context, opt) * (opt.cold_dim * opt.cold_bits))
  BY DEF Tier
<1> HIDE DEF hot, warm, cold, total, ledger
<1>5. /\ ledger.status = "planned" /\ ledger.context = context /\ ledger.full_bits = full
      /\ ledger.tiers.hot = hot /\ ledger.tiers.warm = warm /\ ledger.tiers.cold = cold
      /\ ledger.full_bytes = whole /\ ledger.tier_bytes = total /\ ledger.saved_bytes = NotNegative(whole - total)
  BY <1>2
<1>6. ledger # Failure
  BY <1>5 DEF Failure
<1>7. LedgerFor(ledger, opt, Numbers(shapes))
  BY <1>3, <1>4, <1>5 DEF LedgerFor
<1> QED BY <1>4, <1>5, <1>6, <1>7 DEF ledger, whole, total

(* The sizes of a ledger are whole numbers.                                   *)
LEMMA LedgerBitsTyped ==
    ASSUME NEW opt \in TierOptions, NEW k \in Nat, NEW ledger, LedgerFor(ledger, opt, k)
    PROVE  LedgerBits(ledger) \subseteq Nat
<1>1. opt.warm_bits \in Nat /\ opt.cold_dim \in Nat /\ opt.cold_bits \in Nat
  BY DEF TierOptions
<1>2. 16 * k \in Nat /\ k * opt.warm_bits \in Nat /\ opt.cold_dim * opt.cold_bits \in Nat
  BY <1>1, Product
<1> QED BY <1>2 DEF LedgerFor, LedgerBits

LEMMA RoundedTyped == \A x \in Nat : RoundedBytes(x) \in Nat
BY DEF RoundedBytes

(* A tier's bytes are whole, and the whole of an account's too.               *)
LEMMA AccountTyped ==
    ASSUME NEW opt \in TierOptions, NEW n \in Nat, NEW k \in Nat, NEW ledger, LedgerFor(ledger, opt, k)
    PROVE  LET account == Account(ledger, opt, n)
           IN  /\ account.hot_bytes \in Nat /\ account.warm_bytes \in Nat /\ account.cold_bytes \in Nat
               /\ account.tier_bytes \in Nat /\ account.full_bytes \in Nat
               /\ account.saved_bytes = NotNegative(account.full_bytes - account.tier_bytes)
               /\ account.hot_tokens = HotTokens(n, opt) /\ account.warm_tokens = WarmTokens(n, opt)
               /\ account.cold_tokens = ColdTokens(n, opt)
<1> DEFINE account == Account(ledger, opt, n)
<1>1. /\ HotTokens(n, opt) \in Nat /\ WarmTokens(n, opt) \in Nat /\ ColdTokens(n, opt) \in Nat
  BY TiersGrow
<1>2. /\ ledger.tiers.hot.bits_per_token \in Nat /\ ledger.tiers.warm.bits_per_token \in Nat
      /\ ledger.tiers.cold.bits_per_token \in Nat /\ ledger.full_bits \in Nat
  <2>1. LedgerBits(ledger) \subseteq Nat
    BY LedgerBitsTyped
  <2>2. ledger.full_bits \in Nat
    BY DEF LedgerFor
  <2> QED BY <2>1, <2>2 DEF LedgerBits
<1>3. /\ account.hot_bytes = RoundedBytes(HotTokens(n, opt) * ledger.tiers.hot.bits_per_token)
      /\ account.warm_bytes = RoundedBytes(WarmTokens(n, opt) * ledger.tiers.warm.bits_per_token)
      /\ account.cold_bytes = RoundedBytes(ColdTokens(n, opt) * ledger.tiers.cold.bits_per_token)
      /\ account.tier_bytes = account.hot_bytes + account.warm_bytes + account.cold_bytes
      /\ account.full_bytes = RoundedBytes(n * ledger.full_bits)
  BY AccountBytes
<1>4. account.saved_bytes = NotNegative(account.full_bytes - account.tier_bytes)
  BY DEF Account
<1>5. TokensOf(account) = <<HotTokens(n, opt), WarmTokens(n, opt), ColdTokens(n, opt)>>
  BY TiersTheorem
<1>6. account.hot_tokens = HotTokens(n, opt) /\ account.warm_tokens = WarmTokens(n, opt)
      /\ account.cold_tokens = ColdTokens(n, opt)
  BY <1>5 DEF TokensOf
<1> HIDE DEF account
<1>7. /\ HotTokens(n, opt) * ledger.tiers.hot.bits_per_token \in Nat
      /\ WarmTokens(n, opt) * ledger.tiers.warm.bits_per_token \in Nat
      /\ ColdTokens(n, opt) * ledger.tiers.cold.bits_per_token \in Nat
      /\ n * ledger.full_bits \in Nat
  BY <1>1, <1>2, Product
<1>8. /\ account.hot_bytes \in Nat /\ account.warm_bytes \in Nat /\ account.cold_bytes \in Nat
      /\ account.full_bytes \in Nat
  BY <1>3, <1>7, RoundedTyped
<1> QED BY <1>3, <1>4, <1>6, <1>8 DEF account

(* The plan of sage_kv_ledger.py and the account of sage_kv_runtime_ledger.py *)
(* for a trace that has come to the end of the context are the same, tier by  *)
(* tier and byte by byte, and the hot tier of both fits its budget or none.   *)
LEMMA AccountHolds ==
    ASSUME NEW shapes \in Seq(Shape), Len(shapes) > 0, NEW i, i.context \in Nat \ {0}, i.opt \in TierOptions
    PROVE  AccountIsThePlan(KvLedger(shapes, i.context, i.opt), i)
<1> DEFINE ledger == KvLedger(shapes, i.context, i.opt)
           of(n) == Account(ledger, i.opt, n)
           at == of(i.context)
           d == Numbers(shapes)
<1>1. i.context \in Nat /\ d \in Nat
  BY BitsAreNumbers, 16 \in Nat
<1>2. LedgerFor(ledger, i.opt, d)
  BY LedgerIsPlanned
<1>3. /\ ledger # Failure
      /\ ledger.tiers.hot.tokens = HotTokens(i.context, i.opt)
      /\ ledger.tiers.warm.tokens = WarmTokens(i.context, i.opt)
      /\ ledger.tiers.cold.tokens = ColdTokens(i.context, i.opt)
  BY LedgerIsPlanned
<1>4. /\ ledger.tiers.hot.total_bytes = RoundedBytes(HotTokens(i.context, i.opt) * ledger.tiers.hot.bits_per_token)
      /\ ledger.tiers.warm.total_bytes = RoundedBytes(WarmTokens(i.context, i.opt) * ledger.tiers.warm.bits_per_token)
      /\ ledger.tiers.cold.total_bytes = RoundedBytes(ColdTokens(i.context, i.opt) * ledger.tiers.cold.bits_per_token)
  BY LedgerIsPlanned
<1>5. /\ ledger.full_bytes = RoundedBytes(i.context * ledger.full_bits)
      /\ ledger.tier_bytes = ledger.tiers.hot.total_bytes + ledger.tiers.warm.total_bytes + ledger.tiers.cold.total_bytes
      /\ ledger.saved_bytes = NotNegative(ledger.full_bytes - ledger.tier_bytes)
  BY LedgerIsPlanned
<1> HIDE DEF ledger, d
<1>6. /\ at.hot_bytes = ledger.tiers.hot.total_bytes
      /\ at.full_bytes = ledger.full_bytes /\ at.tier_bytes = ledger.tier_bytes
  <2>1. /\ at.hot_bytes = RoundedBytes(HotTokens(i.context, i.opt) * ledger.tiers.hot.bits_per_token)
        /\ at.warm_bytes = RoundedBytes(WarmTokens(i.context, i.opt) * ledger.tiers.warm.bits_per_token)
        /\ at.cold_bytes = RoundedBytes(ColdTokens(i.context, i.opt) * ledger.tiers.cold.bits_per_token)
        /\ at.tier_bytes = at.hot_bytes + at.warm_bytes + at.cold_bytes
        /\ at.full_bytes = RoundedBytes(i.context * ledger.full_bits)
    BY <1>1, AccountBytes, ZenonT(60)
  <2> HIDE DEF at
  <2> QED BY <2>1, <1>4, <1>5
<1>7. /\ at.hot_tokens = HotTokens(i.context, i.opt) /\ at.warm_tokens = WarmTokens(i.context, i.opt)
      /\ at.cold_tokens = ColdTokens(i.context, i.opt)
      /\ at.saved_bytes = NotNegative(at.full_bytes - at.tier_bytes)
  BY <1>1, <1>2, AccountTyped
<1>8. HotTokens(i.context, i.opt) + WarmTokens(i.context, i.opt) + ColdTokens(i.context, i.opt) = i.context
  <2> DEFINE plan == <<HotTokens(i.context, i.opt), WarmTokens(i.context, i.opt), ColdTokens(i.context, i.opt)>>
  <2>1. plan[1] + plan[2] + plan[3] = i.context
    BY <1>1, TiersTheorem
  <2> QED BY <2>1
<1>9. KvLedgerPayload(ledger, ledger, i.context, i.opt).hot_fits_budget => at.hot_bytes <= i.opt.hot_budget
  <2>1. /\ ~(i.context <= 0) /\ ~(i.opt.warm_bits <= 0) /\ ~(i.opt.cold_bits <= 0)
    BY DEF TierOptions
  <2> DEFINE payload == KvLedgerPayload(ledger, ledger, i.context, i.opt)
             fits == ledger.tiers.hot.total_bytes <= i.opt.hot_budget
  <2>2. payload = [status |-> "planned", proxy |-> ledger, oracle |-> ledger, hot_fits_budget |-> fits]
    BY <1>3, <2>1, Zenon DEF KvLedgerPayload
  <2> HIDE DEF payload, fits, at
  <2>3. payload.hot_fits_budget = fits
    BY <2>2
  <2>4. payload.hot_fits_budget => ledger.tiers.hot.total_bytes <= i.opt.hot_budget
    BY <2>3 DEF fits
  <2>5. ledger.tiers.hot.total_bytes <= i.opt.hot_budget => at.hot_bytes <= i.opt.hot_budget
    BY <1>6
  <2> QED BY <2>4, <2>5 DEF payload
<1>10. ASSUME NEW n \in 1 .. i.context PROVE of(n).tier_bytes >= of(n - 1).tier_bytes
  <2>1. n \in Nat /\ n - 1 \in Nat /\ n - 1 <= n
    BY <1>1
  <2>2. LedgerBits(ledger) \subseteq Nat
    BY <1>1, <1>2, LedgerBitsTyped
  <2>3. of(n - 1).tier_bytes <= of(n).tier_bytes
    BY <2>1, <2>2, GrowsTheorem
  <2>4. of(n - 1).tier_bytes \in Nat /\ of(n).tier_bytes \in Nat
    BY <1>1, <1>2, <2>1, AccountTyped
  <2> QED BY <2>3, <2>4
<1> HIDE DEF at
<1>11. /\ <<at.hot_tokens, at.warm_tokens, at.cold_tokens>>
             = <<ledger.tiers.hot.tokens, ledger.tiers.warm.tokens, ledger.tiers.cold.tokens>>
       /\ <<at.full_bytes, at.tier_bytes, at.saved_bytes>> = <<ledger.full_bytes, ledger.tier_bytes, ledger.saved_bytes>>
       /\ ledger.tiers.hot.tokens + ledger.tiers.warm.tokens + ledger.tiers.cold.tokens = i.context
  BY <1>3, <1>5, <1>6, <1>7, <1>8
<1> QED BY <1>9, <1>10, <1>11 DEF AccountIsThePlan, at, ledger

(* The account of patch 0014, against that of the scripts, at every step.     *)
LEMMA SchedulerHolds ==
    ASSUME NEW shapes \in Seq(Shape), Len(shapes) > 0, NEW i, i.context \in Nat \ {0}, i.opt \in TierOptions
    PROVE  SchedulerTiersAgree(KvLedger(shapes, i.context, i.opt), i)
<1> DEFINE ledger == KvLedger(shapes, i.context, i.opt)
           d == Numbers(shapes)
<1>1. i.context \in Nat /\ d \in Nat
  BY BitsAreNumbers, 16 \in Nat
<1>2. LedgerFor(ledger, i.opt, d)
  BY LedgerIsPlanned
<1> HIDE DEF ledger, d
<1>3. ASSUME NEW n \in 0 .. i.context
      PROVE  LET cpp == CppAccount(n, ledger.full_bits, i.opt)
                 of_scripts == Account(ledger, i.opt, n)
             IN  /\ \A tokens \in {"hot_tokens", "warm_tokens", "cold_tokens"} : cpp[tokens] = of_scripts[tokens]
                 /\ \A bytes \in {"hot_bytes", "full_bytes"} : cpp[bytes] = of_scripts[bytes]
                 /\ \A bytes \in {"warm_bytes", "cold_bytes"} : cpp[bytes] - of_scripts[bytes] \in {0, 1}
  <2> DEFINE cpp == CppAccount(n, ledger.full_bits, i.opt)
             of_scripts == Account(ledger, i.opt, n)
  <2>1. n \in Nat /\ ledger.full_bits = 16 * d
    BY <1>1, <1>2 DEF LedgerFor
  <2>2. TokensOf(cpp) = TokensOf(of_scripts)
    BY <2>1, TiersTheorem
  <2>3. /\ cpp.full_bytes = of_scripts.full_bytes /\ cpp.hot_bytes = of_scripts.hot_bytes
        /\ cpp.warm_bytes - of_scripts.warm_bytes \in {0, 1}
        /\ cpp.cold_bytes - of_scripts.cold_bytes \in {0, 1}
    BY <1>1, <1>2, <2>1, BytesTheorem
  <2> HIDE DEF cpp, of_scripts
  <2>4. cpp.hot_tokens = of_scripts.hot_tokens /\ cpp.warm_tokens = of_scripts.warm_tokens /\ cpp.cold_tokens = of_scripts.cold_tokens
    BY <2>2 DEF TokensOf
  <2> QED BY <2>3, <2>4 DEF cpp, of_scripts
<1> QED BY <1>3 DEF SchedulerTiersAgree, ledger

\* A trace: its steps, and the sizes that are swept, stay within the context.
TraceStep(context) == [oracle_kv_tokens : 0 .. context, action : {Accept, Fallback}]

(* What make_payload() of sage_kv_runtime_ledger.py finds the largest is the  *)
(* plan of the whole context, for any trace and any sweep within it.          *)
LEMMA TraceHolds ==
    ASSUME NEW shapes \in Seq(Shape), Len(shapes) > 0, NEW context \in Nat \ {0}, NEW opt \in TierOptions,
           opt.include_context_limit = TRUE,
           NEW traced \in Seq(TraceStep(context)), NEW sweep \in Seq(0 .. context)
    PROVE  TraceIsThePlan(RuntimeKvLedger(KvLedger(shapes, context, opt), opt, traced, sweep),
                          KvLedger(shapes, context, opt))
<1> DEFINE ledger == KvLedger(shapes, context, opt)
           d == Numbers(shapes)
           swept == {sweep[k] : k \in DOMAIN sweep}
           S == swept \cup (IF opt.include_context_limit THEN {ledger.context} ELSE {})
           sizes == InOrder(S, <)
           of_steps == [k \in DOMAIN traced |-> Account(ledger, opt, traced[k].oracle_kv_tokens)]
           of_sweep == [k \in DOMAIN sizes |-> Account(ledger, opt, sizes[k])]
           rows == of_steps \o of_sweep
           trace == RuntimeKvLedger(ledger, opt, traced, sweep)
           warm == \E k \in DOMAIN of_sweep : of_sweep[k].warm_tokens > 0
           Accounts == {Account(ledger, opt, n) : n \in 0 .. context}
<1>1. /\ d \in Nat \ {0} /\ context \in Nat /\ opt.warm_bits \in Nat \ {0}
      /\ LedgerFor(ledger, opt, d) /\ ledger.context = context
      /\ ledger.tiers.hot.tokens = HotTokens(context, opt)
      /\ ledger.tiers.warm.tokens = WarmTokens(context, opt)
  <2>1. /\ LedgerFor(ledger, opt, d) /\ ledger.context = context
        /\ ledger.tiers.hot.tokens = HotTokens(context, opt)
        /\ ledger.tiers.warm.tokens = WarmTokens(context, opt)
    BY LedgerIsPlanned
  <2>2. d \in Nat \ {0} /\ opt.warm_bits \in Nat \ {0}
    BY NumbersPositive DEF TierOptions
  <2> QED BY <2>1, <2>2
<1>2. Account(ledger, opt, context).tier_bytes = ledger.tier_bytes
      /\ Account(ledger, opt, context).full_bytes = ledger.full_bytes
  <2> DEFINE i == [context |-> context, opt |-> opt]
  <2>1. i.context = context /\ i.opt = opt
    OBVIOUS
  <2> HIDE DEF i
  <2>2. AccountIsThePlan(KvLedger(shapes, i.context, i.opt), i)
    BY <2>1, AccountHolds
  <2>3. AccountIsThePlan(ledger, i)
    BY <2>1, <2>2
  <2> HIDE DEF ledger
  <2> DEFINE at == Account(ledger, opt, context)
  <2>4. <<at.full_bytes, at.tier_bytes, at.saved_bytes>> = <<ledger.full_bytes, ledger.tier_bytes, ledger.saved_bytes>>
    BY <2>1, <2>3 DEF AccountIsThePlan
  <2> HIDE DEF at
  <2>5. at.full_bytes = ledger.full_bytes /\ at.tier_bytes = ledger.tier_bytes
    BY <2>4
  <2> QED BY <2>5 DEF at
<1> HIDE DEF ledger, d
<1>3. ledger.full_bits \in Nat \ {0} /\ ledger.tiers.warm.bits_per_token \in Nat \ {0}
  <2>1. 16 * d \in Nat \ {0} /\ d * opt.warm_bits \in Nat \ {0}
    BY <1>1, PositiveProduct
  <2> QED BY <1>1, <2>1 DEF LedgerFor
<1>4. ASSUME NEW n \in 0 .. context
      PROVE  LET row == Account(ledger, opt, n)
             IN  /\ row.tier_bytes \in Nat /\ row.tier_bytes <= ledger.tier_bytes
                 /\ row.full_bytes \in Nat /\ row.full_bytes <= ledger.full_bytes
                 /\ row.warm_tokens \in Nat /\ row.warm_tokens <= WarmTokens(context, opt)
  <2> DEFINE row == Account(ledger, opt, n)
             last == Account(ledger, opt, context)
  <2>1. n \in Nat /\ n <= context
    BY <1>1
  <2>2. LedgerBits(ledger) \subseteq Nat
    BY <1>1, LedgerBitsTyped
  <2>3. row.tier_bytes <= last.tier_bytes
    BY <1>1, <2>1, <2>2, GrowsTheorem
  <2>4. row.tier_bytes \in Nat /\ row.full_bytes \in Nat /\ row.warm_tokens = WarmTokens(n, opt)
    BY <1>1, <2>1, AccountTyped
  <2>5. WarmTokens(n, opt) \in Nat /\ WarmTokens(n, opt) <= WarmTokens(context, opt)
    BY <1>1, <2>1, TiersGrow
  <2>6. row.full_bytes <= last.full_bytes
    <3>1. row.full_bytes = RoundedBytes(n * ledger.full_bits) /\ last.full_bytes = RoundedBytes(context * ledger.full_bits)
      <4>1. row.full_bytes = RoundedBytes(n * ledger.full_bits)
        BY <2>1, AccountBytes
      <4>2. last.full_bytes = RoundedBytes(context * ledger.full_bits)
        BY <1>1, AccountBytes
      <4> HIDE DEF row, last
      <4> QED BY <4>1, <4>2
    <3>2. n * ledger.full_bits \in Nat /\ context * ledger.full_bits \in Nat /\ n * ledger.full_bits <= context * ledger.full_bits
      BY <1>1, <1>3, <2>1, ProductGrows
    <3> QED BY <3>1, <3>2, RoundedGrows
  <2> HIDE DEF row, last
  <2>7. last.tier_bytes = ledger.tier_bytes /\ last.full_bytes = ledger.full_bytes
    BY <1>2 DEF last
  <2> QED BY <2>3, <2>4, <2>5, <2>6, <2>7 DEF row
<1>5. /\ IsFiniteSet(S) /\ S \subseteq 0 .. context /\ context \in S
  <2>1. DOMAIN sweep = 1 .. Len(sweep) /\ Len(sweep) \in Nat /\ \A k \in DOMAIN sweep : sweep[k] \in 0 .. context
    BY LenProperties
  <2>2. S = swept \cup {context}
    BY <1>1
  <2>3. IsFiniteSet(swept)
    <3>1. [k \in DOMAIN sweep |-> sweep[k]] \in Surjection(DOMAIN sweep, swept)
      BY DEF Surjection
    <3>2. IsFiniteSet(DOMAIN sweep)
      BY <2>1, FS_Interval
    <3> HIDE DEF swept
    <3> QED BY <3>1, <3>2, FS_Surjection
  <2>4. context \in 0 .. context
    BY <1>1
  <2>5. swept \subseteq 0 .. context
    BY <2>1
  <2> HIDE DEF swept, S
  <2>6. IsFiniteSet(S)
    BY <2>2, <2>3, FS_AddElement
  <2> QED BY <2>2, <2>4, <2>5, <2>6
<1> HIDE DEF S
<1>6. PICK c \in Nat : /\ DOMAIN sizes = 1 .. c /\ \A k \in 1 .. c : sizes[k] \in 0 .. context
                       /\ \E k \in 1 .. c : sizes[k] = context
  <2>1. S \subseteq Int
    BY <1>5
  <2>2. /\ sizes \in [1 .. Cardinality(S) -> S]
        /\ \A x \in S : \E k \in 1 .. Cardinality(S) : sizes[k] = x
    BY <1>5, <2>1, NumbersInOrder
  <2>3. Cardinality(S) \in Nat
    BY <1>5, FS_CardinalityType
  <2> HIDE DEF sizes
  <2> QED BY <1>5, <2>2, <2>3
<1> DEFINE n == Len(traced)
<1>7. n \in Nat /\ DOMAIN traced = 1 .. n /\ \A k \in 1 .. n : traced[k].oracle_kv_tokens \in 0 .. context
  <2>1. n \in Nat /\ DOMAIN traced = 1 .. n /\ \A k \in 1 .. n : traced[k] \in TraceStep(context)
    BY LenProperties
  <2> QED BY <2>1 DEF TraceStep
<1> HIDE DEF sizes, n
<1>8. of_steps \in [1 .. n -> Accounts] /\ of_sweep \in [1 .. c -> Accounts]
  BY <1>6, <1>7
<1>9. of_steps \in Seq(Accounts) /\ of_sweep \in Seq(Accounts) /\ Len(of_steps) = n /\ Len(of_sweep) = c
  <2> HIDE DEF of_steps, of_sweep, Accounts
  <2>1. of_steps \in Seq(Accounts) /\ DOMAIN of_steps = 1 .. n
    BY <1>7, <1>8, SeqDef
  <2>2. of_sweep \in Seq(Accounts) /\ DOMAIN of_sweep = 1 .. c
    BY <1>6, <1>8, SeqDef
  <2> QED BY <1>6, <1>7, <2>1, <2>2, LenProperties
<1>10. /\ Len(rows) = n + c /\ DOMAIN rows = 1 .. n + c /\ n + c \in Nat
       /\ \A k \in 1 .. n + c : rows[k] \in Accounts
       /\ \E k \in 1 .. n + c : rows[k] = Account(ledger, opt, context)
  <2>1. rows \in Seq(Accounts) /\ Len(rows) = n + c /\ \A k \in 1 .. c : rows[n + k] = of_sweep[k]
    <3> HIDE DEF of_steps, of_sweep, Accounts
    <3>1. /\ rows \in Seq(Accounts) /\ Len(rows) = Len(of_steps) + Len(of_sweep)
          /\ \A k \in 1 .. Len(rows) : rows[k] = IF k <= Len(of_steps) THEN of_steps[k] ELSE of_sweep[k - Len(of_steps)]
      BY <1>9, ConcatProperties
    <3> HIDE DEF rows
    <3>2. ASSUME NEW k \in 1 .. c PROVE rows[n + k] = of_sweep[k]
      <4>1. n + k \in 1 .. Len(rows) /\ ~(n + k <= n) /\ n + k - n = k
        BY <1>6, <1>7, <1>9, <3>1
      <4> DEFINE j == n + k
      <4>2. rows[j] = IF j <= Len(of_steps) THEN of_steps[j] ELSE of_sweep[j - Len(of_steps)]
        BY <3>1, <4>1
      <4>3. ~(j <= Len(of_steps)) /\ j - Len(of_steps) = k
        BY <1>9, <4>1
      <4> HIDE DEF j
      <4> QED BY <4>2, <4>3 DEF j
    <3> QED BY <1>9, <3>1, <3>2
  <2>2. PICK k \in 1 .. c : sizes[k] = context
    BY <1>6
  <2>3. of_sweep[k] = Account(ledger, opt, context) /\ n + k \in 1 .. n + c /\ n + c \in Nat
    BY <1>6, <1>7, <2>2
  <2> HIDE DEF rows, of_sweep, Accounts
  <2>4. DOMAIN rows = 1 .. n + c /\ \A j \in 1 .. n + c : rows[j] \in Accounts
    BY <2>1, <2>3, LenProperties
  <2> QED BY <2>1, <2>3, <2>4
<1>11. warm <=> WarmTokens(context, opt) > 0
  <2>1. \A k \in 1 .. c : of_sweep[k] = Account(ledger, opt, sizes[k])
    BY <1>6
  <2>2. PICK k \in 1 .. c : sizes[k] = context
    BY <1>6
  <2>3. DOMAIN of_sweep = 1 .. c
    BY <1>6
  <2>4. Account(ledger, opt, context).warm_tokens = WarmTokens(context, opt) /\ WarmTokens(context, opt) \in Nat
    BY <1>1, AccountTyped, TiersGrow
  <2> HIDE DEF of_sweep
  <2>5. WarmTokens(context, opt) > 0 => warm
    BY <2>1, <2>2, <2>3, <2>4
  <2>6. ASSUME NEW j \in 1 .. c, of_sweep[j].warm_tokens > 0 PROVE WarmTokens(context, opt) > 0
    <3>1. sizes[j] \in 0 .. context
      BY <1>6
    <3>2. of_sweep[j].warm_tokens \in Nat /\ of_sweep[j].warm_tokens <= WarmTokens(context, opt)
      BY <1>4, <2>1, <3>1
    <3> QED BY <2>4, <2>6, <3>2
  <2> QED BY <2>3, <2>5, <2>6
<1>12. ledger.tier_bytes \in Nat /\ ledger.full_bytes \in Nat
  <2>1. context \in 0 .. context
    BY <1>1
  <2> QED BY <1>2, <1>4, <2>1
<1>13. \A k \in 1 .. n + c : /\ rows[k].tier_bytes \in Nat /\ rows[k].tier_bytes <= ledger.tier_bytes
                             /\ rows[k].full_bytes \in Nat /\ rows[k].full_bytes <= ledger.full_bytes
  <2> SUFFICES ASSUME NEW k \in 1 .. n + c
               PROVE  /\ rows[k].tier_bytes \in Nat /\ rows[k].tier_bytes <= ledger.tier_bytes
                      /\ rows[k].full_bytes \in Nat /\ rows[k].full_bytes <= ledger.full_bytes
    OBVIOUS
  <2> HIDE DEF rows
  <2>1. PICK m \in 0 .. context : rows[k] = Account(ledger, opt, m)
    BY <1>10
  <2> QED BY <1>4, <2>1
<1> DEFINE most(g) == Max({0} \cup {g[k] : k \in 1 .. n + c})
           tier == [k \in 1 .. n + c |-> rows[k].tier_bytes]
           full == [k \in 1 .. n + c |-> rows[k].full_bytes]
<1>14. /\ \A k \in 1 .. n + c : tier[k] \in Nat /\ tier[k] <= ledger.tier_bytes
       /\ \E k \in 1 .. n + c : tier[k] = ledger.tier_bytes
  <2> HIDE DEF rows
  <2>1. PICK k \in 1 .. n + c : rows[k] = Account(ledger, opt, context)
    BY <1>10
  <2>2. tier[k] = ledger.tier_bytes
    BY <1>2, <2>1
  <2> QED BY <1>13, <2>2
<1>15. /\ \A k \in 1 .. n + c : full[k] \in Nat /\ full[k] <= ledger.full_bytes
       /\ \E k \in 1 .. n + c : full[k] = ledger.full_bytes
  <2> HIDE DEF rows
  <2>1. PICK k \in 1 .. n + c : rows[k] = Account(ledger, opt, context)
    BY <1>10
  <2>2. full[k] = ledger.full_bytes
    BY <1>2, <2>1
  <2> QED BY <1>13, <2>2
<1>16. most(tier) = ledger.tier_bytes /\ most(full) = ledger.full_bytes
  <2> HIDE DEF tier, full
  <2>1. n + c \in Nat
    BY <1>10
  <2> QED BY <1>12, <1>14, <1>15, <2>1, LargestOfMany, ZenonT(60)
<1>17. /\ Max({0} \cup {rows[k].tier_bytes : k \in DOMAIN rows}) = ledger.tier_bytes
       /\ Max({0} \cup {rows[k].full_bytes : k \in DOMAIN rows}) = ledger.full_bytes
  <2> HIDE DEF rows
  <2>1. /\ {rows[k].tier_bytes : k \in DOMAIN rows} = {tier[k] : k \in 1 .. n + c}
        /\ {rows[k].full_bytes : k \in DOMAIN rows} = {full[k] : k \in 1 .. n + c}
    BY <1>10
  <2> QED BY <1>16, <2>1
<1> DEFINE accepted == CountOf(traced, LAMBDA s : s.action = "accept_proxy")
           asked == CountOf(traced, LAMBDA s : s.action = "oracle_fallback")
           max_tier == MostOf(LAMBDA r : r.tier_bytes, rows)
           max_full == MostOf(LAMBDA r : r.full_bytes, rows)
           max_warm == MostOf(LAMBDA r : r.warm_bytes, rows)
<1>18. max_tier = ledger.tier_bytes /\ max_full = ledger.full_bytes
  BY <1>17, Zenon DEF MostOf
<1>19. ~(ledger.context <= 0 \/ ledger.full_bits <= 0 \/ ledger.tiers.warm.bits_per_token <= 0)
  BY <1>1, <1>3
<1>20. trace = [status |-> "accounted", step_rows |-> of_steps, sweep_rows |-> of_sweep,
                fallback_steps |-> asked, accept_steps |-> accepted, sweep_exercises_warm |-> warm,
                max_full_bytes |-> max_full, max_tier_bytes |-> max_tier, max_warm_bytes |-> max_warm]
  BY <1>19, Zenon DEF RuntimeKvLedger, sizes, S
<1> HIDE DEF trace, of_steps, of_sweep, accepted, asked, max_tier, max_full, max_warm, warm
<1>21. trace.max_tier_bytes = max_tier /\ trace.max_full_bytes = max_full /\ trace.sweep_exercises_warm = warm
  BY <1>20
<1>22. /\ trace.max_tier_bytes = ledger.tier_bytes /\ trace.max_full_bytes = ledger.full_bytes
       /\ (trace.sweep_exercises_warm <=> ledger.tiers.warm.tokens > 0)
  BY <1>1, <1>11, <1>18, <1>21
<1> QED BY <1>22 DEF TraceIsThePlan, trace, ledger

(* Rounding to whole bytes moves a size by four bits at most, and not at all  *)
(* when it is whole.                                                          *)
LEMMA RoundedNear ==
    ASSUME NEW x \in Nat
    PROVE  /\ RoundedBytes(x) \in Nat
           /\ 8 * RoundedBytes(x) - x <= 4 /\ x - 8 * RoundedBytes(x) <= 4
           /\ x % 8 = 0 => 8 * RoundedBytes(x) = x
<1> DEFINE q == x \div 8  r == x % 8
<1>1. q \in Nat /\ r \in 0 .. 7 /\ x = 8 * q + r
  OBVIOUS
<1>2. RoundedBytes(x) = IF r > 4 \/ (r = 4 /\ q % 2 = 1) THEN q + 1 ELSE q
  BY DEF RoundedBytes
<1> HIDE DEF q
<1>3. x % 8 = 0 => r = 0
  OBVIOUS
<1> HIDE DEF r
<1>4. CASE r > 4 \/ (r = 4 /\ q % 2 = 1)
  BY <1>1, <1>2, <1>3, <1>4
<1>5. CASE ~(r > 4 \/ (r = 4 /\ q % 2 = 1))
  BY <1>1, <1>2, <1>3, <1>5
<1> QED BY <1>4, <1>5

(* Rounding every one of w equal sizes, or their sum.                         *)
LEMMA RoundedOften ==
    ASSUME NEW w \in Nat, NEW x \in Nat
    PROVE  /\ w * RoundedBytes(x) \in Nat /\ RoundedBytes(w * x) \in Nat
           /\ 2 * Abs(w * RoundedBytes(x) - RoundedBytes(w * x)) <= w + 1
           /\ x % 8 = 0 => w * RoundedBytes(x) = RoundedBytes(w * x)
<1> DEFINE b == RoundedBytes(x)
           a == RoundedBytes(w * x)
           wx == w * x
           wb == w * b
           e == 8 * b - x
<1>1. /\ b \in Nat /\ e \in Int /\ e <= 4 /\ -4 <= e /\ (x % 8 = 0 => e = 0)
  <2>1. /\ b \in Nat /\ 8 * b - x <= 4 /\ x - 8 * b <= 4 /\ (x % 8 = 0 => 8 * b = x)
    BY RoundedNear
  <2> HIDE DEF b
  <2> QED BY <2>1
<1>2. wx \in Nat /\ wb \in Nat
  BY <1>1, Product
<1>3. a \in Nat /\ 8 * a - wx <= 4 /\ wx - 8 * a <= 4 /\ (wx % 8 = 0 => 8 * a = wx)
  BY <1>2, RoundedNear
<1>4. 8 * wb - wx = w * e /\ w * e <= 4 * w /\ -4 * w <= w * e /\ w * e \in Int
  <2> HIDE DEF b
  <2>1. 8 * (w * b) - w * x = w * (8 * b - x)
    BY <1>1
  <2>2. \A k \in Int : k <= 4 /\ -4 <= k => w * k <= 4 * w /\ -4 * w <= w * k /\ w * k \in Int
    OBVIOUS
  <2> QED BY <1>1, <2>1, <2>2
<1>5. x % 8 = 0 => wx % 8 = 0 /\ 8 * wb = wx
  <2> SUFFICES ASSUME x % 8 = 0 PROVE wx % 8 = 0 /\ 8 * wb = wx
    OBVIOUS
  <2>1. 8 * b = x
    BY RoundedNear
  <2> HIDE DEF b
  <2>2. 8 * (w * b) = w * x
    BY <1>1, <2>1
  <2>3. \A y \in Nat : (8 * y) % 8 = 0
    OBVIOUS
  <2> HIDE DEF wb, wx
  <2>4. 8 * wb = wx
    BY <2>2 DEF wb, wx
  <2> QED BY <1>2, <2>3, <2>4
<1> HIDE DEF wx, wb, a
<1>6. 2 * (wb - a) <= w + 1 /\ 2 * (a - wb) <= w + 1
  <2> DEFINE we == w * e
  <2>1. 8 * wb - wx = we /\ we <= 4 * w /\ -4 * w <= we /\ we \in Int
    BY <1>4
  <2> HIDE DEF we
  <2> QED BY <2>1, <1>2, <1>3
<1>7. 2 * Abs(wb - a) <= w + 1
  BY <1>2, <1>3, <1>6 DEF Abs
<1>8. x % 8 = 0 => wb = a
  BY <1>2, <1>3, <1>5
<1> QED BY <1>2, <1>3, <1>7, <1>8 DEF wb, wx, a

(* The sample of sage_kv_tier_smoke.py, of any number of tokens.              *)
LEMMA SampleHolds ==
    ASSUME NEW shapes \in Seq(Shape), Len(shapes) > 0, NEW context \in Nat \ {0}, NEW opt \in TierOptions,
           NEW tokens \in Nat \ {0}
    PROVE  SampleIsTheTier(TierSmoke(shapes, context, opt, tokens), KvLedger(shapes, context, opt), opt.warm_bits)
<1> DEFINE ledger == KvLedger(shapes, context, opt)
           d == Numbers(shapes)
           smoke == TierSmoke(shapes, context, opt, tokens)
           full == RoundedBytes(BitsPerToken(shapes, 16, 16))
           packed == RoundedBytes(BitsPerToken(shapes, opt.warm_bits, opt.warm_bits))
           hot == HotTokens(context, opt)
           warm == WarmTokens(context, opt)
           cold == ColdTokens(context, opt)
           sample == Smaller(tokens, AtLeastOne(IF warm > 0 THEN warm ELSE tokens))
           values == (sample * full) \div 2
<1>1. CASE opt.warm_bits # 2
  <2>1. smoke = Failure
    BY <1>1 DEF TierSmoke
  <2> QED BY <1>1, <2>1 DEF SampleIsTheTier
<1>2. CASE opt.warm_bits = 2
  <2>1. /\ d \in Nat \ {0} /\ LedgerFor(ledger, opt, d) /\ ledger.tiers.warm.tokens = warm
        /\ ledger.tiers.warm.total_bytes = RoundedBytes(warm * ledger.tiers.warm.bits_per_token)
    <3>1. /\ LedgerFor(ledger, opt, d) /\ ledger.tiers.warm.tokens = warm
          /\ ledger.tiers.warm.total_bytes = RoundedBytes(warm * ledger.tiers.warm.bits_per_token)
      BY LedgerIsPlanned
    <3> QED BY <3>1, NumbersPositive
  <2>2. context \in Nat /\ warm \in Nat
    BY TiersGrow
  <2>3. sample \in Nat
    BY <2>2 DEF Smaller, AtLeastOne
  <2>4. full = RoundedBytes(16 * d) /\ packed = RoundedBytes(2 * d)
    <3>1. BitsPerToken(shapes, 16, 16) = 16 * d /\ BitsPerToken(shapes, 2, 2) = 2 * d
      BY BitsAreNumbers
    <3> QED BY <1>2, <3>1
  <2>5. smoke = [status |-> "measured", hot_tokens |-> hot, warm_tokens |-> warm, cold_tokens |-> cold,
                 sample_values |-> values, sample_packed_bytes |-> PackedBytes(values),
                 planned_sample_bytes |-> sample * packed, warm_bytes |-> warm * packed,
                 tier_bytes |-> hot * full + warm * packed]
    <3>1. shapes # <<>>
      BY LenProperties, EmptySeq
    <3>2. ~(opt.warm_bits # 2 \/ tokens <= 0 \/ context <= 0 \/ shapes = <<>>)
      BY <1>2, <3>1
    <3> QED BY <3>2, Zenon DEF TierSmoke
  <2> HIDE DEF smoke, values, hot, warm, cold, sample, packed, full, ledger, d
  <2>6. /\ smoke.warm_tokens = warm /\ smoke.warm_bytes = warm * packed
        /\ smoke.sample_packed_bytes = PackedBytes(values) /\ smoke.planned_sample_bytes = sample * packed
    BY <2>5
  <2>7. ledger.tiers.warm.bits_per_token = 2 * d
    BY <1>2, <2>1 DEF LedgerFor
  <2>8. 2 * d \in Nat /\ 16 * d \in Nat /\ full = 2 * d
    <3>1. 16 * d \in Nat /\ (16 * d) % 8 = 0
      BY <2>1
    <3>2. 8 * RoundedBytes(16 * d) = 16 * d /\ RoundedBytes(16 * d) \in Nat
      BY <3>1, RoundedNear
    <3> QED BY <2>1, <2>4, <3>2
  <2>9. /\ 2 * Abs(warm * packed - RoundedBytes(warm * (2 * d))) <= warm + 1
        /\ (2 * d) % 8 = 0 => warm * packed = RoundedBytes(warm * (2 * d))
    BY <2>2, <2>4, <2>8, RoundedOften
  <2>10. (2 * d) % 8 = 0 => PackedBytes(values) = sample * packed
    <3> SUFFICES ASSUME (2 * d) % 8 = 0 PROVE PackedBytes(values) = sample * packed
      OBVIOUS
    <3>1. 8 * packed = 2 * d /\ packed \in Nat
      BY <2>4, <2>8, RoundedNear
    <3>2. full = 8 * packed
      BY <2>8, <3>1
    <3>3. sample * packed \in Nat
      BY <2>3, <3>1, Product
    <3>4. sample * full = 8 * (sample * packed)
      BY <2>3, <3>1, <3>2
    <3>5. \A y \in Nat : (8 * y) \div 2 = 4 * y /\ (4 * y + 3) \div 4 = y
      OBVIOUS
    <3>6. values = 4 * (sample * packed)
      BY <3>3, <3>4, <3>5 DEF values
    <3> QED BY <3>3, <3>5, <3>6 DEF PackedBytes
  <2>11. smoke.warm_tokens = ledger.tiers.warm.tokens
         /\ 2 * Abs(smoke.warm_bytes - ledger.tiers.warm.total_bytes) <= smoke.warm_tokens + 1
    BY <2>1, <2>6, <2>7, <2>9
  <2>12. ledger.tiers.warm.bits_per_token % 8 = 0 =>
              /\ smoke.warm_bytes = ledger.tiers.warm.total_bytes
              /\ smoke.sample_packed_bytes = smoke.planned_sample_bytes
    BY <2>1, <2>6, <2>7, <2>9, <2>10
  <2> QED BY <1>2, <2>11, <2>12 DEF SampleIsTheTier, smoke, ledger
<1> QED BY <1>1, <1>2

(* The header of a model of any size: layers, heads and head dimension.       *)
LEMMA HeaderShapes ==
    ASSUME NEW n_head \in Nat \ {0}, NEW n_head_kv \in Nat \ {0}, NEW head_dim \in Nat \ {0}
    PROVE  LET kv_dim == head_dim * n_head_kv
               shapes == [layer \in 1 .. 2 |-> [layer |-> layer, k_dim |-> kv_dim, v_dim |-> kv_dim]]
           IN  CppBitsPerToken(2, n_head * head_dim, n_head, n_head_kv) = BitsPerToken(shapes, 16, 16)
<1> DEFINE kv_dim == head_dim * n_head_kv
           shapes == [layer \in 1 .. 2 |-> [layer |-> layer, k_dim |-> kv_dim, v_dim |-> kv_dim]]
           embd == n_head * head_dim
           numbers == [i \in DOMAIN shapes |-> shapes[i].k_dim + shapes[i].v_dim]
<1>1. kv_dim \in Nat \ {0} /\ embd \in Nat \ {0}
  BY PositiveProduct
<1>2. (embd * n_head_kv + n_head - 1) \div n_head = kv_dim
  <2>1. embd * n_head_kv = n_head * kv_dim
    OBVIOUS
  <2> HIDE DEF kv_dim, embd
  <2>2. embd * n_head_kv + n_head - 1 = n_head * kv_dim + (n_head - 1) /\ n_head - 1 \in 0 .. n_head - 1
    BY <1>1, <2>1
  <2>3. \A q \in Nat, r \in 0 .. n_head - 1 : (n_head * q + r) \div n_head = q
    BY WholeQuotient
  <2> QED BY <1>1, <2>2, <2>3
<1> HIDE DEF kv_dim, embd
<1>3. shapes \in Seq(Shape)
  <2>1. \A k \in 1 .. 2 : [layer |-> k, k_dim |-> kv_dim, v_dim |-> kv_dim] \in Shape
    BY <1>1 DEF Shape
  <2>2. shapes \in [1 .. 2 -> Shape] /\ 2 \in Nat
    BY <2>1
  <2> HIDE DEF shapes
  <2> QED BY <2>2, SeqDef
<1>4. BitsPerToken(shapes, 16, 16) = 16 * Numbers(shapes)
  BY <1>3, BitsAreNumbers
<1>5. DOMAIN shapes = 1 .. 2 /\ \A k \in 1 .. 2 : shapes[k].k_dim = kv_dim /\ shapes[k].v_dim = kv_dim
  OBVIOUS
<1>6. Numbers(shapes) = SumOver(numbers, 1 .. 2)
  BY <1>5, Zenon DEF Numbers
<1>7. SumOver(numbers, 1 .. 2) = 2 * (2 * kv_dim)
  <2> DEFINE c == 2 * kv_dim
  <2>1. c \in Int /\ \A k \in 1 .. 2 : numbers[k] = c
    BY <1>1, <1>5
  <2> HIDE DEF numbers, c
  <2>2. SumOver(numbers, 1 .. 2) = 2 * c
    BY <2>1, SumConstant
  <2> QED BY <2>2 DEF c
<1>8. CppBitsPerToken(2, embd, n_head, n_head_kv) = 2 * kv_dim * 2 * 16
  <2>1. 0 \notin {2, embd, n_head, n_head_kv}
    BY <1>1
  <2> QED BY <1>2, <2>1 DEF CppBitsPerToken
<1> HIDE DEF numbers, shapes
<1>9. CppBitsPerToken(2, embd, n_head, n_head_kv) = BitsPerToken(shapes, 16, 16)
  BY <1>1, <1>4, <1>6, <1>7, <1>8
<1> QED BY <1>9 DEF shapes, kv_dim, embd

(* A thread of pack_kernel() sets what its four lanes hold.                   *)
LEMMA KernelPacks ==
    ASSUME NEW codes \in Seq(0 .. 3), NEW block \in Nat, block > 0
    PROVE  KernelPack(codes, GridFor(PackedBytes(Len(codes)), block), block) = Pack(codes).packed
<1> DEFINE n == Len(codes)
           size == PackedBytes(n)
           grid == GridFor(size, block)
           lane(i, k) == IF 4 * (i - 1) + k <= n THEN codes[4 * (i - 1) + k] ELSE 0
           four == <<1, 2, 3, 4>>
           part(i) == SumOf(LAMBDA k : IF 4 * (i - 1) + k <= n THEN codes[4 * (i - 1) + k] * 4^(k - 1) ELSE 0, four)
           byte(i) == lane(i, 1) + 4 * lane(i, 2) + 16 * lane(i, 3) + 64 * lane(i, 4)
<1>1. n \in Nat /\ size \in Nat /\ \A i \in 1 .. n : codes[i] \in 0 .. 3
  BY PackedTyped, LenProperties, ElementOfSeq DEF PackedSize
<1>2. Pack(codes).packed = [i \in 1 .. size |-> byte(i)]
  BY Zenon DEF Pack
<1>3. Smaller(grid * block, size) = size
  <2>1. grid * block >= size /\ grid * block \in Int
    BY <1>1, GridCovers
  <2> QED BY <1>1, <2>1 DEF Smaller
<1>4. KernelPack(codes, grid, block) = [i \in 1 .. size |-> part(i)]
  BY <1>3, Zenon DEF KernelPack
<1>5. ASSUME NEW i \in 1 .. size PROVE part(i) = byte(i)
  <2> DEFINE scaled(k) == IF 4 * (i - 1) + k <= n THEN codes[4 * (i - 1) + k] * 4^(k - 1) ELSE 0
             g == [j \in DOMAIN four |-> scaled(four[j])]
  <2>1. part(i) = SumOver(g, DOMAIN four)
    BY Zenon DEF SumOf
  <2>2. DOMAIN four = 1 .. 4 /\ four[1] = 1 /\ four[2] = 2 /\ four[3] = 3 /\ four[4] = 4
    OBVIOUS
  <2>3. /\ lane(i, 1) \in Nat /\ lane(i, 2) \in Nat /\ lane(i, 3) \in Nat /\ lane(i, 4) \in Nat
    <3>1. \A k \in 1 .. 4 : lane(i, k) \in Nat
      BY <1>1
    <3> HIDE DEF lane
    <3> QED BY <3>1
  <2>4. 4^0 = 1 /\ 4^1 = 4 /\ 4^2 = 16 /\ 4^3 = 64
    OBVIOUS
  <2>5. /\ scaled(1) = lane(i, 1) /\ scaled(2) = 4 * lane(i, 2)
        /\ scaled(3) = 16 * lane(i, 3) /\ scaled(4) = 64 * lane(i, 4)
    <3>1. 1 - 1 = 0 /\ 2 - 1 = 1 /\ 3 - 1 = 2 /\ 4 - 1 = 3
      OBVIOUS
    <3>2. /\ scaled(1) = lane(i, 1) * 1 /\ scaled(2) = lane(i, 2) * 4
          /\ scaled(3) = lane(i, 3) * 16 /\ scaled(4) = lane(i, 4) * 64
      BY <1>1, <2>4, <3>1
    <3> HIDE DEF scaled, lane
    <3> QED BY <2>3, <3>2
  <2>6. g[1] = scaled(1) /\ g[2] = scaled(2) /\ g[3] = scaled(3) /\ g[4] = scaled(4)
    <3> HIDE DEF scaled, four
    <3> QED BY <2>2
  <2> HIDE DEF part, g, scaled, four, lane
  <2>7. \A k \in 1 .. 4 : g[k] \in Int
    <3>1. g[1] \in Int /\ g[2] \in Int /\ g[3] \in Int /\ g[4] \in Int
      BY <2>3, <2>5, <2>6
    <3> QED BY <3>1
  <2>8. SumOver(g, 1 .. 4) = g[1] + g[2] + g[3] + g[4]
    BY <2>7, SumOfFour
  <2> QED BY <2>1, <2>2, <2>3, <2>5, <2>6, <2>8
<1> HIDE DEF part, byte
<1>6. KernelPack(codes, grid, block) = Pack(codes).packed
  BY <1>2, <1>4, <1>5
<1> QED BY <1>6

(* pack_2bit_from_fp16_bytes() and unpack_2bit_codes() come to the same       *)
(* checksum, of the same codes at the same positions.                         *)
LEMMA ChecksumsAgree ==
    ASSUME NEW codes \in Seq(0 .. 3)
    PROVE  Unpack(Pack(codes).packed, Len(codes)).checksum = Pack(codes).checksum
<1> DEFINE n == Len(codes)
           packed == Pack(codes).packed
           m == Smaller(n, 4 * Len(packed))
           code(i) == (packed[((i - 1) \div 4) + 1] \div 4^((i - 1) % 4)) % 4
           places == [i \in DOMAIN codes |-> i]
           counted == [i \in 1 .. m |-> i]
           g == [j \in DOMAIN places |-> codes[places[j]] + places[j] - 1]
           h == [j \in DOMAIN counted |-> code(counted[j]) + counted[j] - 1]
<1>1. /\ n \in Nat /\ DOMAIN codes = 1 .. n /\ \A i \in 1 .. n : codes[i] \in 0 .. 3 /\ code(i) = codes[i]
  <2>1. \A i \in 1 .. n : code(i) = codes[i]
    BY PackedTyped
  <2> HIDE DEF code
  <2> QED BY <2>1, LenProperties, ElementOfSeq
<1>2. m = n
  <2>1. Len(packed) = PackedSize(codes) /\ PackedSize(codes) \in Nat /\ n <= 4 * PackedSize(codes)
    BY PackedTyped
  <2> HIDE DEF packed
  <2> QED BY <1>1, <2>1 DEF Smaller
<1>3. Pack(codes).checksum = SumOver(g, DOMAIN places) % ChecksumSize
  <2> DEFINE lane(i, k) == IF 4 * (i - 1) + k <= Len(codes) THEN codes[4 * (i - 1) + k] ELSE 0
             bytes == [i \in 1 .. PackedBytes(Len(codes)) |->
                          lane(i, 1) + 4 * lane(i, 2) + 16 * lane(i, 3) + 64 * lane(i, 4)]
             sum == SumOf(LAMBDA i : codes[i] + i - 1, places) % ChecksumSize
  <2>1. Pack(codes) = [packed |-> bytes, checksum |-> sum]
    BY Zenon DEF Pack
  <2>2. sum = SumOver(g, DOMAIN places) % ChecksumSize
    BY Zenon DEF SumOf
  <2> HIDE DEF bytes, sum
  <2>3. Pack(codes).checksum = sum
    BY <2>1
  <2> QED BY <2>2, <2>3
<1> HIDE DEF packed
<1>4. Unpack(packed, n).checksum = SumOver(h, DOMAIN counted) % ChecksumSize
  <2> DEFINE unpacked == [i \in 1 .. n |-> IF i <= m THEN code(i) ELSE 0]
             sum == SumOf(LAMBDA i : code(i) + i - 1, counted) % ChecksumSize
  <2>1. Unpack(packed, n) = [codes |-> unpacked, checksum |-> sum]
    BY Zenon DEF Unpack
  <2>2. sum = SumOver(h, DOMAIN counted) % ChecksumSize
    BY Zenon DEF SumOf
  <2> HIDE DEF unpacked, sum
  <2>3. Unpack(packed, n).checksum = sum
    BY <2>1
  <2> QED BY <2>2, <2>3
<1>5. /\ DOMAIN places = 1 .. n /\ DOMAIN counted = 1 .. n
      /\ \A j \in 1 .. n : g[j] = codes[j] + j - 1 /\ h[j] = code(j) + j - 1
  <2> HIDE DEF code, m
  <2> QED BY <1>1, <1>2
<1> HIDE DEF g, h, code, places, counted, m
<1>6. \A j \in 1 .. n : g[j] \in Int /\ g[j] = h[j]
  BY <1>1, <1>5
<1>7. IsFiniteSet(1 .. n)
  BY <1>1, FS_Interval
<1>8. SumOver(g, 1 .. n) = SumOver(h, 1 .. n)
  BY <1>6, <1>7, SumEqual
<1> QED BY <1>3, <1>4, <1>5, <1>8 DEF packed

(* What is packed, by the script or by the kernel, is unpacked by either.     *)
LEMMA PackingHolds == \A codes \in Seq(0 .. 3) : PackingIsInverse(codes)
<1> SUFFICES ASSUME NEW codes \in Seq(0 .. 3) PROVE PackingIsInverse(codes)
  OBVIOUS
<1> DEFINE packed == Pack(codes)
           unpacked == Unpack(packed.packed, Len(codes))
           bytes(block) == KernelPack(codes, GridFor(PackedBytes(Len(codes)), block), block)
<1>1. /\ \A k \in DOMAIN packed.packed : packed.packed[k] \in 0 .. 255
      /\ unpacked.codes = codes
  BY PackingTheorem, 1 \in Nat, 1 > 0
<1>2. unpacked.checksum = packed.checksum
  BY ChecksumsAgree
<1>3. ASSUME NEW block \in 1 .. 3
      PROVE  /\ bytes(block) = packed.packed
             /\ KernelUnpack(bytes(block), Len(codes), GridFor(Len(codes), block), block) = codes
  <2>1. block \in Nat /\ block > 0
    OBVIOUS
  <2>2. bytes(block) = packed.packed
    BY <2>1, KernelPacks
  <2>3. KernelUnpack(packed.packed, Len(codes), GridFor(Len(codes), block), block) = codes
    BY <2>1, PackingTheorem
  <2> HIDE DEF bytes, packed
  <2> QED BY <2>2, <2>3
<1> QED BY <1>1, <1>2, <1>3 DEF PackingIsInverse

(* A model of two layers has a shape for each; the steps of its trace stay    *)
(* within the context.                                                        *)
LEMMA TensorsTyped ==
    ASSUME NEW i, i.key \in Nat \ {0}, i.value \in {<<>>, << 1 >>}
    PROVE  KvTensors(i) \in Seq(KvTensor) /\ OfRole(KvTensors(i), "key") # {}
<1> DEFINE tensor(role, layer, shape) == [role |-> role, layer |-> layer, shape |-> shape]
           given == IF i.value = <<>> THEN <<>> ELSE << tensor("value", 1, <<4, i.value[1]>>) >>
           always == << tensor("embedding", 0, <<4, 9>>), tensor("key", 0, <<4, 2>>), tensor("value", 0, <<2>>),
                        tensor("key", 1, <<4, i.key>>) >>
<1>1. KvTensors(i) = always \o given
  BY Zenon DEF KvTensors
<1>2. \A x \in Nat \ {0}, y \in Nat \ {0} : <<x>> \in Seq(Nat \ {0}) \ {<<>>} /\ <<x, y>> \in Seq(Nat \ {0}) \ {<<>>}
  OBVIOUS
<1>3. \A role \in {"embedding", "query", "key", "value"}, layer \in Nat, shape \in Seq(Nat \ {0}) \ {<<>>} : tensor(role, layer, shape) \in KvTensor
  BY DEF KvTensor
<1>4. always \in Seq(KvTensor) /\ Len(always) = 4 /\ always[2] = tensor("key", 0, <<4, 2>>)
  <2>1. /\ tensor("embedding", 0, <<4, 9>>) \in KvTensor /\ tensor("key", 0, <<4, 2>>) \in KvTensor
        /\ tensor("value", 0, <<2>>) \in KvTensor /\ tensor("key", 1, <<4, i.key>>) \in KvTensor
    <3>1. /\ <<4, 9>> \in Seq(Nat \ {0}) \ {<<>>} /\ <<4, 2>> \in Seq(Nat \ {0}) \ {<<>>}
          /\ <<2>> \in Seq(Nat \ {0}) \ {<<>>} /\ <<4, i.key>> \in Seq(Nat \ {0}) \ {<<>>}
      BY <1>2
    <3> HIDE DEF tensor
    <3> QED BY <1>3, <3>1
  <2> HIDE DEF tensor
  <2> QED BY <2>1
<1>5. given \in Seq(KvTensor)
  <2>1. CASE i.value = <<>>
    BY <2>1
  <2>2. CASE i.value = <<1>>
    <3>1. i.value # <<>> /\ <<4, i.value[1]>> \in Seq(Nat \ {0}) \ {<<>>}
      BY <1>2, <2>2
    <3>2. tensor("value", 1, <<4, i.value[1]>>) \in KvTensor
      BY <1>3, <3>1
    <3> HIDE DEF tensor
    <3> QED BY <3>1, <3>2
  <2> QED BY <2>1, <2>2
<1> DEFINE all == always \o given
<1>6. all \in Seq(KvTensor) /\ Len(all) >= 4 /\ all[2] = tensor("key", 0, <<4, 2>>)
  <2> HIDE DEF always, given, all, tensor
  <2>1. /\ all \in Seq(KvTensor) /\ Len(all) = Len(always) + Len(given)
        /\ \A k \in 1 .. Len(always) + Len(given) : all[k] = IF k <= Len(always) THEN always[k] ELSE given[k - Len(always)]
    BY <1>4, <1>5, ConcatProperties DEF all
  <2>2. Len(given) \in Nat
    BY <1>5, LenProperties
  <2>3. Len(all) >= 4 /\ 2 \in 1 .. Len(always) + Len(given) /\ 2 <= Len(always)
    BY <1>4, <2>1, <2>2
  <2> QED BY <1>4, <2>1, <2>3
<1> HIDE DEF all, always, given
<1>7. 2 \in DOMAIN all /\ all[2].role = "key"
  BY <1>6, LenProperties
<1> HIDE DEF tensor
<1>8. OfRole(all, "key") # {}
  BY <1>7 DEF OfRole
<1> QED BY <1>1, <1>6, <1>8 DEF all

(* A cache is chosen with options the scripts accept, and a limit to its      *)
(* context is swept.                                                          *)
KvOptions == {opt \in TierOptions : opt.include_context_limit = TRUE}

InputIsCache ==
    /\ input.tool = "kv" => /\ input.key \in Nat \ {0} /\ input.value \in {<<>>, <<1>>}
                            /\ input.context \in Nat \ {0} /\ input.opt \in KvOptions
    /\ input.tool = "packing" => input.codes \in Seq(0 .. 3)

(* Both choices of an input for the cache are such.                           *)
LEMMA KvChosen == ChooseKv => InputIsCache'
<1> SUFFICES ASSUME ChooseKv PROVE InputIsCache'
  OBVIOUS
<1>1. PICK key \in {2, 4, 5}, value \in {<<>>, <<1>>}, context \in 1 .. Context, recent \in 0 .. 2, sinks \in 0 .. 1,
           warm \in {0, 2, Context}, bits \in {2, 3} :
          input' = [tool |-> "kv", key |-> key, value |-> value, context |-> context,
                    opt |-> [hot_recent |-> recent, sinks |-> sinks, warm_max |-> warm, warm_bits |-> bits,
                             cold_dim |-> 3, cold_bits |-> 1, hot_budget |-> 64, include_context_limit |-> TRUE]]
  BY DEF ChooseKv
<1> DEFINE opt == [hot_recent |-> recent, sinks |-> sinks, warm_max |-> warm, warm_bits |-> bits,
                   cold_dim |-> 3, cold_bits |-> 1, hot_budget |-> 64, include_context_limit |-> TRUE]
<1>2. opt \in KvOptions
  <2>1. warm \in Nat
    BY SageToolsAssumption
  <2> QED BY <2>1 DEF KvOptions, TierOptions
<1>3. key \in Nat \ {0} /\ context \in Nat \ {0}
  BY SageToolsAssumption
<1> HIDE DEF opt
<1>4. input' = [tool |-> "kv", key |-> key, value |-> value, context |-> context, opt |-> opt]
  BY <1>1 DEF opt
<1>5. /\ input'.tool = "kv" /\ input'.key = key /\ input'.value = value
      /\ input'.context = context /\ input'.opt = opt
  BY <1>4
<1> QED BY <1>2, <1>3, <1>5 DEF InputIsCache

LEMMA PackingChosen == ChoosePacking => InputIsCache'
<1> SUFFICES ASSUME ChoosePacking PROVE InputIsCache'
  OBVIOUS
<1>1. PICK codes \in SeqsUpTo(0 .. 3, Codes) : input' = [tool |-> "packing", codes |-> codes]
  BY DEF ChoosePacking
<1>2. PICK k \in 0 .. Codes : codes \in [1 .. k -> 0 .. 3]
  BY DEF SeqsUpTo
<1>3. k \in Nat
  BY SageToolsAssumption
<1>4. codes \in Seq(0 .. 3)
  BY <1>2, <1>3, SeqDef
<1> QED BY <1>1, <1>4 DEF InputIsCache

(* Plan, trace, packed sample and scheduler agree about the caches of all     *)
(* models with keys.                                                          *)
LEMMA TiersHold ==
    ASSUME NEW shapes \in Seq(Shape), Len(shapes) > 0, NEW i, i.context \in Nat \ {0}, i.opt \in KvOptions
    PROVE  TiersAgree(shapes, i)
<1> DEFINE ledger == KvLedger(shapes, i.context, i.opt)
           traced == << [oracle_kv_tokens |-> i.context - 1, action |-> Accept] >>
           sweep == <<1>>
<1>1. i.opt \in TierOptions /\ i.opt.include_context_limit = TRUE
  BY DEF KvOptions
<1>2. AccountIsThePlan(ledger, i)
  BY <1>1, AccountHolds
<1>3. SchedulerTiersAgree(ledger, i)
  BY <1>1, SchedulerHolds
<1>4. SampleIsTheTier(TierSmoke(shapes, i.context, i.opt, 2), ledger, i.opt.warm_bits)
  BY <1>1, SampleHolds
<1>5. traced \in Seq(TraceStep(i.context)) /\ sweep \in Seq(0 .. i.context)
  <2>1. i.context - 1 \in 0 .. i.context /\ 1 \in 0 .. i.context
    OBVIOUS
  <2>2. [oracle_kv_tokens |-> i.context - 1, action |-> Accept] \in TraceStep(i.context)
    BY <2>1 DEF TraceStep
  <2> QED BY <2>1, <2>2
<1>6. TraceIsThePlan(RuntimeKvLedger(ledger, i.opt, traced, sweep), ledger)
  <2> HIDE DEF traced, sweep
  <2> QED BY <1>1, <1>5, TraceHolds
<1> QED BY <1>2, <1>3, <1>4, <1>6, Zenon DEF TiersAgree

-----------------------------------------------------------------------------
(* A scenario with a fallback that takes time; its name does not matter.      *)
Priced(s) ==
    /\ s.tokens \in Nat \ {0} /\ s.proxy_ms \in Nat
    /\ s.verifier_calls \in Nat /\ s.verifier_ms \in Nat
    /\ s.oracle_calls \in Nat /\ s.oracle_ms \in Nat \ {0}
    /\ s.extra_ms = 0

PricedRun ==
    [name : {"run"}, tokens : Nat \ {0}, proxy_ms : Nat, verifier_calls : Nat, verifier_ms : Nat,
     oracle_calls : Nat, oracle_ms : Nat \ {0}, extra_ms : {0}]

LEMMA RunIsPriced == \A s \in PricedRun : Priced(s)
BY DEF PricedRun, Priced

\* The parts of a scenario's time, and the time it may take.
ProxyPart(s)    == s.tokens * s.proxy_ms
VerifierPart(s) == s.verifier_calls * s.verifier_ms
OraclePart(s)   == s.oracle_calls * s.oracle_ms
Allowed(s, target) == s.tokens * target

(* The time of a scenario is the sum of its parts, and it meets a target when *)
(* it fits into the time allowed.                                             *)
LEMMA ScenarioParts ==
    ASSUME NEW s, Priced(s), NEW target \in Nat
    PROVE  /\ ProxyPart(s) \in Nat /\ VerifierPart(s) \in Nat /\ OraclePart(s) \in Nat /\ Allowed(s, target) \in Nat
           /\ ScenarioTime(s) = ProxyPart(s) + VerifierPart(s) + OraclePart(s)
           /\ RoomForOracle(s, target) = Allowed(s, target) - ProxyPart(s) - VerifierPart(s)
           /\ MeetsTarget(s, target) <=> ScenarioTime(s) > 0 /\ ScenarioTime(s) <= Allowed(s, target)
           /\ s.oracle_calls > 0 => OraclePart(s) > 0
<1> DEFINE a == s.tokens * s.proxy_ms
           b == s.tokens * target
           c == s.verifier_calls * s.verifier_ms
           d == s.oracle_calls * s.oracle_ms
<1>1. a \in Nat /\ b \in Nat /\ c \in Nat /\ d \in Nat
  BY Product DEF Priced
<1>2. s.tokens * (s.proxy_ms + s.extra_ms) = a
  BY DEF Priced
<1>3. s.tokens * (target - s.proxy_ms) = b - a
  BY DEF Priced
<1>4. ScenarioTime(s) = a + c + d
  BY <1>2 DEF ScenarioTime
<1>5. RoomForOracle(s, target) = b - a - c
  BY <1>3 DEF RoomForOracle
<1>6. s.oracle_calls > 0 => d > 0
  BY PositiveProduct DEF Priced
<1>7. MeetsTarget(s, target) <=> ScenarioTime(s) > 0 /\ ScenarioTime(s) <= b
  BY DEF MeetsTarget
<1>8. ProxyPart(s) = a /\ VerifierPart(s) = c /\ OraclePart(s) = d /\ Allowed(s, target) = b
  BY DEF ProxyPart, VerifierPart, OraclePart, Allowed
<1> HIDE DEF a, b, c, d
<1> QED BY <1>1, <1>4, <1>5, <1>6, <1>7, <1>8

(* The largest number of fallbacks that may be afforded, and the largest      *)
(* share of the oracle's weights that may be active.                          *)
LEMMA FallbackLimitTight ==
    ASSUME NEW s, Priced(s), NEW target \in Nat, s.oracle_calls > 0
    PROVE  FallbackLimit(s, target).meets_configured <=> MeetsTarget(s, target)
<1>1. s.oracle_ms * s.oracle_calls = OraclePart(s)
  BY DEF Priced, OraclePart
<1>2. ~(s.oracle_calls <= 0)
  BY DEF Priced
<1>3. FallbackLimit(s, target).meets_configured <=> OraclePart(s) <= RoomForOracle(s, target)
  BY <1>1, <1>2 DEF FallbackLimit
<1> QED BY <1>3, ScenarioParts

LEMMA ActiveLimitTight ==
    ASSUME NEW s \in PricedRun, NEW target \in Nat, s.oracle_calls > 0, NEW compute \in Nat, compute > 0, NEW fixed \in Nat,
           NEW rate \in Nat, rate > 0, NEW percent \in Nat
    PROVE  LET limit == ActiveLimit(s, target, compute, fixed, rate)
           IN  (limit.feasible /\ percent * limit.den <= limit.num)
               <=> MeetsTarget([s EXCEPT !.oracle_ms = compute + fixed + rate * percent], target)
<1> DEFINE limit == ActiveLimit(s, target, compute, fixed, rate)
           ms == compute + fixed + rate * percent
           t == [s EXCEPT !.oracle_ms = ms]
           calls == s.oracle_calls
           room == RoomForOracle(s, target)
           e == calls * (compute + fixed)
           f == calls * (rate * percent)
<1>1. Priced(s) /\ calls \in Nat \ {0}
  BY RunIsPriced DEF Priced
<1>2. rate * percent \in Nat /\ ms \in Nat \ {0}
  BY Product
<1>3. /\ t.tokens = s.tokens /\ t.proxy_ms = s.proxy_ms /\ t.verifier_calls = s.verifier_calls
      /\ t.verifier_ms = s.verifier_ms /\ t.oracle_calls = calls /\ t.oracle_ms = ms /\ t.extra_ms = s.extra_ms
  BY DEF PricedRun
<1>4. Priced(t)
  BY <1>1, <1>2, <1>3 DEF Priced
<1>5. e \in Nat \ {0} /\ f \in Nat
  BY <1>1, <1>2, Product, PositiveProduct
<1>6. OraclePart(t) = e + f
  <2>1. calls * ms = e + f
    BY <1>1, <1>2
  <2> QED BY <2>1, <1>3 DEF OraclePart
<1>7. percent * (calls * rate) = f
  BY <1>1
<1>8. /\ limit.feasible <=> room > 0 /\ room - e >= 0
      /\ limit.num = room - e /\ limit.den = calls * rate
  <2>1. ~(s.oracle_calls <= 0) /\ rate > 0
    BY <1>1
  <2>2. limit = [status |-> "limited", feasible |-> room > 0 /\ room - e >= 0, num |-> room - e, den |-> calls * rate]
    BY <2>1, Zenon DEF ActiveLimit
  <2> HIDE DEF limit
  <2> QED BY <2>2
<1>9. room = RoomForOracle(t, target)
  BY <1>3 DEF RoomForOracle
<1> HIDE DEF limit, ms, t, calls, room, e, f
<1>10. /\ ProxyPart(t) \in Nat /\ VerifierPart(t) \in Nat /\ Allowed(t, target) \in Nat
       /\ ScenarioTime(t) = ProxyPart(t) + VerifierPart(t) + OraclePart(t)
       /\ RoomForOracle(t, target) = Allowed(t, target) - ProxyPart(t) - VerifierPart(t)
       /\ MeetsTarget(t, target) <=> ScenarioTime(t) > 0 /\ ScenarioTime(t) <= Allowed(t, target)
  BY <1>4, ScenarioParts
<1>11. (limit.feasible /\ percent * limit.den <= limit.num) <=> MeetsTarget(t, target)
  <2>1. percent * limit.den = f
    BY <1>7, <1>8
  <2>2. (limit.feasible /\ percent * limit.den <= limit.num) <=> room > 0 /\ room - e >= 0 /\ f <= room - e
    BY <2>1, <1>8
  <2> QED BY <2>2, <1>5, <1>6, <1>9, <1>10
<1> QED BY <1>11 DEF limit, t, ms

(* At the limits a projection prints the target is met; beyond them it is     *)
(* not.                                                                       *)
LEMMA LimitsHold ==
    ASSUME NEW s \in PricedRun, NEW target \in Nat
    PROVE  LimitsAreTight(s, target)
<1> SUFFICES ASSUME s.oracle_calls > 0 PROVE LimitsAreTight(s, target)
  BY DEF LimitsAreTight
<1>1. FallbackLimit(s, target).meets_configured <=> MeetsTarget(s, target)
  BY RunIsPriced, FallbackLimitTight
<1>2. ASSUME NEW fixed \in 0 .. 1, NEW percent \in 0 .. 3
      PROVE  LET limit == ActiveLimit(s, target, 1, fixed, 2)
             IN  (limit.feasible /\ percent * limit.den <= limit.num)
                  <=> MeetsTarget([s EXCEPT !.oracle_ms = 1 + fixed + 2 * percent], target)
  <2>1. fixed \in Nat /\ percent \in Nat
    OBVIOUS
  <2> QED BY <2>1, ActiveLimitTight
<1> QED BY <1>1, <1>2 DEF LimitsAreTight

-----------------------------------------------------------------------------
(* The scenarios of a shortlist.                                              *)
Kind == [kind : {"exact", "sparse_replay", "sparse_gpu"}, ms : Nat \ {0}]

(* Every kind of fallback takes time.                                         *)
LEMMA KindsTyped ==
    ASSUME NEW sparse, sparse.component_ms \in Nat, sparse.pcie_ms \in Nat, sparse.kernel_ms \in Nat,
           NEW exact \in Nat \ {0}
    PROVE  FallbackKinds(sparse, exact) \in Seq(Kind)
<1> DEFINE measured(kind, ms) == IF ms > 0 THEN << [kind |-> kind, ms |-> ms] >> ELSE <<>>
           gpu == sparse.pcie_ms + sparse.kernel_ms
<1>1. << [kind |-> "exact", ms |-> exact] >> \in Seq(Kind)
  BY DEF Kind
<1>2. \A kind \in {"sparse_replay", "sparse_gpu"}, ms \in Nat : measured(kind, ms) \in Seq(Kind)
  <2>1. \A kind \in {"sparse_replay", "sparse_gpu"}, ms \in Nat : ms > 0 => << [kind |-> kind, ms |-> ms] >> \in Seq(Kind)
    BY DEF Kind
  <2> QED BY <2>1, EmptySeq
<1>3. gpu \in Nat
  OBVIOUS
<1> HIDE DEF measured, gpu
<1>4. FallbackKinds(sparse, exact)
         = << [kind |-> "exact", ms |-> exact] >> \o measured("sparse_replay", sparse.component_ms) \o measured("sparse_gpu", gpu)
  BY DEF FallbackKinds, measured, gpu
<1>5. measured("sparse_replay", sparse.component_ms) \in Seq(Kind) /\ measured("sparse_gpu", gpu) \in Seq(Kind)
  BY <1>2, <1>3
<1> QED BY <1>1, <1>4, <1>5, ConcatProperties

\* Every scenario of a shortlist is priced, and calls the oracle as often as the shortlist misses.
LEMMA ShortlistPriced ==
    ASSUME NEW shortlist, NEW live, NEW proxy \in Nat, NEW sparse, NEW exact \in Nat \ {0},
           shortlist.tokens \in Nat \ {0}, shortlist.verifier_ms \in Nat, shortlist.fallbacks \in Nat,
           live.proxy_ms \in Nat,
           sparse.component_ms \in Nat, sparse.pcie_ms \in Nat, sparse.kernel_ms \in Nat
    PROVE  \A k \in DOMAIN ShortlistScenarios(shortlist, live, proxy, sparse, exact) :
              LET s == ShortlistScenarios(shortlist, live, proxy, sparse, exact)[k]
              IN  Priced(s) /\ s.oracle_calls = shortlist.fallbacks
<1> DEFINE kinds == FallbackKinds(sparse, exact)
           scenario(label, ms, i) ==
               Scenario(<<label, kinds[i].kind>>, shortlist.tokens, ms,
                        [calls |-> shortlist.tokens, ms |-> shortlist.verifier_ms],
                        [calls |-> shortlist.fallbacks, ms |-> kinds[i].ms], 0)
           of(label, ms) == [i \in DOMAIN kinds |-> scenario(label, ms, i)]
           Every  == {scenario(l, ms, i) : l \in {"configured_proxy", "measured_proxy"}, ms \in Nat, i \in DOMAIN kinds}
           Good == {s \in Every : Priced(s) /\ s.oracle_calls = shortlist.fallbacks}
           measured == MeasuredProxy(live, proxy)
<1>1. kinds \in Seq(Kind) /\ DOMAIN kinds = 1 .. Len(kinds) /\ Len(kinds) \in Nat
  BY KindsTyped, LenProperties
<1>2. \A i \in DOMAIN kinds : kinds[i].ms \in Nat \ {0}
  <2> HIDE DEF kinds
  <2>1. \A i \in DOMAIN kinds : kinds[i] \in Kind
    BY <1>1, ElementOfSeq
  <2> QED BY <2>1 DEF Kind
<1> HIDE DEF kinds
<1>3. ASSUME NEW l \in {"configured_proxy", "measured_proxy"}, NEW ms \in Nat, NEW i \in DOMAIN kinds
      PROVE  scenario(l, ms, i) \in Good
  <2>1. Priced(scenario(l, ms, i)) /\ scenario(l, ms, i).oracle_calls = shortlist.fallbacks
    BY <1>2 DEF Scenario, Priced
  <2> HIDE DEF scenario
  <2> QED BY <2>1
<1> HIDE DEF Good
<1>4. \A l \in {"configured_proxy", "measured_proxy"}, ms \in Nat : of(l, ms) \in Seq(Good)
  <2> SUFFICES ASSUME NEW l \in {"configured_proxy", "measured_proxy"}, NEW ms \in Nat PROVE of(l, ms) \in Seq(Good)
    OBVIOUS
  <2>1. of(l, ms) \in [1 .. Len(kinds) -> Good]
    BY <1>1, <1>3
  <2> QED BY <1>1, <2>1, SeqDef
<1>5. measured \in Nat
  BY DEF MeasuredProxy
<1> HIDE DEF scenario, measured
<1>6. of("configured_proxy", proxy) \in Seq(Good) /\ of("measured_proxy", measured) \in Seq(Good)
  BY <1>4, <1>5
<1>7. ShortlistScenarios(shortlist, live, proxy, sparse, exact) = of("configured_proxy", proxy) \o of("measured_proxy", measured)
  BY DEF ShortlistScenarios, kinds, scenario, measured
<1> DEFINE all == of("configured_proxy", proxy) \o of("measured_proxy", measured)
<1>8. all \in Seq(Good)
  <2> HIDE DEF of
  <2> QED BY <1>6, ConcatProperties
<1> HIDE DEF all
<1>9. \A k \in DOMAIN all : all[k] \in Good
  BY <1>8, ElementOfSeq, LenProperties
<1>10. \A s \in Good : Priced(s) /\ s.oracle_calls = shortlist.fallbacks
  BY DEF Good
<1> QED BY <1>7, <1>9, <1>10 DEF all

(* No scenario of a shortlist that does meet the target is said to miss it,   *)
(* nor the other way round.                                                   *)
LEMMA ScenariosHold ==
    ASSUME NEW s \in PricedRun, NEW target \in Nat
    PROVE  ScenariosAreLimited(s, target)
<1> DEFINE sparse    == [component_ms |-> s.oracle_ms, pcie_ms |-> 1, kernel_ms |-> 0]
           live      == [proxy_ms |-> s.proxy_ms, elapsed_ms |-> s.oracle_ms, accounted_ms |-> 1]
           policy    == [tokens |-> s.tokens, proxy_ms |-> s.proxy_ms,
                         verifier |-> [calls |-> s.verifier_calls, ms |-> s.verifier_ms],
                         oracle |-> [calls |-> s.oracle_calls, ms |-> s.oracle_ms]]
           shortlist == [tokens |-> s.tokens, verifier_ms |-> s.verifier_ms, fallbacks |-> s.oracle_calls]
           scenarios == ShortlistScenarios(shortlist, live, 1, sparse, 5)
           limits    == ShortlistLimits(shortlist, live, 1, sparse, 5, <<target>>)
           base      == BaseScenarios(policy, live, ProxyTime(live, 1, TRUE))
<1>0. Priced(s)
  BY RunIsPriced
<1>1. ASSUME s.oracle_calls > 0, NEW k \in DOMAIN scenarios
      PROVE  limits[k][1].meets_configured <=> MeetsTarget(scenarios[k], target)
  <2>1. /\ shortlist.tokens \in Nat \ {0} /\ shortlist.verifier_ms \in Nat /\ shortlist.fallbacks \in Nat
        /\ shortlist.fallbacks > 0 /\ live.proxy_ms \in Nat
        /\ sparse.component_ms \in Nat /\ sparse.pcie_ms \in Nat /\ sparse.kernel_ms \in Nat
    BY <1>0, <1>1 DEF Priced
  <2>2. limits[k][1] = FallbackLimit(scenarios[k], target)
    <3> HIDE DEF shortlist, live, sparse
    <3> QED BY <1>1 DEF ShortlistLimits
  <2> HIDE DEF shortlist, live, sparse, limits
  <2>3. Priced(scenarios[k]) /\ scenarios[k].oracle_calls > 0
    BY <2>1, <1>1, ShortlistPriced
  <2> QED BY <2>2, <2>3, FallbackLimitTight
<1>2. ASSUME live.elapsed_ms > live.proxy_ms PROVE ScenarioTime(base[1]) = s.tokens * live.elapsed_ms
  <2>1. BeyondProxy(live.elapsed_ms, live.proxy_ms) = s.oracle_ms - s.proxy_ms
    BY <1>2 DEF BeyondProxy
  <2> DEFINE observed == Scenario("live_python_observed", s.tokens, s.proxy_ms, NoCalls, NoCalls, s.oracle_ms - s.proxy_ms)
  <2>2. base[1] = observed
    BY <2>1 DEF BaseScenarios
  <2>3. /\ observed.tokens = s.tokens /\ observed.proxy_ms = s.proxy_ms /\ observed.extra_ms = s.oracle_ms - s.proxy_ms
        /\ observed.verifier_calls = 0 /\ observed.verifier_ms = 0 /\ observed.oracle_calls = 0 /\ observed.oracle_ms = 0
    BY DEF Scenario, NoCalls
  <2> HIDE DEF observed
  <2>4. s.proxy_ms + (s.oracle_ms - s.proxy_ms) = s.oracle_ms /\ s.tokens * s.oracle_ms \in Nat
    BY <1>0, Product DEF Priced
  <2>5. ScenarioTime(observed) = s.tokens * s.oracle_ms
    BY <2>3, <2>4 DEF ScenarioTime
  <2> HIDE DEF base
  <2> QED BY <2>2, <2>5
<1>3. ASSUME live.proxy_ms > 0
      PROVE  ScenarioTime(base[3]) = ScenarioTime(base[4]) /\ ScenarioTime(base[4]) = ScenarioTime(base[5])
  <2>1. ProxyTime(live, 1, TRUE) = s.proxy_ms /\ MeasuredProxy(live, ProxyTime(live, 1, TRUE)) = s.proxy_ms
    BY <1>3 DEF ProxyTime, MeasuredProxy
  <2> DEFINE priced(name) == Scenario(name, s.tokens, s.proxy_ms, policy.verifier, policy.oracle, 0)
  <2>2. /\ base[3] = priced("persistent_active_byte_policy")
        /\ base[4] = priced("persistent_active_byte_measured_proxy")
        /\ base[5] = priced("persistent_active_byte_configured_proxy")
    BY <2>1 DEF BaseScenarios
  <2>3. \A n, m : ScenarioTime(priced(n)) = ScenarioTime(priced(m))
    BY DEF ScenarioTime, Scenario
  <2> QED BY <2>2, <2>3
<1>4. ActiveLimits(policy, live, ProxyTime(live, 1, TRUE), <<target, target + 1>>, 1, 0, 1)[1]
         = ActiveLimits(policy, live, ProxyTime(live, 1, FALSE), <<target, target + 1>>, 1, 0, 1)[1]
  <2>1. MeasuredProxy(live, ProxyTime(live, 1, TRUE)) = MeasuredProxy(live, ProxyTime(live, 1, FALSE))
    BY DEF MeasuredProxy, ProxyTime
  <2> HIDE DEF policy, live
  <2> QED BY <2>1 DEF ActiveLimits
<1> QED BY <1>1, <1>2, <1>3, <1>4 DEF ScenariosAreLimited

-----------------------------------------------------------------------------
(* The page cache of a target: with the bytes that may be active the target   *)
(* is met, with one more per token it is not.                                 *)
PageCacheIsEnough(s, target, n_bytes, complete) ==
    LET replay == [ms |-> s.oracle_ms, n_bytes |-> n_bytes, saves_host_read |-> complete, stage_byte_match |-> TRUE,
                   byte_budget_respected |-> TRUE, resident |-> TRUE, transformer |-> FALSE]
        budget == PageCacheBudget(s, replay, target, target + 2)
        others == s.tokens * s.proxy_ms + s.verifier_calls * s.verifier_ms
    IN  IF s.oracle_calls = 0 THEN budget = Failure
        ELSE /\ budget.measured_plan_meets_target <=> MeetsTarget(s, target) /\ complete
             /\ budget.reduction_target_identified =>
                   /\ n_bytes * others + s.oracle_calls * s.oracle_ms * budget.max_active_bytes
                         <= n_bytes * s.tokens * target
                   /\ budget.required_reduction > 0

LEMMA PageCacheHolds ==
    ASSUME NEW s \in PricedRun, NEW target \in Nat, NEW n_bytes \in Nat \ {0}, NEW complete \in BOOLEAN
    PROVE  PageCacheIsEnough(s, target, n_bytes, complete)
<1> DEFINE replay == [ms |-> s.oracle_ms, n_bytes |-> n_bytes, saves_host_read |-> complete, stage_byte_match |-> TRUE,
                      byte_budget_respected |-> TRUE, resident |-> TRUE, transformer |-> FALSE]
           budget == PageCacheBudget(s, replay, target, target + 2)
           others == s.tokens * s.proxy_ms + s.verifier_calls * s.verifier_ms
           most   == MaxActive(s, replay, target)
           den    == s.oracle_calls * s.oracle_ms
           room   == RoomForOracle(s, target)
           identified == /\ MeetsTarget(s, target + 2) /\ ~MeetsTarget(s, target)
                         /\ PageCacheEvidence(replay)
                         /\ most.num > 0 /\ most.num < n_bytes * most.den
           meets == MeetsTarget(s, target) /\ PageCacheEvidence(replay) /\ most.num >= n_bytes * most.den
<1>1. Priced(s) /\ s.oracle_ms > 0 /\ n_bytes > 0
  BY RunIsPriced DEF Priced
<1>2. [s EXCEPT !.oracle_ms = s.oracle_ms, !.extra_ms = 0] = s
  BY DEF PricedRun
<1>3. replay.ms = s.oracle_ms /\ replay.n_bytes = n_bytes
  OBVIOUS
<1>4. CASE s.oracle_calls = 0
  <2>1. s.oracle_calls <= 0 /\ replay.ms > 0 /\ replay.n_bytes > 0
    BY <1>1, <1>4
  <2>2. budget = Failure
    <3> HIDE DEF replay
    <3> QED BY <1>2, <1>3, <2>1, Zenon DEF PageCacheBudget
  <2> QED BY <1>4, <2>2 DEF PageCacheIsEnough
<1>5. CASE s.oracle_calls # 0
  <2>1. s.oracle_calls \in Nat /\ s.oracle_calls > 0 /\ ~(s.oracle_calls <= 0)
    BY <1>1, <1>5 DEF Priced
  <2>2. PageCacheEvidence(replay) <=> complete
    BY <1>1 DEF PageCacheEvidence
  <2>3. /\ ProxyPart(s) \in Nat /\ VerifierPart(s) \in Nat /\ OraclePart(s) \in Nat /\ Allowed(s, target) \in Nat
        /\ room = Allowed(s, target) - ProxyPart(s) - VerifierPart(s)
        /\ MeetsTarget(s, target) <=> ScenarioTime(s) > 0 /\ ScenarioTime(s) <= Allowed(s, target)
        /\ ScenarioTime(s) = ProxyPart(s) + VerifierPart(s) + OraclePart(s)
        /\ OraclePart(s) > 0
    BY <1>1, <2>1, ScenarioParts
  <2>4. den = OraclePart(s) /\ others = ProxyPart(s) + VerifierPart(s)
    BY DEF OraclePart, ProxyPart, VerifierPart
  <2>5. most = IF room > 0 THEN [num |-> room * n_bytes, den |-> den] ELSE [num |-> 0, den |-> 1]
    BY <1>1 DEF MaxActive
  <2>6. budget = [status |-> "budgeted", max_active |-> most,
                  max_active_bytes |-> most.num \div most.den,
                  required_reduction |-> NotNegative(n_bytes - most.num \div most.den),
                  reduction_target_identified |-> identified, measured_plan_meets_target |-> meets,
                  budget_target_passed |-> identified \/ meets]
    <3>1. ~(s.oracle_calls <= 0 /\ replay.ms > 0 /\ replay.n_bytes > 0)
      BY <2>1
    <3> HIDE DEF replay
    <3> QED BY <1>2, <1>3, <3>1, Zenon DEF PageCacheBudget
  <2>7. /\ budget.max_active_bytes = most.num \div most.den
        /\ budget.required_reduction = NotNegative(n_bytes - most.num \div most.den)
        /\ budget.reduction_target_identified <=> identified
        /\ budget.measured_plan_meets_target <=> meets
    <3> HIDE DEF budget, most, identified, meets
    <3> QED BY <2>6
  <2> HIDE DEF budget, replay, den, room, most
  <2>8. MeetsTarget(s, target) => most.num >= n_bytes * most.den
    <3> SUFFICES ASSUME MeetsTarget(s, target) PROVE most.num >= n_bytes * most.den
      OBVIOUS
    <3>1. room >= den /\ room > 0 /\ room \in Nat /\ den \in Nat
      BY <2>3, <2>4
    <3>2. room * n_bytes >= n_bytes * den
      <4>1. n_bytes * den <= n_bytes * room /\ n_bytes * room = room * n_bytes
        BY <3>1
      <4>2. n_bytes * den \in Nat /\ room * n_bytes \in Nat
        BY <3>1, Product
      <4> QED BY <4>1, <4>2
    <3> QED BY <2>5, <3>1, <3>2
  <2>9. budget.measured_plan_meets_target <=> MeetsTarget(s, target) /\ complete
    BY <2>2, <2>7, <2>8
  <2>10. ASSUME budget.reduction_target_identified
         PROVE  /\ n_bytes * others + s.oracle_calls * s.oracle_ms * budget.max_active_bytes <= n_bytes * s.tokens * target
                /\ budget.required_reduction > 0
    <3>1. most.num > 0 /\ most.num < n_bytes * most.den
      BY <2>7, <2>10
    <3>2. room > 0 /\ most = [num |-> room * n_bytes, den |-> den]
      BY <2>5, <3>1
    <3>3. room \in Nat /\ den \in Nat \ {0}
      BY <2>3, <2>4, <3>2
    <3> DEFINE num == room * n_bytes
               q == num \div den
    <3>4. num \in Nat /\ num < n_bytes * den
      BY <3>1, <3>2, <3>3, Product
    <3>5. most.num \div most.den = q
      BY <3>2
    <3>6. num = n_bytes * Allowed(s, target) - n_bytes * others
      <4>1. room * n_bytes = n_bytes * room /\ room = Allowed(s, target) - others /\ others \in Nat
        BY <2>3, <2>4, <3>3 DEF room
      <4> QED BY <4>1, <2>3
    <3> HIDE DEF num, q
    <3>7. q \in Nat /\ den * q <= num /\ q < n_bytes
      BY <3>3, <3>4, Quotient DEF q
    <3>8. n_bytes * Allowed(s, target) = n_bytes * s.tokens * target
      BY <1>1 DEF Allowed, Priced
    <3>9. den * q \in Nat /\ n_bytes * others \in Nat /\ n_bytes * Allowed(s, target) \in Nat
      BY <2>3, <2>4, <3>3, <3>7, Product
    <3>10. n_bytes * others + den * q <= n_bytes * s.tokens * target
      <4>1. n_bytes * others + den * q <= n_bytes * Allowed(s, target)
        BY <3>4, <3>6, <3>7, <3>9
      <4> QED BY <4>1, <3>8
    <3>11. budget.max_active_bytes = q /\ budget.required_reduction = n_bytes - q
      BY <2>7, <3>5, <3>7 DEF NotNegative
    <3> QED BY <3>7, <3>10, <3>11 DEF den
  <2> QED BY <1>5, <2>9, <2>10 DEF PageCacheIsEnough, budget, replay
<1> QED BY <1>4, <1>5

(* The percentage of the oracle that a share of the time pays for.            *)
ComputeIsEnough(s, target, fraction, percents) ==
    LET o == [tokens |-> s.tokens, proxy_ms |-> s.proxy_ms, target_ms |-> target, compute_ms |-> 1, fixed_ms |-> 0,
              ms_per_percent |-> 2, dense_bytes |-> 1, overhead_bytes |-> 0, kv_bytes |-> 0, vram_bytes |-> 1]
        budget == ComputeBudget(o, s.oracle_calls, fraction)
        rest   == s.tokens * s.proxy_ms + s.oracle_calls
        allowed == {percent \in percents : percent * budget.max_active.den <= budget.max_active.num}
    IN  budget # Failure /\ 100 * rest <= (100 - fraction) * s.tokens * target
           => \A row \in SimulateRows(o, {s.oracle_calls}, allowed) : row.meets_target

LEMMA ComputeHolds ==
    ASSUME NEW s \in PricedRun, NEW target \in Nat, NEW fraction \in 0 .. 100, NEW percents, percents \subseteq Nat
    PROVE  ComputeIsEnough(s, target, fraction, percents)
<1> DEFINE o == [tokens |-> s.tokens, proxy_ms |-> s.proxy_ms, target_ms |-> target, compute_ms |-> 1, fixed_ms |-> 0,
                 ms_per_percent |-> 2, dense_bytes |-> 1, overhead_bytes |-> 0, kv_bytes |-> 0, vram_bytes |-> 1]
           calls  == s.oracle_calls
           budget == ComputeBudget(o, calls, fraction)
           rest   == s.tokens * s.proxy_ms + calls
           allowed == {percent \in percents : percent * budget.max_active.den <= budget.max_active.num}
<1> SUFFICES ASSUME budget # Failure, 100 * rest <= (100 - fraction) * s.tokens * target,
                    NEW row \in SimulateRows(o, {calls}, allowed)
             PROVE  row.meets_target
  BY DEF ComputeIsEnough
<1>1. Priced(s) /\ calls \in Nat
  BY RunIsPriced DEF Priced
<1>2. budget.max_active = [num |-> s.tokens * target * fraction, den |-> 100 * calls * 2]
  <2>1. ~(calls <= 0 \/ calls > o.tokens \/ fraction <= 0 \/ fraction > 100)
    <3> HIDE DEF o, calls
    <3> QED BY Zenon DEF ComputeBudget
  <2>2. budget = [status |-> "budgeted",
                  max_active |-> [num |-> o.tokens * o.target_ms * fraction, den |-> 100 * calls * o.ms_per_percent],
                  dense_streaming_meets_target |-> 100 * o.ms_per_percent <= o.target_ms,
                  dense_weights_fit |-> o.dense_bytes + o.overhead_bytes + o.kv_bytes <= o.vram_bytes]
    <3> HIDE DEF o, calls
    <3> QED BY <2>1, Zenon DEF ComputeBudget
  <2>3. o.tokens = s.tokens /\ o.target_ms = target /\ o.ms_per_percent = 2
    OBVIOUS
  <2> HIDE DEF o, budget
  <2> QED BY <2>2, <2>3
<1>3. PICK percent \in allowed : row = SimulateRow(o, calls, percent)
  <2> HIDE DEF o, allowed, calls
  <2> QED BY DEF SimulateRows
<1>4. percent \in Nat /\ percent * (100 * calls * 2) <= s.tokens * target * fraction
  BY <1>2, <1>3
<1> DEFINE A == s.tokens * s.proxy_ms
           B == s.tokens * target
           C == calls * (percent * 2)
<1>5. A \in Nat /\ B \in Nat /\ C \in Nat
  BY <1>1, <1>4, Product DEF Priced
<1>6. percent * (100 * calls * 2) = 100 * C
  BY <1>1, <1>4
<1>7. (100 - fraction) * s.tokens * target = (100 - fraction) * B
  BY <1>1 DEF Priced
<1>8. (100 - fraction) * B = 100 * B - B * fraction /\ B * fraction \in Nat
  BY <1>5, Product
<1>9. row.meets_target <=> A + calls * (percent * 2 + 1 + 0) <= B
  BY <1>3 DEF SimulateRow
<1>10. calls * (percent * 2 + 1 + 0) = C + calls
  BY <1>1, <1>4
<1>11. 100 * (A + calls) <= (100 - fraction) * B
  BY <1>7
<1> HIDE DEF A, B, C, budget, o
<1>12. 100 * C <= B * fraction
  BY <1>4, <1>6 DEF B
<1>13. A + (C + calls) <= B
  BY <1>1, <1>5, <1>8, <1>11, <1>12
<1> QED BY <1>9, <1>10, <1>13

(* The budgets of a scenario are those of its pages and of its oracle's time. *)
LEMMA BudgetsHold ==
    ASSUME NEW s \in PricedRun, NEW target \in Nat
    PROVE  BudgetsSuffice(s, target)
<1>1. \A n_bytes \in {1, 3} : n_bytes \in Nat \ {0}
  OBVIOUS
<1>2. \A fraction \in {0, 40, 100} : fraction \in 0 .. 100
  OBVIOUS
<1>3. 0 .. 3 \subseteq Nat
  OBVIOUS
<1>4. \A n_bytes \in {1, 3}, complete \in BOOLEAN : PageCacheIsEnough(s, target, n_bytes, complete)
  BY <1>1, PageCacheHolds
<1>5. \A fraction \in {0, 40, 100} : ComputeIsEnough(s, target, fraction, 0 .. 3)
  BY <1>2, <1>3, ComputeHolds
<1> QED BY <1>4, <1>5 DEF BudgetsSuffice, PageCacheIsEnough, ComputeIsEnough

-----------------------------------------------------------------------------
(* What must be hidden, or taken off the proxy, is what exceeds the target.   *)
LEMMA OverlapHolds ==
    ASSUME NEW s \in PricedRun, NEW target \in Nat
    PROVE  OverlapSuffices(s, target)
<1> DEFINE sparse == [pcie_ms |-> 1, kernel_ms |-> 1, component_replay_complete |-> TRUE, transformer_integrated |-> FALSE]
           every  == [s EXCEPT !.verifier_calls = s.tokens]
           full   == [every EXCEPT !.oracle_ms = s.oracle_ms + 1]
           budget == OverlapBudget(full, every, sparse, target, [floor_ms |-> target + 3, max_proxy_reduction_ms |-> 2])
<1> SUFFICES ASSUME budget.overlap_target_passed, s.oracle_calls > 0
             PROVE  /\ ScenarioTime(every) - budget.required_hidden_ms = s.tokens * target
                    /\ ScenarioTime(every) - budget.required_proxy_ms = s.tokens * target
  BY DEF OverlapSuffices
<1>1. Priced(s)
  BY RunIsPriced
<1>2. /\ every.tokens = s.tokens /\ every.proxy_ms = s.proxy_ms /\ every.verifier_calls = s.tokens
      /\ every.verifier_ms = s.verifier_ms /\ every.oracle_calls = s.oracle_calls /\ every.oracle_ms = s.oracle_ms
      /\ every.extra_ms = s.extra_ms
  BY DEF PricedRun
<1>3. Priced(every)
  BY <1>1, <1>2 DEF Priced
<1>4. /\ budget.required_hidden_ms = HiddenTime(every, target)
      /\ budget.required_proxy_ms = ProxyReduction(every, target)
      /\ HiddenTime(every, target) > 0
  <2> HIDE DEF every, full, sparse
  <2> QED BY DEF OverlapBudget
<1> HIDE DEF every, budget
<1>5. /\ ProxyPart(every) \in Nat /\ VerifierPart(every) \in Nat /\ OraclePart(every) \in Nat /\ Allowed(every, target) \in Nat
      /\ RoomForOracle(every, target) = Allowed(every, target) - ProxyPart(every) - VerifierPart(every)
      /\ ScenarioTime(every) = ProxyPart(every) + VerifierPart(every) + OraclePart(every)
  BY <1>3, ScenarioParts
<1>6. Allowed(every, target) = s.tokens * target
  BY <1>2 DEF Allowed
<1>7. HiddenTime(every, target) = ScenarioTime(every) - Allowed(every, target)
  <2>1. HiddenTime(every, target) = NotNegative(OraclePart(every) - RoomForOracle(every, target))
    BY <1>2 DEF HiddenTime, OraclePart
  <2> QED BY <1>4, <1>5, <2>1 DEF NotNegative
<1>8. ProxyReduction(every, target) = ScenarioTime(every) - Allowed(every, target)
  <2>1. ProxyReduction(every, target)
           = NotNegative(ProxyPart(every) - (Allowed(every, target) - VerifierPart(every) - OraclePart(every)))
    BY <1>2 DEF ProxyReduction, ProxyPart, VerifierPart, OraclePart, Allowed
  <2> QED BY <1>4, <1>5, <1>7, <2>1 DEF NotNegative
<1> QED BY <1>4, <1>5, <1>6, <1>7, <1>8

-----------------------------------------------------------------------------
(* Two runs of equal steps are reported as one run of all of them.            *)
EqualSteps(n, step) == TimeTotals([k \in 1 .. n |-> StepTiming(step)], n * step.step_ms, "passed")

(* The totals of so many equal steps, and of two steps.                       *)
LEMMA RunTotals ==
    ASSUME NEW a \in Nat, NEW b \in Nat, NEW c \in Nat, NEW d \in Nat, NEW n \in Nat
    PROVE  EqualSteps(n, [proxy_ms |-> a, verifier_ms |-> b, oracle_ms |-> c, step_ms |-> d])
               = [steps |-> n, elapsed_ms |-> n * d, accounted_ms |-> n * (a + b + c),
                        overhead_ms |-> NotNegative(n * d - n * (a + b + c)), compare_pass |-> "passed"]
<1> DEFINE step == [proxy_ms |-> a, verifier_ms |-> b, oracle_ms |-> c, step_ms |-> d]
           timing == StepTiming(step)
           timings == [k \in 1 .. n |-> timing]
           g == [k \in DOMAIN timings |-> timings[k].proxy_ms + timings[k].verifier_ms + timings[k].oracle_ms]
<1>1. timing.proxy_ms = a /\ timing.verifier_ms = b /\ timing.oracle_ms = c
  BY DEF StepTiming
<1> HIDE DEF timing
<1>2. DOMAIN timings = 1 .. n /\ Len(timings) = n
  <2>1. timings \in Seq({timing})
    BY IsASeq
  <2> QED BY <2>1, LenProperties
<1>3. \A k \in 1 .. n : g[k] = a + b + c
  BY <1>1, <1>2
<1>4. SumOver(g, DOMAIN timings) = n * (a + b + c)
  <2> HIDE DEF g, timings
  <2> QED BY <1>2, <1>3, SumConstant
<1>5. TimeTotals(timings, n * d, "passed")
        = [steps |-> n, elapsed_ms |-> n * d, accounted_ms |-> n * (a + b + c),
           overhead_ms |-> NotNegative(n * d - n * (a + b + c)), compare_pass |-> "passed"]
  <2>1. TimeTotals(timings, n * d, "passed")
          = [steps |-> Len(timings), elapsed_ms |-> n * d, accounted_ms |-> SumOver(g, DOMAIN timings),
             overhead_ms |-> NotNegative(n * d - SumOver(g, DOMAIN timings)), compare_pass |-> "passed"]
    <3> HIDE DEF timings
    <3> QED BY Zenon DEF TimeTotals, SumOf
  <2> QED BY <1>2, <1>4, <2>1
<1> QED BY <1>5 DEF EqualSteps, timing

LEMMA TotalOfTwo ==
    ASSUME NEW runs, DOMAIN runs = 1 .. 2,
           \A k \in 1 .. 2 : runs[k].steps \in Int /\ runs[k].elapsed_ms \in Int /\ runs[k].accounted_ms \in Int
    PROVE  LET elapsed == runs[1].elapsed_ms + runs[2].elapsed_ms
               accounted == runs[1].accounted_ms + runs[2].accounted_ms
           IN  CombineRuns(runs) = [steps |-> runs[1].steps + runs[2].steps, elapsed_ms |-> elapsed, accounted_ms |-> accounted,
                                    overhead_ms |-> NotNegative(elapsed - accounted),
                                    all_compares_passed |-> \A i \in 1 .. 2 : runs[i].compare_pass # "failed"]
<1> DEFINE e == [i \in DOMAIN runs |-> runs[i].elapsed_ms]
           a == [i \in DOMAIN runs |-> runs[i].accounted_ms]
           n == [i \in DOMAIN runs |-> runs[i].steps]
<1>1. 1 \in 1 .. 2 /\ 2 \in 1 .. 2
  OBVIOUS
<1>2. e[1] = runs[1].elapsed_ms /\ e[2] = runs[2].elapsed_ms /\ a[1] = runs[1].accounted_ms /\ a[2] = runs[2].accounted_ms
      /\ n[1] = runs[1].steps /\ n[2] = runs[2].steps
  BY <1>1
<1>3. CombineRuns(runs) = [steps |-> SumOver(n, 1 .. 2), elapsed_ms |-> SumOver(e, 1 .. 2), accounted_ms |-> SumOver(a, 1 .. 2),
                           overhead_ms |-> NotNegative(SumOver(e, 1 .. 2) - SumOver(a, 1 .. 2)),
                           all_compares_passed |-> \A i \in 1 .. 2 : runs[i].compare_pass # "failed"]
  BY Zenon DEF CombineRuns, SumOf
<1> HIDE DEF e, a, n
<1>4. SumOver(e, 1 .. 2) = e[1] + e[2] /\ SumOver(a, 1 .. 2) = a[1] + a[2] /\ SumOver(n, 1 .. 2) = n[1] + n[2]
  BY <1>1, <1>2, SumOfTwo
<1> QED BY <1>2, <1>3, <1>4

(* A measured run projects to the time it took.                               *)
LEMMA TimesHold ==
    ASSUME NEW s \in PricedRun, NEW target \in Nat
    PROVE  TimesAddUp(s, target)
<1> DEFINE a == s.proxy_ms
           b == s.verifier_ms
           c == s.oracle_ms
           step == [proxy_ms |-> a, verifier_ms |-> b, oracle_ms |-> c, step_ms |-> target]
           total(n) == [steps |-> n, elapsed_ms |-> n * target, accounted_ms |-> n * (a + b + c),
                        overhead_ms |-> NotNegative(n * target - n * (a + b + c)), compare_pass |-> "passed"]
           run(n) == TimeTotals([k \in 1 .. n |-> StepTiming(step)], n * target, "passed")
           u == s.verifier_calls
           v == s.oracle_calls
           runs == << run(u), run(v) >>
           both == CombineRuns(runs)
           one == run(u + v)
<1>1. a \in Nat /\ b \in Nat /\ c \in Nat /\ u \in Nat /\ v \in Nat /\ u + v \in Nat
  BY DEF PricedRun
<1> HIDE DEF a, b, c, u, v
<1>2. run(u) = total(u) /\ run(v) = total(v) /\ one = total(u + v)
  <2>1. \A n \in Nat : EqualSteps(n, step) = total(n)
    BY <1>1, RunTotals
  <2>2. \A n : run(n) = EqualSteps(n, step)
    BY DEF EqualSteps
  <2> QED BY <1>1, <2>1, <2>2
<1> DEFINE w == a + b + c
<1>3. /\ w \in Nat
      /\ u * target \in Nat /\ v * target \in Nat /\ u * w \in Nat /\ v * w \in Nat
      /\ (u + v) * target = u * target + v * target /\ (u + v) * w = u * w + v * w
  <2>1. w \in Nat
    BY <1>1
  <2> HIDE DEF w
  <2> QED BY <1>1, <2>1, Product
<1>4. StepTiming(step).overhead_ms = NotNegative(target - w)
  BY DEF StepTiming
<1> HIDE DEF w
<1>5. total(u).steps = u /\ total(v).steps = v /\ total(u).elapsed_ms = u * target /\ total(v).elapsed_ms = v * target
      /\ total(u).accounted_ms = u * w /\ total(v).accounted_ms = v * w
      /\ total(u).compare_pass = "passed" /\ total(v).compare_pass = "passed"
  BY DEF w
<1>6. runs[1] = total(u) /\ runs[2] = total(v) /\ DOMAIN runs = 1 .. 2
  BY <1>2
<1>7. both = [steps |-> u + v, elapsed_ms |-> u * target + v * target, accounted_ms |-> u * w + v * w,
              overhead_ms |-> NotNegative(u * target + v * target - (u * w + v * w)),
              all_compares_passed |-> \A i \in 1 .. 2 : runs[i].compare_pass # "failed"]
  <2> HIDE DEF runs, total
  <2>1. \A k \in 1 .. 2 : runs[k].steps \in Int /\ runs[k].elapsed_ms \in Int /\ runs[k].accounted_ms \in Int
    <3>1. \A k \in 1 .. 2 : k = 1 \/ k = 2
      OBVIOUS
    <3> QED BY <1>1, <1>3, <1>5, <1>6, <3>1
  <2> QED BY <1>5, <1>6, <2>1, TotalOfTwo
<1>8. \A i \in 1 .. 2 : runs[i].compare_pass # "failed"
  <2> HIDE DEF runs, total
  <2>1. \A k \in 1 .. 2 : k = 1 \/ k = 2
    OBVIOUS
  <2> QED BY <1>5, <1>6, <2>1
<1>9. one = [steps |-> u + v, elapsed_ms |-> (u + v) * target, accounted_ms |-> (u + v) * w,
             overhead_ms |-> NotNegative((u + v) * target - (u + v) * w), compare_pass |-> "passed"]
  BY <1>2 DEF w
<1>10. NotNegative((u + v) * target - (u + v) * w) = (u + v) * NotNegative(target - w)
  <2>1. (u + v) * target - (u + v) * w = (u + v) * (target - w)
    BY <1>1, <1>3
  <2>2. CASE target > w
    <3>1. target - w \in Nat /\ (u + v) * (target - w) \in Nat
      BY <1>1, <1>3, <2>2, Product
    <3> QED BY <2>1, <2>2, <3>1, <1>3 DEF NotNegative
  <2>3. CASE ~(target > w)
    <3>1. (u + v) * target <= (u + v) * w
      BY <1>1, <1>3, <2>3
    <3>2. (u + v) * 0 = 0
      BY <1>1
    <3> DEFINE p == (u + v) * target
               q == (u + v) * w
    <3>3. p \in Nat /\ q \in Nat /\ p <= q
      BY <1>3, <3>1
    <3> HIDE DEF p, q
    <3>4. NotNegative(p - q) = 0
      BY <3>3 DEF NotNegative
    <3>5. NotNegative(target - w) = 0
      BY <1>3, <2>3 DEF NotNegative
    <3> QED BY <3>2, <3>4, <3>5 DEF p, q
  <2> QED BY <2>2, <2>3
<1> HIDE DEF both, one, runs, total, run
<1>11. \A f \in {"steps", "elapsed_ms", "accounted_ms", "overhead_ms"} : both[f] = one[f]
  <2>1. both.steps = one.steps /\ both.elapsed_ms = one.elapsed_ms /\ both.accounted_ms = one.accounted_ms
        /\ both.overhead_ms = one.overhead_ms
    BY <1>3, <1>7, <1>9
  <2> QED BY <2>1
<1>12. one.overhead_ms = one.steps * StepTiming(step).overhead_ms
  BY <1>4, <1>9, <1>10
<1>13. both.all_compares_passed
  BY <1>7, <1>8
<1> QED BY <1>11, <1>12, <1>13 DEF TimesAddUp, both, one, runs, run, a, b, c, u, v

-----------------------------------------------------------------------------
(* What is chosen for the projections is a scenario with a fallback that takes*)
(* time.                                                                      *)
InputIsPriced == input.tool = "projection" => input.s \in PricedRun /\ input.target \in Nat

LEMMA ScenarioIsPriced ==
    ASSUME NEW proxy \in Nat, NEW verifier \in Nat, NEW oracle \in Nat \ {0}, NEW calls \in Nat, NEW asked \in Nat
    PROVE  Scenario("run", 2, proxy, [calls |-> asked, ms |-> verifier], [calls |-> calls, ms |-> oracle], 0) \in PricedRun
BY DEF Scenario, PricedRun

-----------------------------------------------------------------------------
(* Fractions.  The greatest common divisor is computed by recursion on the    *)
(* smaller number; what recursion defines exists, since the largest common    *)
(* divisor is such a function.                                                *)
Divides(d, n) == \E q \in Nat : n = d * q
Common(a, b)  == {d \in Nat \ {0} : Divides(d, a) /\ Divides(d, b)}
Largest       == [b \in Nat |-> [a \in Nat |-> IF a = 0 /\ b = 0 THEN 0 ELSE Max(Common(a, b))]]
IsGcd(g)      == g = [b \in Nat |-> [a \in Nat |-> IF b = 0 THEN a ELSE g[a % b][b]]]

(* A common divisor of two numbers divides their sum, and a rest.             *)
LEMMA SumDivides ==
    ASSUME NEW d \in Nat \ {0}, NEW b \in Nat, NEW r \in Nat, NEW q \in Nat, Divides(d, b), Divides(d, r)
    PROVE  Divides(d, b * q + r)
<1>1. PICK x \in Nat : b = d * x
  BY DEF Divides
<1>2. PICK y \in Nat : r = d * y
  BY DEF Divides
<1>3. b * q + r = d * (x * q + y)
  <2>1. b * q = d * (x * q)
    BY <1>1
  <2>2. x * q \in Nat
    BY Product
  <2> DEFINE xq == x * q
  <2> HIDE DEF xq
  <2>3. d * xq + d * y = d * (xq + y)
    BY <2>2 DEF xq
  <2> QED BY <1>2, <2>1, <2>3 DEF xq
<1>4. x * q + y \in Nat
  BY Product
<1> QED BY <1>3, <1>4 DEF Divides

LEMMA RestDivides ==
    ASSUME NEW d \in Nat \ {0}, NEW b \in Nat, NEW r \in Nat, NEW q \in Nat, Divides(d, b), Divides(d, b * q + r)
    PROVE  Divides(d, r)
<1>1. PICK x \in Nat : b = d * x
  BY DEF Divides
<1>2. PICK y \in Nat : b * q + r = d * y
  BY DEF Divides
<1> DEFINE xq == x * q
<1>3. xq \in Nat /\ b * q = d * xq
  BY <1>1, Product
<1> HIDE DEF xq
<1>4. r = d * (y - xq)
  <2>1. d * (y - xq) = d * y - d * xq
    BY <1>3
  <2>2. d * y \in Nat /\ d * xq \in Nat
    BY <1>3, Product
  <2>3. b * q \in Nat
    BY Product
  <2> QED BY <1>2, <1>3, <2>1, <2>2, <2>3
<1>5. y - xq >= 0
  <2>1. CASE y < xq
    <3>1. y - xq <= -1 /\ y - xq \in Int
      BY <1>3, <2>1
    <3>2. d * (y - xq) <= d * (-1)
      BY <3>1
    <3> QED BY <1>4, <3>2
  <2> QED BY <2>1, <1>3
<1>6. y - xq \in Nat
  BY <1>3, <1>5
<1> QED BY <1>4, <1>6 DEF Divides

LEMMA CommonFalls ==
    ASSUME NEW a \in Nat, NEW b \in Nat \ {0}
    PROVE  Common(a, b) = Common(b, a % b)
<1> DEFINE q == a \div b
           r == a % b
<1>1. q \in Nat /\ r \in Nat /\ a = b * q + r
  <2>1. a % b \in 0 .. b - 1 /\ a \div b \in Nat
    OBVIOUS
  <2> QED BY <2>1, Division
<1> HIDE DEF q, r
<1>2. ASSUME NEW d \in Nat \ {0}, Divides(d, b) PROVE Divides(d, a) <=> Divides(d, r)
  BY <1>1, <1>2, SumDivides, RestDivides
<1>3. Common(a, b) = Common(b, r)
  BY <1>2 DEF Common
<1> QED BY <1>3 DEF r

LEMMA CommonIsFinite ==
    ASSUME NEW a \in Nat, NEW b \in Nat, a # 0 \/ b # 0
    PROVE  IsFiniteSet(Common(a, b)) /\ Common(a, b) \subseteq Int /\ Common(a, b) # {}
<1>1. 1 \in Common(a, b)
  <2>1. a = 1 * a /\ b = 1 * b
    OBVIOUS
  <2> QED BY <2>1 DEF Common, Divides
<1>2. ASSUME NEW d \in Nat \ {0}, NEW n \in Nat \ {0}, Divides(d, n) PROVE d <= n
  <2>1. PICK x \in Nat : n = d * x
    BY <1>2 DEF Divides
  <2>2. x >= 1
    BY <2>1
  <2>3. d * 1 <= d * x
    BY <2>2
  <2> QED BY <2>1, <2>3
<1>3. Common(a, b) \subseteq 0 .. a + b
  BY <1>2 DEF Common
<1>4. IsFiniteSet(0 .. a + b)
  BY FS_Interval
<1> QED BY <1>1, <1>3, <1>4, FS_Subset

(* The largest common divisor satisfies the recursion that defines Gcd, and   *)
(* so Gcd does.                                                               *)
LEMMA LargestIsGcd == IsGcd(Largest)
<1>1. ASSUME NEW a \in Nat, NEW b \in Nat \ {0}
      PROVE  Largest[b][a] = Largest[a % b][b]
  <2>1. a % b \in Nat
    OBVIOUS
  <2> DEFINE r == a % b
  <2> HIDE DEF r
  <2>2. Largest[b][a] = Max(Common(a, b)) /\ Largest[r][b] = Max(Common(b, r))
    BY <2>1 DEF Largest, r
  <2>3. Common(a, b) = Common(b, r)
    BY CommonFalls DEF r
  <2> QED BY <2>2, <2>3 DEF r
<1>2. ASSUME NEW a \in Nat PROVE Largest[0][a] = a
  <2>1. CASE a = 0
    BY <2>1 DEF Largest
  <2>2. CASE a # 0
    <3>1. Largest[0][a] = Max(Common(a, 0))
      BY <2>2 DEF Largest
    <3>2. a \in Common(a, 0)
      <4>1. a = a * 1 /\ 0 = a * 0
        OBVIOUS
      <4> QED BY <2>2, <4>1 DEF Common, Divides
    <3>3. \A d \in Common(a, 0) : d <= a
      <4> SUFFICES ASSUME NEW d \in Nat \ {0}, NEW x \in Nat, a = d * x PROVE d <= a
        BY DEF Common, Divides
      <4>1. x >= 1
        BY <2>2
      <4>2. d * 1 <= d * x
        BY <4>1
      <4> QED BY <4>2
    <3>4. Max(Common(a, 0)) \in Common(a, 0) /\ a <= Max(Common(a, 0))
      BY <2>2, <3>2, CommonIsFinite, LargestElement
    <3>5. Max(Common(a, 0)) <= a /\ Max(Common(a, 0)) \in Nat
      BY <3>3, <3>4 DEF Common
    <3> QED BY <3>1, <3>4, <3>5
  <2> QED BY <2>1, <2>2
<1>3. \A b \in Nat : Largest[b] = [a \in Nat |-> IF b = 0 THEN a ELSE Largest[a % b][b]]
  <2> SUFFICES ASSUME NEW b \in Nat PROVE Largest[b] = [a \in Nat |-> IF b = 0 THEN a ELSE Largest[a % b][b]]
    OBVIOUS
  <2>1. Largest[b] = [a \in Nat |-> Largest[b][a]]
    BY DEF Largest
  <2>2. \A a \in Nat : Largest[b][a] = IF b = 0 THEN a ELSE Largest[a % b][b]
    BY <1>1, <1>2
  <2> HIDE DEF Largest
  <2> QED BY <2>1, <2>2
<1>4. Largest = [b \in Nat |-> Largest[b]]
  BY DEF Largest
<1> HIDE DEF Largest
<1> QED BY <1>3, <1>4 DEF IsGcd

LEMMA GcdIsGcd == IsGcd(Gcd)
<1>1. Gcd = CHOOSE g : IsGcd(g)
  BY DEF Gcd, IsGcd
<1>2. \E g : IsGcd(g)
  BY LargestIsGcd
<1> QED BY <1>1, <1>2

(* It divides both, and is none only of nothing and nothing.                  *)
LEMMA GcdDivides ==
    ASSUME NEW a0 \in Nat, NEW b0 \in Nat
    PROVE  /\ Gcd[b0][a0] \in Nat /\ (a0 # 0 \/ b0 # 0 => Gcd[b0][a0] # 0)
           /\ (a0 # 0 \/ b0 # 0 => Divides(Gcd[b0][a0], a0) /\ Divides(Gcd[b0][a0], b0))
<1> DEFINE Good(a, b) == /\ Gcd[b][a] \in Nat /\ (a # 0 \/ b # 0 => Gcd[b][a] # 0)
                         /\ (a # 0 \/ b # 0 => Divides(Gcd[b][a], a) /\ Divides(Gcd[b][a], b))
           T == {n \in Nat : \A b \in 0 .. n, a \in Nat : Good(a, b)}
<1>0. \A a \in Nat, b \in Nat : Gcd[b][a] = IF b = 0 THEN a ELSE Gcd[a % b][b]
  <2>1. \A b \in Nat : Gcd[b] = [a \in Nat |-> IF b = 0 THEN a ELSE Gcd[a % b][b]]
    BY GcdIsGcd DEF IsGcd
  <2> QED BY <2>1
<1>1. \A a \in Nat : Good(a, 0)
  <2> TAKE a \in Nat
  <2>1. Gcd[0][a] = a
    BY <1>0
  <2>2. a = a * 1 /\ 0 = a * 0
    OBVIOUS
  <2> QED BY <2>1, <2>2 DEF Divides
<1>2. ASSUME NEW n \in Nat, n \in T PROVE n + 1 \in T
  <2> DEFINE b == n + 1
  <2>1. ASSUME NEW a \in Nat PROVE Good(a, b)
    <3> DEFINE r == a % b
               q == a \div b
               g == Gcd[r][b]
    <3>1. r \in 0 .. n /\ b \in Nat \ {0} /\ r \in Nat
      OBVIOUS
    <3>2. q \in Nat /\ a = b * q + r
      <4>1. a \div b \in Nat /\ b > 0 /\ b \in Nat
        OBVIOUS
      <4> HIDE DEF b
      <4> QED BY <4>1, Division
    <3>3. Gcd[b][a] = g
      BY <1>0, <3>1
    <3> HIDE DEF r, q, b
    <3>4. Good(b, r)
      BY <1>2, <3>1
    <3>5. g \in Nat \ {0} /\ Divides(g, b) /\ Divides(g, r)
      BY <3>1, <3>4
    <3> HIDE DEF g
    <3>6. Divides(g, a)
      BY <3>1, <3>2, <3>5, SumDivides
    <3> QED BY <3>3, <3>5, <3>6
  <2>2. \A m \in 0 .. n + 1 : m \in 0 .. n \/ m = b
    OBVIOUS
  <2> HIDE DEF b, Good
  <2> QED BY <1>2, <2>1, <2>2
<1>3. 0 \in T
  <2> HIDE DEF Good
  <2>1. \A b \in 0 .. 0 : b = 0
    OBVIOUS
  <2> QED BY <1>1, <2>1
<1>4. \A n \in Nat : n \in T
  <2> HIDE DEF T
  <2> QED BY <1>2, <1>3, AllOfNat
<1>5. Good(a0, b0)
  <2> HIDE DEF Good
  <2>1. b0 \in T /\ b0 \in 0 .. b0
    BY <1>4
  <2> QED BY <2>1
<1> QED BY <1>5

-----------------------------------------------------------------------------
(* The value of a fraction: f is n parts of which d are one.                  *)
Rational == [num : Int, den : Nat \ {0}]
Is(f, n, d) == f \in Rational /\ f.num * d = n * f.den

LEMMA Multiply == \A a \in Int, b \in Int : a * b \in Int
OBVIOUS

(* A positive factor may be cancelled.                                        *)
LEMMA Cancel ==
    ASSUME NEW a \in Int, NEW b \in Int, NEW d \in Nat \ {0}
    PROVE  (a * d <= b * d <=> a <= b) /\ (a * d = b * d <=> a = b) /\ (a * d < b * d <=> a < b)
<1>1. ASSUME NEW x \in Int, NEW y \in Int, x < y PROVE x * d < y * d
  <2> DEFINE e == y - x
  <2>1. e \in Nat \ {0}
    BY <1>1
  <2>2. e * d \in Nat \ {0}
    BY <2>1, PositiveProduct
  <2>3. y * d = x * d + e * d
    OBVIOUS
  <2>4. x * d \in Int
    BY Multiply
  <2> HIDE DEF e
  <2> QED BY <2>2, <2>3, <2>4
<1> DEFINE ad == a * d
           bd == b * d
<1>2. ad \in Int /\ bd \in Int
  BY Multiply
<1>3. (a < b => ad < bd) /\ (b < a => bd < ad) /\ (a = b => ad = bd)
  BY <1>1
<1> HIDE DEF ad, bd
<1>4. (ad <= bd <=> a <= b) /\ (ad = bd <=> a = b) /\ (ad < bd <=> a < b)
  BY <1>2, <1>3
<1> QED BY <1>4 DEF ad, bd

(* Exact division by a common divisor.                                        *)
LEMMA DivideBy ==
    ASSUME NEW g \in Nat \ {0}, NEW n \in Int, Divides(g, Abs(n))
    PROVE  n \div g \in Int /\ n = g * (n \div g)
<1>1. PICK q \in Nat : Abs(n) = g * q
  BY DEF Divides
<1>2. \E p \in Int : n = g * p
  <2>1. CASE n >= 0
    BY <1>1, <2>1 DEF Abs
  <2>2. CASE n < 0
    <3>1. n = g * (-q)
      BY <1>1, <2>2 DEF Abs
    <3> QED BY <3>1
  <2> QED BY <2>1, <2>2
<1>3. PICK p \in Int : n = g * p
  BY <1>2
<1>4. n \div g = p
  <2> DEFINE x == n \div g
             rest == n % g
  <2>1. x \in Int /\ n = g * x + rest /\ rest \in 0 .. g - 1
    OBVIOUS
  <2> HIDE DEF x, rest
  <2>2. CASE p < x
    <3>1. p * g < x * g
      BY <2>1, <2>2, Cancel
    <3> QED BY <1>3, <2>1, <3>1
  <2>3. CASE x < p
    <3>1. (x + 1) * g <= p * g
      <4>1. x + 1 <= p
        BY <2>1, <2>3
      <4> QED BY <2>1, <4>1, Cancel
    <3>2. (x + 1) * g = g * x + g /\ g * x \in Int
      BY <2>1
    <3> QED BY <1>3, <2>1, <3>1, <3>2
  <2>4. x = p
    BY <2>1, <2>2, <2>3
  <2> QED BY <2>4 DEF x
<1> QED BY <1>3, <1>4

(* A fraction that is reduced keeps its value.                                *)
LEMMA FractionIs ==
    ASSUME NEW n \in Int, NEW d \in Nat \ {0}
    PROVE  Is(Fraction(n, d), n, d)
<1> DEFINE g == Gcd[d][Abs(n)]
           p == n \div g
           q == d \div g
<1>1. Abs(n) \in Nat /\ Abs(d) = d
  BY DEF Abs
<1>2. g \in Nat \ {0} /\ Divides(g, Abs(n)) /\ Divides(g, Abs(d))
  BY <1>1, GcdDivides
<1> HIDE DEF g
<1>3. p \in Int /\ n = g * p
  BY <1>2, DivideBy
<1>4. q \in Int /\ d = g * q
  BY <1>2, DivideBy
<1> HIDE DEF p, q
<1>5. q > 0
  <2>1. CASE q <= 0
    <3>1. q * g <= 0 * g
      BY <1>2, <1>4, <2>1, Cancel
    <3> QED BY <1>2, <1>4, <3>1
  <2> QED BY <2>1, <1>4
<1>6. Fraction(n, d) = [num |-> p, den |-> q]
  BY Zenon DEF Fraction, Reduced, p, q, g
<1>7. p * d = n * q
  <2>1. p * d = p * (g * q)
    BY <1>4
  <2>2. n * q = (g * p) * q
    BY <1>3
  <2>3. p * (g * q) = (g * p) * q
    BY <1>2, <1>3, <1>4
  <2> QED BY <2>1, <2>2, <2>3
<1> QED BY <1>3, <1>4, <1>5, <1>6, <1>7 DEF Is, Rational

LEMMA IsItself == ASSUME NEW f \in Rational PROVE Is(f, f.num, f.den)
BY DEF Is, Rational

(* Parts may be cut into smaller ones.                                        *)
LEMMA Cut ==
    ASSUME NEW f, NEW n \in Int, NEW d \in Nat \ {0}, NEW k \in Nat \ {0}, Is(f, n, d)
    PROVE  Is(f, n * k, d * k) /\ n * k \in Int /\ d * k \in Nat \ {0}
<1>1. f \in Rational /\ f.num * d = n * f.den /\ f.num \in Int /\ f.den \in Nat \ {0}
  BY DEF Is, Rational
<1> DEFINE p == f.num
           q == f.den
<1> HIDE DEF p, q
<1>2. p * (d * k) = (p * d) * k
  BY <1>1 DEF p
<1>3. (n * k) * q = (n * q) * k
  BY <1>1 DEF q
<1> QED BY <1>1, <1>2, <1>3, PositiveProduct, Multiply DEF Is, p, q

(* And back.                                                                  *)
LEMMA Join ==
    ASSUME NEW f, NEW n \in Int, NEW d \in Nat \ {0}, NEW k \in Nat \ {0}, Is(f, n * k, d * k)
    PROVE  Is(f, n, d)
<1>1. f \in Rational /\ f.num * (d * k) = (n * k) * f.den /\ f.num \in Int /\ f.den \in Nat \ {0}
  BY DEF Is, Rational
<1> DEFINE p == f.num
           q == f.den
<1>2. p * (d * k) = (n * k) * q
  BY <1>1
<1>3. p \in Int /\ q \in Int
  BY <1>1
<1> HIDE DEF p, q
<1>4. (p * d) * k = (n * q) * k
  <2>1. p * (d * k) = (p * d) * k /\ (n * k) * q = (n * q) * k
    BY <1>3
  <2> QED BY <1>2, <2>1
<1>5. p * d = n * q
  BY <1>3, <1>4, Multiply, Cancel
<1> QED BY <1>1, <1>5 DEF Is, p, q

(* A fraction's parts can be counted in any other fraction of its value.      *)
LEMMA SameValue ==
    ASSUME NEW f, NEW g, NEW n \in Int, NEW d \in Nat \ {0}, Is(g, n, d), f \in Rational,
           Is(f, g.num, g.den)
    PROVE  Is(f, n, d)
<1>1. g \in Rational /\ g.num * d = n * g.den /\ g.num \in Int /\ g.den \in Nat \ {0}
  BY DEF Is, Rational
<1>2. f.num * g.den = g.num * f.den /\ f.num \in Int /\ f.den \in Nat \ {0}
  BY DEF Is, Rational
<1> DEFINE p == f.num
           q == f.den
           r == g.num
           s == g.den
<1>3. p \in Int /\ q \in Nat \ {0} /\ r \in Int /\ s \in Nat \ {0} /\ p * s = r * q /\ r * d = n * s
  BY <1>1, <1>2
<1> HIDE DEF p, q, r, s
<1>4. (p * d) * s = (n * q) * s
  <2>1. (p * d) * s = (p * s) * d /\ (n * q) * s = (n * s) * q
    BY <1>3
  <2>2. (p * s) * d = (r * q) * d /\ (n * s) * q = (r * d) * q
    BY <1>3
  <2>3. (r * q) * d = (r * d) * q
    BY <1>3
  <2> QED BY <2>1, <2>2, <2>3
<1>5. p * d = n * q
  BY <1>3, <1>4, Multiply, Cancel
<1> QED BY <1>5 DEF Is, p, q

(* Comparison, sum, multiple and difference are those of the values, however  *)
(* a fraction is written.                                                     *)
LEMMA NoMoreIs ==
    ASSUME NEW f, NEW g, NEW n \in Int, NEW m \in Int, NEW d \in Nat \ {0}, Is(f, n, d), Is(g, m, d)
    PROVE  NoMore(f, g) <=> n <= m
<1> DEFINE p == f.num
           q == f.den
           r == g.num
           s == g.den
<1>1. p \in Int /\ q \in Nat \ {0} /\ r \in Int /\ s \in Nat \ {0} /\ p * d = n * q /\ r * d = m * s
  BY DEF Is, Rational
<1>2. NoMore(f, g) <=> p * s <= r * q
  BY DEF NoMore
<1> HIDE DEF p, q, r, s
<1>3. (p * s) * d = n * (q * s) /\ (r * q) * d = m * (q * s)
  <2>1. (p * s) * d = (p * d) * s /\ (r * q) * d = (r * d) * q
    BY <1>1
  <2>2. (p * d) * s = (n * q) * s /\ (r * d) * q = (m * s) * q
    BY <1>1
  <2>3. (n * q) * s = n * (q * s) /\ (m * s) * q = m * (q * s)
    BY <1>1
  <2> QED BY <2>1, <2>2, <2>3
<1>4. q * s \in Nat \ {0} /\ p * s \in Int /\ r * q \in Int
  BY <1>1, PositiveProduct, Multiply
<1>5. p * s <= r * q <=> (p * s) * d <= (r * q) * d
  BY <1>4, Cancel
<1>6. n * (q * s) <= m * (q * s) <=> n <= m
  BY <1>4, Cancel
<1> QED BY <1>2, <1>3, <1>5, <1>6

LEMMA PlusIs ==
    ASSUME NEW f, NEW g, NEW n \in Int, NEW m \in Int, NEW d \in Nat \ {0}, Is(f, n, d), Is(g, m, d)
    PROVE  Is(Plus(f, g), n + m, d)
<1> DEFINE p == f.num
           q == f.den
           r == g.num
           s == g.den
           h == Fraction(p * s + r * q, q * s)
<1>1. p \in Int /\ q \in Nat \ {0} /\ r \in Int /\ s \in Nat \ {0} /\ p * d = n * q /\ r * d = m * s
  BY DEF Is, Rational
<1>2. Plus(f, g) = h
  BY Zenon DEF Plus
<1> HIDE DEF p, q, r, s
<1> DEFINE a == p * s + r * q
           b == q * s
<1>3. a \in Int /\ b \in Nat \ {0}
  BY <1>1, PositiveProduct, Multiply
<1>4. Is(h, a, b)
  BY <1>3, FractionIs
<1>5. a * d = (n + m) * b
  <2>1. (p * s) * d = (p * d) * s /\ (r * q) * d = (r * d) * q
    BY <1>1
  <2>2. (p * d) * s = (n * q) * s /\ (r * d) * q = (m * s) * q
    BY <1>1
  <2>3. (n * q) * s = n * (q * s) /\ (m * s) * q = m * (q * s)
    BY <1>1
  <2>4. p * s \in Int /\ r * q \in Int
    BY <1>1, Multiply
  <2>5. (p * s + r * q) * d = (p * s) * d + (r * q) * d
    BY <2>4
  <2>6. (n + m) * (q * s) = n * (q * s) + m * (q * s)
    BY <1>1
  <2> QED BY <2>1, <2>2, <2>3, <2>5, <2>6
<1> HIDE DEF a, b
<1> DEFINE w == [num |-> a, den |-> b]
<1>6. w \in Rational /\ w.num = a /\ w.den = b
  BY <1>3 DEF Rational
<1>7. Is(w, n + m, d)
  BY <1>5, <1>6 DEF Is
<1> HIDE DEF w
<1>8. Is(h, w.num, w.den) /\ h \in Rational
  BY <1>4, <1>6 DEF Is, a, b
<1> HIDE DEF h
<1>9. Is(h, n + m, d)
  BY <1>7, <1>8, SameValue
<1> QED BY <1>2, <1>9

LEMMA TimesIs ==
    ASSUME NEW f, NEW n \in Int, NEW d \in Nat \ {0}, Is(f, n, d), NEW k \in Int
    PROVE  Is(Times(k, f), k * n, d)
<1> DEFINE p == f.num
           q == f.den
           h == Fraction(k * p, q)
<1>1. p \in Int /\ q \in Nat \ {0} /\ p * d = n * q
  BY DEF Is, Rational
<1>2. Times(k, f) = h
  BY Zenon DEF Times
<1> HIDE DEF p, q
<1> DEFINE a == k * p
<1>3. a \in Int /\ k * n \in Int
  BY <1>1, Multiply
<1>4. Is(h, a, q)
  BY <1>1, <1>3, FractionIs
<1>5. a * d = (k * n) * q
  <2>1. (k * p) * d = k * (p * d) /\ (k * n) * q = k * (n * q)
    BY <1>1
  <2> QED BY <1>1, <2>1
<1> HIDE DEF a
<1> DEFINE w == [num |-> a, den |-> q]
<1>6. w \in Rational /\ w.num = a /\ w.den = q
  BY <1>1, <1>3 DEF Rational
<1>7. Is(w, k * n, d)
  BY <1>5, <1>6 DEF Is
<1> HIDE DEF w
<1>8. Is(h, w.num, w.den) /\ h \in Rational
  BY <1>4, <1>6 DEF Is, a
<1> HIDE DEF h
<1>9. Is(h, k * n, d)
  BY <1>3, <1>7, <1>8, SameValue
<1> QED BY <1>2, <1>9

LEMMA MinusIs ==
    ASSUME NEW f, NEW g, NEW n \in Int, NEW m \in Int, NEW d \in Nat \ {0}, Is(f, n, d), Is(g, m, d)
    PROVE  Is(Minus(f, g), n - m, d)
<1> DEFINE r == g.num
           s == g.den
           h == Fraction(-r, s)
<1>1. r \in Int /\ s \in Nat \ {0} /\ r * d = m * s
  BY DEF Is, Rational
<1>2. Minus(f, g) = Plus(f, h)
  BY Zenon DEF Minus
<1> HIDE DEF r, s
<1>3. Is(h, -r, s)
  BY <1>1, FractionIs
<1>4. (-r) * d = (-m) * s
  BY <1>1
<1> DEFINE w == [num |-> -r, den |-> s]
<1>5. w \in Rational /\ w.num = -r /\ w.den = s
  BY <1>1 DEF Rational
<1>6. Is(w, -m, d)
  BY <1>4, <1>5 DEF Is
<1> HIDE DEF w
<1>7. Is(h, w.num, w.den) /\ h \in Rational
  BY <1>3, <1>5 DEF Is
<1> HIDE DEF h
<1>8. Is(h, -m, d)
  BY <1>6, <1>7, SameValue
<1>9. Is(Plus(f, h), n + (-m), d)
  BY <1>8, PlusIs
<1>10. n + (-m) = n - m
  OBVIOUS
<1> QED BY <1>2, <1>9, <1>10

(* The sign of a fraction is that of its numerator; the positive part is the  *)
(* fraction or zero.                                                          *)
LEMMA SignIs ==
    ASSUME NEW f, NEW n \in Int, NEW d \in Nat \ {0}, Is(f, n, d)
    PROVE  (f.num > 0 <=> n > 0) /\ f.num \in Int
<1> DEFINE p == f.num
           q == f.den
<1>1. p \in Int /\ q \in Nat \ {0} /\ p * d = n * q
  BY DEF Is, Rational
<1> HIDE DEF p, q
<1>2. 0 < p <=> 0 * d < p * d
  BY <1>1, Cancel
<1>3. 0 < n <=> 0 * q < n * q
  BY <1>1, Cancel
<1>4. p * d \in Int
  BY <1>1, Multiply
<1> QED BY <1>1, <1>2, <1>3, <1>4 DEF p

LEMMA PositiveIs ==
    ASSUME NEW f, NEW n \in Int, NEW d \in Nat \ {0}, Is(f, n, d)
    PROVE  Is(PositivePart(f), NotNegative(n), d)
<1>1. Is(Zero, 0, d)
  <2>1. Is(Zero, 0, 1)
    BY FractionIs DEF Zero
  <2>2. Is(Zero, 0 * d, 1 * d)
    BY <2>1, Cut
  <2> QED BY <2>2
<1> QED BY <1>1, SignIs DEF PositivePart, NotNegative

(* How often b is needed to come to a.                                        *)
LEMMA CeilIs ==
    ASSUME NEW f, NEW g, NEW n \in Int, NEW m \in Nat \ {0}, NEW d \in Nat \ {0}, Is(f, n, d), Is(g, m, d)
    PROVE  /\ CeilOf(f, g) \in Int
           /\ n <= CeilOf(f, g) * m /\ (CeilOf(f, g) - 1) * m < n
<1> DEFINE p == f.num
           q == f.den
           r == g.num
           s == g.den
           N == p * s
           D == q * r
           x == (-N) \div D
           rest == (-N) % D
           e == q * s
<1>1. p \in Int /\ q \in Nat \ {0} /\ r \in Int /\ s \in Nat \ {0} /\ p * d = n * q /\ r * d = m * s
  BY DEF Is, Rational
<1>2. r \in Nat \ {0}
  BY <1>1, SignIs
<1>3. CeilOf(f, g) = -x
  BY DEF CeilOf
<1> HIDE DEF p, q, r, s
<1>4. N \in Int /\ D \in Nat \ {0} /\ e \in Nat \ {0}
  BY <1>1, <1>2, PositiveProduct, Multiply
<1>5. N * d = n * e /\ D * d = m * e
  <2>1. N * d = (p * d) * s /\ D * d = (r * d) * q
    BY <1>1
  <2>2. (p * d) * s = (n * q) * s /\ (r * d) * q = (m * s) * q
    BY <1>1
  <2>3. (n * q) * s = n * e /\ (m * s) * q = m * e
    BY <1>1
  <2> QED BY <2>1, <2>2, <2>3
<1> HIDE DEF N, D, e
<1>6. x \in Int /\ -N = D * x + rest /\ rest \in 0 .. D - 1
  BY <1>4
<1> HIDE DEF x, rest
<1> DEFINE c == -x
<1>7. c \in Int /\ N <= c * D /\ (c - 1) * D < N
  <2>1. c * D = -(D * x) /\ (c - 1) * D = -(D * x) - D /\ D * x \in Int
    BY <1>4, <1>6
  <2> HIDE DEF c
  <2>2. c \in Int
    BY <1>6 DEF c
  <2> QED BY <1>4, <1>6, <2>1, <2>2
<1> HIDE DEF c
<1>8. ASSUME NEW k \in Int PROVE (k * D) * d = (k * m) * e
  <2>1. (k * D) * d = k * (D * d) /\ (k * m) * e = k * (m * e)
    BY <1>4
  <2> QED BY <1>5, <2>1
<1>9. n <= c * m
  <2>1. N * d <= (c * D) * d
    BY <1>4, <1>7, Multiply, Cancel
  <2>2. n * e <= (c * m) * e
    BY <1>5, <1>7, <1>8, <2>1
  <2> QED BY <1>4, <1>7, <2>2, Multiply, Cancel
<1>10. (c - 1) * m < n
  <2>0. c - 1 \in Int
    BY <1>7
  <2>1. ((c - 1) * D) * d < N * d
    BY <1>4, <1>7, <2>0, Multiply, Cancel
  <2>2. ((c - 1) * m) * e < n * e
    BY <1>5, <1>8, <2>0, <2>1
  <2> QED BY <1>4, <2>0, <2>2, Multiply, Cancel
<1> QED BY <1>3, <1>7, <1>9, <1>10 DEF c

(* There is one such number.                                                  *)
LEMMA OneCeil ==
    ASSUME NEW a \in Int, NEW b \in Int, NEW n \in Int, NEW m \in Nat \ {0},
           n <= a * m, (a - 1) * m < n, n <= b * m, (b - 1) * m < n
    PROVE  a = b
<1>1. a - 1 \in Int /\ b - 1 \in Int
  OBVIOUS
<1>2. a * m \in Int /\ b * m \in Int /\ (a - 1) * m \in Int /\ (b - 1) * m \in Int
  BY <1>1, Multiply
<1>3. (a - 1) * m < b * m /\ (b - 1) * m < a * m
  <2> DEFINE am == a * m
             bm == b * m
             am1 == (a - 1) * m
             bm1 == (b - 1) * m
  <2>1. am1 < bm /\ bm1 < am
    <3>1. am \in Int /\ bm \in Int /\ am1 \in Int /\ bm1 \in Int /\ n <= am /\ am1 < n /\ n <= bm /\ bm1 < n
      BY <1>2
    <3> HIDE DEF am, bm, am1, bm1
    <3> QED BY <3>1
  <2> QED BY <2>1
<1>4. a - 1 < b /\ b - 1 < a
  BY <1>1, <1>3, Cancel
<1> QED BY <1>4

-----------------------------------------------------------------------------
(* What is given for a plan: a request, the memory that is free, and how an   *)
(* earlier run of the phases went.                                            *)
Options ==
    [strategy : {"auto", "phase", "normal"}, prompt : BOOLEAN, prompt_tokens : Nat \ {0}, new_tokens : Nat,
     allow_phase_on_normal_pressure : BOOLEAN, context : {1}, cache_type : {""}, model_mib : {50}, expected_reuses : Nat]
Hardware == [vram_total : {100}, vram_free : Nat, ram_total : {0}, ram_free : {0}]
RunTaken ==
    [existing : BOOLEAN, tokens : Nat \ {0}, prefill : Nat, save : Nat, restore : Nat, decode : Nat,
     cold : {<<>>} \cup {<<x>> : x \in Nat}]

\* The placements of the given profile, and what they say of the model.
Chosen == PhaseSelected(PlannedProfile, "chat")
ChoiceIsSound ==
    /\ Chosen # Failure
    /\ Chosen.decode.prompt_tps \in Nat /\ Chosen.decode.generation_tps \in Nat /\ Chosen.prefill.prompt_tps \in Nat
    /\ Chosen.decode.n_gpu_layers \in Int /\ Chosen.prefill.n_gpu_layers \in Int
    /\ Chosen.spill_warning = FALSE /\ Chosen.cache_type = "q8_0"

ChosenRequest ==
    [context |-> 1, cache_type |-> "q8_0",
     prefill_ngl |-> Chosen.prefill.n_gpu_layers, decode_ngl |-> Chosen.decode.n_gpu_layers]

EconomicsOf(o, measurement) == EstimateBreakEven(o, Chosen.decode, Chosen.prefill, measurement)
LevelOf(hw) == PressureLevel(hw, 50, FALSE)
Expecting(o, n) == [o EXCEPT !.expected_reuses = n]

LEMMA ExpectingIs ==
    ASSUME NEW o \in Options, NEW n \in Nat
    PROVE  /\ Expecting(o, n) \in Options /\ Expecting(o, n).expected_reuses = n
           /\ Expecting(o, n).strategy = o.strategy /\ Expecting(o, n).prompt = o.prompt
           /\ Expecting(o, n).prompt_tokens = o.prompt_tokens /\ Expecting(o, n).new_tokens = o.new_tokens
           /\ Expecting(o, n).allow_phase_on_normal_pressure = o.allow_phase_on_normal_pressure
           /\ Expecting(o, n).context = o.context /\ Expecting(o, n).cache_type = o.cache_type
           /\ Expecting(o, n).model_mib = o.model_mib
BY DEF Expecting, Options

LEMMA SameEstimate ==
    ASSUME NEW o, NEW p, o.prompt_tokens = p.prompt_tokens, o.new_tokens = p.new_tokens,
           NEW decode, NEW prefill, NEW m
    PROVE  EstimateBreakEven(o, decode, prefill, m) = EstimateBreakEven(p, decode, prefill, m)
<1>1. ASSUME NEW x PROVE CreateTime(o, x, prefill, m) = CreateTime(p, x, prefill, m)
  BY DEF CreateTime
<1>2. ASSUME NEW x PROVE SavingTime(o, x, m) = SavingTime(p, x, m)
  BY DEF SavingTime
<1> DEFINE normal(q) == MsForTokens(q.prompt_tokens, decode.prompt_tps)
           total(q)  == Plus(normal(q), MsForTokens(q.new_tokens, decode.generation_tps))
<1>3. normal(o) = normal(p) /\ total(o) = total(p)
  OBVIOUS
<1>4. ASSUME NEW q
      PROVE  EstimateBreakEven(q, decode, prefill, m)
               = Economics(total(q), CreateTime(q, total(q), prefill, m), SavingTime(q, normal(q), m))
  BY Zenon DEF EstimateBreakEven
<1> HIDE DEF normal, total
<1> QED BY <1>1, <1>2, <1>3, <1>4

(* A plan is the chosen request, what it costs, and a strategy.               *)
LEMMA PlanIs ==
    ASSUME ChoiceIsSound, NEW i, i.o \in Options, NEW n \in Nat, NEW reports, NEW slots
    PROVE  PlanOf(i, n, reports, slots)
             = PlanWith(Expecting(i.o, n), ChosenRequest, i.o.prompt /\ ChosenRequest \in slots,
                        EconomicsOf(i.o, LatestPhaseMeasurement(reports, ChosenRequest)), LevelOf(i.hw))
<1> DEFINE o == Expecting(i.o, n)
           request == RequestOf(o, Chosen)
           m == LatestPhaseMeasurement(reports, request)
<1>1. /\ o.prompt = i.o.prompt /\ o.prompt_tokens = i.o.prompt_tokens /\ o.new_tokens = i.o.new_tokens
      /\ o.context = 1 /\ o.cache_type = "" /\ o.model_mib = 50
  <2>1. i.o.context = 1 /\ i.o.cache_type = "" /\ i.o.model_mib = 50
    BY DEF Options
  <2> QED BY <2>1, ExpectingIs
<1>2. PlanOf(i, n, reports, slots) = PlanForChoice(Chosen, o, reports, i.hw, slots)
  BY DEF PlanOf, MakeAdaptivePlan, Chosen, Expecting
<1> HIDE DEF o
<1>3. request = ChosenRequest
  BY <1>1 DEF RequestOf, ChosenRequest, ChoiceIsSound
<1>4. PlanForChoice(Chosen, o, reports, i.hw, slots)
        = PlanWith(o, request, o.prompt /\ request \in slots,
                   EstimateBreakEven(o, Chosen.decode, Chosen.prefill, m), PressureLevel(i.hw, o.model_mib, Chosen.spill_warning))
  BY Zenon DEF PlanForChoice, ChoiceIsSound
<1>5. EstimateBreakEven(o, Chosen.decode, Chosen.prefill, m) = EconomicsOf(i.o, m)
  <2> DEFINE d == Chosen.decode
             f == Chosen.prefill
             p == i.o
  <2>1. o.prompt_tokens = p.prompt_tokens /\ o.new_tokens = p.new_tokens
    BY <1>1
  <2> HIDE DEF d, f, p, m
  <2>2. EstimateBreakEven(o, d, f, m) = EstimateBreakEven(p, d, f, m)
    BY <2>1, SameEstimate
  <2> QED BY <2>2 DEF EconomicsOf, d, f, p
<1>6. PressureLevel(i.hw, o.model_mib, Chosen.spill_warning) = LevelOf(i.hw)
  BY <1>1 DEF LevelOf, ChoiceIsSound
<1> HIDE DEF request, m
<1>7. PlanForChoice(Chosen, o, reports, i.hw, slots)
        = PlanWith(o, request, o.prompt /\ request \in slots, EconomicsOf(i.o, m), LevelOf(i.hw))
  BY <1>4, <1>5, <1>6
<1> QED BY <1>1, <1>2, <1>3, <1>7 DEF o, request, m

(* A plan, by its parts.                                                      *)
LEMMA PlanParts ==
    ASSUME ChoiceIsSound, NEW i, i.o \in Options, NEW n \in Nat, NEW reports, NEW slots, NEW m,
           m = LatestPhaseMeasurement(reports, ChosenRequest)
    PROVE  LET plan == PlanOf(i, n, reports, slots)
           IN  /\ plan.request = ChosenRequest /\ plan.economics = EconomicsOf(i.o, m)
               /\ plan.strategy = StrategyOf(Expecting(i.o, n), i.o.prompt /\ ChosenRequest \in slots,
                                             EconomicsOf(i.o, m).break_even, LevelOf(i.hw))
<1> DEFINE o == Expecting(i.o, n)
           hit == i.o.prompt /\ ChosenRequest \in slots
           e == EconomicsOf(i.o, m)
           level == LevelOf(i.hw)
           strategy == StrategyOf(o, hit, e.break_even, level)
           request == ChosenRequest
<1>1. PlanOf(i, n, reports, slots) = PlanWith(o, request, hit, e, level)
  BY PlanIs
<1>2. PlanWith(o, request, hit, e, level) = [status |-> "planned", request |-> request, economics |-> e, strategy |-> strategy]
  BY Zenon DEF PlanWith
<1> HIDE DEF o, hit, e, level, strategy, request
<1>3. /\ PlanOf(i, n, reports, slots).request = request /\ PlanOf(i, n, reports, slots).economics = e
      /\ PlanOf(i, n, reports, slots).strategy = strategy
  BY <1>1, <1>2
<1> QED BY <1>3 DEF o, hit, e, level, strategy, request

(* Which strategy a plan takes.                                               *)
LEMMA StrategyIs ==
    ASSUME NEW o \in Options, NEW hit \in BOOLEAN, NEW n, NEW level
    PROVE  LET s == StrategyOf(o, hit, n, level)
           IN  /\ o.strategy = "auto" => (s = "phase-create" <=> ~hit /\ PaysOff(o, n, level))
               /\ s = "phase-create" => o.strategy # "normal" /\ o.prompt
               /\ hit /\ o.strategy # "normal" => s = "phase-reuse"
               /\ ~hit => s # "phase-reuse"
<1> DEFINE pays == PaysOff(o, n, level)
<1>1. pays => o.prompt
  BY DEF PaysOff
<1>2. StrategyOf(o, hit, n, level)
        = CASE o.strategy = "normal" -> "normal-server"
            [] o.strategy = "phase" /\ o.prompt -> IF hit THEN "phase-reuse" ELSE "phase-create"
            [] OTHER -> CASE hit -> "phase-reuse"
                          [] ~hit /\ pays -> "phase-create"
                          [] OTHER -> "normal-server"
  BY DEF StrategyOf
<1> HIDE DEF pays
<1>3. o.strategy \in {"auto", "phase", "normal"} /\ o.prompt \in BOOLEAN
  BY DEF Options
<1>4. CASE o.strategy = "normal"
  <2>1. StrategyOf(o, hit, n, level) = "normal-server"
    BY <1>2, <1>4
  <2> QED BY <1>4, <2>1
<1>5. CASE o.strategy = "phase" /\ o.prompt
  <2>1. StrategyOf(o, hit, n, level) = IF hit THEN "phase-reuse" ELSE "phase-create"
    BY <1>2, <1>5
  <2> QED BY <1>5, <2>1
<1>6. CASE o.strategy = "auto" \/ (o.strategy = "phase" /\ ~o.prompt)
  <2>1. StrategyOf(o, hit, n, level)
          = CASE hit -> "phase-reuse" [] ~hit /\ pays -> "phase-create" [] OTHER -> "normal-server"
    BY <1>2, <1>6
  <2>2. CASE hit
    BY <1>6, <2>1, <2>2
  <2>3. CASE ~hit /\ pays
    BY <1>1, <1>6, <2>1, <2>3 DEF pays
  <2>4. CASE ~hit /\ ~pays
    BY <1>6, <2>1, <2>4 DEF pays
  <2> QED BY <2>2, <2>3, <2>4
<1> QED BY <1>3, <1>4, <1>5, <1>6

(* Memory is short when less than 35 percent of it are free.                  *)
LEMMA LevelIs ==
    ASSUME NEW hw \in Hardware
    PROVE  LevelOf(hw) \in {"moderate", "high"} <=> hw.vram_free < 35
<1>1. hw.vram_total = 100 /\ hw.vram_free \in Nat /\ hw.ram_total = 0 /\ hw.ram_free = 0
  BY DEF Hardware
<1>2. CASE hw.vram_free < 20
  BY <1>1, <1>2 DEF LevelOf, PressureLevel, Below
<1>3. CASE hw.vram_free \in 20 .. 34
  BY <1>1, <1>3 DEF LevelOf, PressureLevel, Below
<1>4. CASE hw.vram_free >= 35
  BY <1>1, <1>4 DEF LevelOf, PressureLevel, Below
<1> QED BY <1>1, <1>2, <1>3, <1>4

-----------------------------------------------------------------------------
(* Times, which are not negative.                                             *)
Duration == {f \in Rational : f.num >= 0}

LEMMA NotNegativeIs ==
    ASSUME NEW f, NEW n \in Nat, NEW d \in Nat \ {0}, Is(f, n, d)
    PROVE  f \in Duration
<1> DEFINE p == f.num
           q == f.den
<1>1. f \in Rational /\ p \in Int /\ q \in Nat \ {0} /\ p * d = n * q
  BY DEF Is, Rational
<1> HIDE DEF p, q
<1>2. n * q \in Nat
  BY <1>1, Product
<1>3. 0 * d <= p * d
  BY <1>1, <1>2
<1>4. 0 <= p
  BY <1>1, <1>3, Cancel
<1> QED BY <1>1, <1>4 DEF Duration, p

(* Times are fractions that are not negative.                                 *)
LEMMA FractionTyped ==
    ASSUME NEW n \in Int, NEW d \in Nat \ {0}
    PROVE  Fraction(n, d) \in Rational /\ (n >= 0 => Fraction(n, d) \in Duration)
<1>1. Is(Fraction(n, d), n, d)
  BY FractionIs
<1>2. n >= 0 => n \in Nat
  OBVIOUS
<1> HIDE DEF Duration
<1> QED BY <1>1, <1>2, NotNegativeIs DEF Is

(* Three fractions can be counted in the same parts.                          *)
LEMMA CommonParts ==
    ASSUME NEW f \in Rational, NEW g \in Rational, NEW h \in Rational
    PROVE  \E n \in Int, m \in Int, k \in Int, d \in Nat \ {0} : Is(f, n, d) /\ Is(g, m, d) /\ Is(h, k, d)
<1> DEFINE p == f.num
           q == f.den
           r == g.num
           s == g.den
           u == h.num
           v == h.den
           n == p * (s * v)
           m == r * (q * v)
           k == u * (q * s)
           d == q * (s * v)
<1>1. p \in Int /\ q \in Nat \ {0} /\ r \in Int /\ s \in Nat \ {0} /\ u \in Int /\ v \in Nat \ {0}
  BY DEF Rational
<1>2. Is(f, p, q) /\ Is(g, r, s) /\ Is(h, u, v)
  BY IsItself
<1> HIDE DEF p, q, r, s, u, v
<1>3. s * v \in Nat \ {0} /\ q * v \in Nat \ {0} /\ q * s \in Nat \ {0}
  BY <1>1, PositiveProduct
<1>4. Is(f, n, d) /\ n \in Int /\ d \in Nat \ {0}
  BY <1>1, <1>2, <1>3, Cut
<1>5. Is(g, m, s * (q * v)) /\ m \in Int
  BY <1>1, <1>2, <1>3, Cut
<1>6. Is(h, k, v * (q * s)) /\ k \in Int
  BY <1>1, <1>2, <1>3, Cut
<1>7. s * (q * v) = d /\ v * (q * s) = d
  BY <1>1
<1> HIDE DEF n, m, k, d
<1> QED BY <1>4, <1>5, <1>6, <1>7

LEMMA PlusTyped ==
    ASSUME NEW f \in Duration, NEW g \in Duration
    PROVE  Plus(f, g) \in Duration
<1>1. f \in Rational /\ g \in Rational /\ f.num \in Nat /\ g.num \in Nat
  BY DEF Duration, Rational
<1>2. PICK n \in Int, m \in Int, k \in Int, d \in Nat \ {0} : Is(f, n, d) /\ Is(g, m, d)
  BY <1>1, CommonParts
<1>3. ASSUME NEW h, NEW x \in Int, Is(h, x, d), h.num \in Nat PROVE x \in Nat
  <2> DEFINE p == h.num
             q == h.den
  <2>1. p \in Nat /\ q \in Nat \ {0} /\ p * d = x * q
    BY <1>3 DEF Is, Rational
  <2> HIDE DEF p, q
  <2>2. p * d \in Nat
    BY <2>1, Product
  <2>3. 0 * q <= x * q
    BY <2>1, <2>2
  <2>4. 0 <= x
    BY <2>1, <2>3, Cancel
  <2> QED BY <2>4
<1>4. n \in Nat /\ m \in Nat
  BY <1>1, <1>2, <1>3
<1>5. Is(Plus(f, g), n + m, d)
  BY <1>2, PlusIs
<1>6. n + m \in Nat
  BY <1>4
<1> QED BY <1>5, <1>6, NotNegativeIs

LEMMA MsTyped == \A tokens \in Nat, tps \in Nat : MsForTokens(tokens, tps) \in Duration
<1> SUFFICES ASSUME NEW tokens \in Nat, NEW tps \in Nat PROVE MsForTokens(tokens, tps) \in Duration
  OBVIOUS
<1> HIDE DEF Duration
<1>1. Zero \in Duration
  BY FractionTyped DEF Zero
<1>2. CASE tps > 0
  <2>1. 1000 * tokens \in Nat /\ tps \in Nat \ {0} /\ ~(tps <= 0)
    BY <1>2
  <2> DEFINE n == 1000 * tokens
  <2>2. MsForTokens(tokens, tps) = Fraction(n, tps)
    BY <2>1 DEF MsForTokens
  <2> HIDE DEF n
  <2> QED BY <2>1, <2>2, FractionTyped DEF n
<1>3. CASE tps <= 0
  BY <1>1, <1>3 DEF MsForTokens
<1> QED BY <1>2, <1>3

\* What a report may say, or no report.
Measurements == {Failure} \cup [status : {"measured"}, tokens : Nat, create : Nat, saving : Int, break_even : Int]

LEMMA MeasuredIs ==
    ASSUME NEW m \in Measurements
    PROVE  IsMeasured(m) => m.tokens \in Nat \ {0} /\ m.create \in Nat /\ m.saving \in Int
BY DEF Measurements, IsMeasured

(* Making a slot and using it take time, measured or estimated.               *)
LEMMA CreateTyped ==
    ASSUME NEW o \in Options, NEW total \in Duration, NEW prefill, prefill.prompt_tps \in Nat, NEW m \in Measurements
    PROVE  CreateTime(o, total, prefill, m) \in Duration
<1> DEFINE tokens == o.prompt_tokens
           tps == prefill.prompt_tps
           most == Max({1250, tokens})
           first == IF tps > 0 THEN MsForTokens(tokens, tps) ELSE total
           second == Fraction(most, 5)
<1>1. tokens \in Nat /\ tps \in Nat
  BY DEF Options
<1> HIDE DEF Duration, tokens, tps
<1>2. CASE IsMeasured(m)
  <2> DEFINE n == m.create * tokens
             d == m.tokens
  <2>1. n \in Nat /\ d \in Nat \ {0}
    BY <1>1, <1>2, MeasuredIs, Product
  <2>2. CreateTime(o, total, prefill, m) = Fraction(n, d)
    BY <1>2 DEF CreateTime, tokens
  <2> HIDE DEF n, d
  <2> QED BY <2>1, <2>2, FractionTyped
<1>3. CASE ~IsMeasured(m)
  <2>1. first \in Duration
    BY <1>1, MsTyped
  <2>2. most \in Nat
    <3> DEFINE S == {1250, tokens}
    <3>1. IsFiniteSet(S) /\ S \subseteq Int /\ S # {} /\ S \subseteq Nat
      <4>1. S = ({} \cup {1250}) \cup {tokens}
        OBVIOUS
      <4>2. IsFiniteSet({} \cup {1250})
        BY FS_EmptySet, FS_AddElement
      <4>3. IsFiniteSet(S)
        <5> HIDE DEF S
        <5> QED BY <4>1, <4>2, FS_AddElement
      <4> QED BY <1>1, <4>3
    <3> HIDE DEF S
    <3>2. Max(S) \in S
      BY <3>1, LargestElement
    <3> QED BY <3>1, <3>2 DEF S
  <2> HIDE DEF most, first
  <2>3. second \in Duration
    BY <2>2, FractionTyped
  <2>4. CreateTime(o, total, prefill, m) = Plus(first, second)
    BY <1>3 DEF CreateTime, first, second, most, tokens, tps
  <2> HIDE DEF second
  <2> QED BY <2>1, <2>3, <2>4, PlusTyped
<1> QED BY <1>2, <1>3

LEMMA SavingTyped ==
    ASSUME NEW o \in Options, NEW normal \in Duration, NEW m \in Measurements
    PROVE  SavingTime(o, normal, m) \in Duration
<1> DEFINE tokens == o.prompt_tokens
<1>1. tokens \in Nat /\ normal.num \in Nat /\ normal.den \in Nat \ {0}
  <2>1. tokens \in Nat
    BY DEF Options
  <2>2. normal.num \in Nat /\ normal.den \in Nat \ {0}
    BY DEF Duration, Rational
  <2> QED BY <2>1, <2>2
<1> HIDE DEF Duration, tokens
<1>2. CASE IsMeasured(m)
  <2> DEFINE n == m.saving * tokens
             d == m.tokens
             f == Fraction(n, d)
  <2>1. n \in Int /\ d \in Nat \ {0}
    BY <1>1, <1>2, MeasuredIs, Multiply
  <2>2. SavingTime(o, normal, m) = PositivePart(f)
    BY <1>2 DEF SavingTime, tokens
  <2> HIDE DEF n, d
  <2>3. Is(f, n, d)
    BY <2>1, FractionIs
  <2> HIDE DEF f
  <2>4. Is(PositivePart(f), NotNegative(n), d)
    BY <2>1, <2>3, PositiveIs
  <2>5. NotNegative(n) \in Nat
    BY <2>1 DEF NotNegative
  <2> QED BY <2>1, <2>2, <2>4, <2>5, NotNegativeIs
<1>3. CASE ~IsMeasured(m)
  <2> DEFINE n == 15 * normal.num
             d == 100 * normal.den
  <2>1. n \in Nat /\ d \in Nat \ {0}
    BY <1>1
  <2>2. SavingTime(o, normal, m) = Fraction(n, d)
    BY <1>3 DEF SavingTime
  <2> HIDE DEF n, d
  <2> QED BY <2>1, <2>2, FractionTyped
<1> QED BY <1>2, <1>3

-----------------------------------------------------------------------------
(* After break_even uses, and not before, a slot has saved what it cost.      *)
Pays(e, uses) == NoMore(Plus(e.create, Times(uses, e.cached_total)), Times(uses, e.normal_total))

(* At break-even a slot costs no more than it saves, one use earlier it does  *)
(* not yet.                                                                   *)
LEMMA EconomicsPay ==
    ASSUME NEW total \in Duration, NEW create \in Duration, NEW saving \in Duration
    PROVE  LET e == Economics(total, create, saving)
           IN  /\ e.break_even \in Nat
               /\ e.break_even > 0 /\ NoMore(e.saving, e.normal_total) =>
                     /\ Pays(e, e.break_even)
                     /\ ~Pays(e, e.break_even - 1)
<1> DEFINE e == Economics(total, create, saving)
           n == CeilOf(create, saving)
           left == PositivePart(Minus(total, saving))
<1>1. /\ total \in Rational /\ create \in Rational /\ saving \in Rational
      /\ total.num >= 0 /\ create.num >= 0 /\ saving.num >= 0
  BY DEF Duration
<1>2. PICK c \in Int, s \in Int, t \in Int, d \in Nat \ {0} : Is(create, c, d) /\ Is(saving, s, d) /\ Is(total, t, d)
  BY <1>1, CommonParts
<1>3. /\ e.normal_total = total /\ e.create = create /\ e.saving = saving /\ e.cached_total = left
      /\ e.break_even = IF saving.num > 0 THEN n ELSE 0
  BY DEF Economics, NoBreakEven
<1> HIDE DEF e, n, left, Duration
<1>4. CASE saving.num > 0
  <2>1. s > 0 /\ s \in Nat \ {0}
    BY <1>2, <1>4, SignIs
  <2>2. n \in Int /\ c <= n * s /\ (n - 1) * s < c
    BY <1>2, <2>1, CeilIs DEF n
  <2>3. c >= 0
    <3>1. Is(Zero, 0, d)
      <4>1. Is(Zero, 0, 1)
        BY FractionIs DEF Zero
      <4>2. Is(Zero, 0 * d, 1 * d)
        BY <4>1, Cut
      <4> QED BY <4>2
    <3>2. NoMore(Zero, create)
      <4>1. Is(Zero, 0, 1)
        BY FractionIs DEF Zero
      <4>2. Zero.num \in Int /\ Zero.den \in Nat \ {0} /\ Zero.num * 1 = 0 * Zero.den
        BY <4>1 DEF Is, Rational
      <4>3. Zero.num = 0
        BY <4>2
      <4>4. create.num \in Nat /\ create.den \in Nat
        BY <1>1 DEF Rational
      <4>5. create.num * Zero.den >= 0
        BY <4>2, <4>4, Product
      <4> QED BY <4>3, <4>4, <4>5 DEF NoMore
    <3> QED BY <1>2, <3>1, <3>2, NoMoreIs
  <2>4. n >= 0
    <3>1. CASE n <= -1
      <4>1. n * s <= (-1) * s
        BY <2>1, <2>2, <3>1, Cancel
      <4>2. n * s \in Int
        BY <2>1, <2>2, Multiply
      <4> QED BY <2>1, <2>2, <2>3, <4>1, <4>2
    <3> QED BY <3>1, <2>2
  <2>5. ASSUME n > 0, NoMore(saving, total), NEW uses \in Int PROVE Pays(e, uses) <=> c <= uses * s
    <3>1. s <= t
      BY <1>2, <2>5, NoMoreIs
    <3>2. Is(Minus(total, saving), t - s, d) /\ t - s \in Int
      BY <1>2, MinusIs
    <3>3. NotNegative(t - s) = t - s
      BY <3>1 DEF NotNegative
    <3>4. Is(left, t - s, d)
      BY <3>2, <3>3, PositiveIs DEF left
    <3> DEFINE rest == uses * (t - s)
               whole == uses * t
    <3>5. Is(Times(uses, left), rest, d) /\ Is(Times(uses, total), whole, d) /\ rest \in Int /\ whole \in Int
      BY <1>2, <3>2, <3>4, TimesIs, Multiply
    <3>6. rest = whole - uses * s /\ uses * s \in Int
      OBVIOUS
    <3> HIDE DEF rest, whole
    <3>7. Is(Plus(create, Times(uses, left)), c + rest, d) /\ c + rest \in Int
      BY <1>2, <3>5, PlusIs
    <3>8. NoMore(Plus(create, Times(uses, left)), Times(uses, total)) <=> c + rest <= whole
      BY <3>5, <3>7, NoMoreIs
    <3>9. c + rest <= whole <=> c <= uses * s
      BY <3>5, <3>6
    <3> QED BY <1>3, <3>8, <3>9 DEF Pays
  <2>6. e.break_even = n
    BY <1>3, <1>4
  <2>7. ASSUME n > 0, NoMore(saving, total) PROVE Pays(e, n) /\ ~Pays(e, n - 1)
    <3>1. n - 1 \in Int /\ (n - 1) * s \in Int
      BY <2>1, <2>2, Multiply
    <3>2. Pays(e, n) <=> c <= n * s
      BY <2>2, <2>5, <2>7
    <3>3. Pays(e, n - 1) <=> c <= (n - 1) * s
      BY <3>1, <2>5, <2>7
    <3> DEFINE m == (n - 1) * s
    <3>4. m \in Int /\ m < c
      BY <2>2, <3>1
    <3> HIDE DEF m
    <3>5. ~(c <= m)
      BY <3>4
    <3> QED BY <2>2, <3>2, <3>3, <3>5 DEF m
  <2> QED BY <1>3, <2>2, <2>4, <2>6, <2>7 DEF e
<1>5. CASE ~(saving.num > 0)
  <2>1. e.break_even = 0
    BY <1>3, <1>5
  <2> QED BY <2>1 DEF e
<1> QED BY <1>4, <1>5

LEMMA EstimateTyped ==
    ASSUME ChoiceIsSound, NEW o \in Options, NEW m \in Measurements
    PROVE  \E total \in Duration, create \in Duration, saving \in Duration :
              EconomicsOf(o, m) = Economics(total, create, saving)
<1> DEFINE decode == Chosen.decode
           prefill == Chosen.prefill
           normal == MsForTokens(o.prompt_tokens, decode.prompt_tps)
           later == MsForTokens(o.new_tokens, decode.generation_tps)
           total == Plus(normal, later)
           create == CreateTime(o, total, prefill, m)
           saving == SavingTime(o, normal, m)
<1>1. o.prompt_tokens \in Nat /\ o.new_tokens \in Nat
  BY DEF Options
<1>2. decode.prompt_tps \in Nat /\ decode.generation_tps \in Nat /\ prefill.prompt_tps \in Nat
  BY DEF ChoiceIsSound
<1>3. EconomicsOf(o, m) = Economics(total, create, saving)
  BY Zenon DEF EconomicsOf, EstimateBreakEven
<1> HIDE DEF decode, prefill
<1>4. normal \in Duration /\ later \in Duration
  BY <1>1, <1>2, MsTyped
<1> HIDE DEF normal, later
<1>5. total \in Duration
  BY <1>4, PlusTyped
<1> HIDE DEF total
<1>6. create \in Duration
  BY <1>2, <1>5, CreateTyped
<1>7. saving \in Duration
  BY <1>4, SavingTyped
<1> HIDE DEF create, saving
<1> QED BY <1>3, <1>5, <1>6, <1>7

LEMMA EstimatePays ==
    ASSUME ChoiceIsSound, NEW o \in Options, NEW m \in Measurements
    PROVE  LET e == EconomicsOf(o, m)
           IN  /\ e.break_even \in Nat
               /\ e.break_even > 0 /\ NoMore(e.saving, e.normal_total) =>
                     Pays(e, e.break_even) /\ ~Pays(e, e.break_even - 1)
BY EstimateTyped, EconomicsPay

(* A slot is made for as many uses as pay for it, whatever is measured.       *)
LEMMA SlotsPayOff ==
    ASSUME ChoiceIsSound, NEW i, i.o \in Options, i.hw \in Hardware, NEW reports,
           LatestPhaseMeasurement(reports, ChosenRequest) \in Measurements
    PROVE  CreatedSlotsPayOff(i, EconomicsOf(i.o, LatestPhaseMeasurement(reports, ChosenRequest)),
                              [n \in Nat |-> PlanOf(i, n, reports, {}).strategy])
<1> DEFINE m == LatestPhaseMeasurement(reports, ChosenRequest)
           e == EconomicsOf(i.o, m)
           n == e.break_even
           level == LevelOf(i.hw)
           strategy == [k \in Nat |-> PlanOf(i, k, reports, {}).strategy]
           short == i.hw.vram_free < 35 \/ i.o.allow_phase_on_normal_pressure
<1> SUFFICES ASSUME i.o.strategy = "auto"
             PROVE  /\ n = 0 => strategy[1000] # "phase-create"
                    /\ n > 0 /\ NoMore(e.saving, e.normal_total) =>
                          /\ strategy[n] = "phase-create" => Pays(e, n)
                          /\ n > 1 => ~Pays(e, n - 1)
                    /\ n > 0 => /\ \A uses \in {n, n + 1} : strategy[uses] = "phase-create" <=> i.o.prompt /\ short
                                /\ strategy[n - 1] # "phase-create"
  BY DEF CreatedSlotsPayOff, NoBreakEven, Pays
<1>1. n \in Nat /\ (n > 0 /\ NoMore(e.saving, e.normal_total) => Pays(e, n) /\ ~Pays(e, n - 1))
  BY EstimatePays
<1>2. ASSUME NEW k \in Nat
      PROVE  strategy[k] = "phase-create" <=> i.o.prompt /\ n # 0 /\ k >= n /\ short
  <2> DEFINE o == Expecting(i.o, k)
             hit == i.o.prompt /\ ChosenRequest \in {}
             s == StrategyOf(o, hit, n, level)
             pays == PaysOff(o, n, level)
  <2>1. strategy[k] = s
    BY PlanParts
  <2>2. o \in Options /\ o.strategy = "auto" /\ hit = FALSE
    BY ExpectingIs
  <2>3. /\ o.prompt = i.o.prompt /\ o.expected_reuses = k
        /\ o.allow_phase_on_normal_pressure = i.o.allow_phase_on_normal_pressure
    BY ExpectingIs
  <2> HIDE DEF o, hit, level, s, n
  <2>4. s = "phase-create" <=> ~hit /\ pays
    BY <2>2, StrategyIs DEF s
  <2>5. pays <=> i.o.prompt /\ n # 0 /\ k >= n /\ (level \in {"moderate", "high"} \/ i.o.allow_phase_on_normal_pressure)
    BY <2>3 DEF PaysOff, NoBreakEven
  <2>6. level \in {"moderate", "high"} <=> i.hw.vram_free < 35
    BY LevelIs DEF level
  <2> HIDE DEF strategy
  <2> QED BY <2>1, <2>2, <2>4, <2>5, <2>6
<1> HIDE DEF strategy, short, e, n
<1>3. n = 0 => strategy[1000] # "phase-create"
  BY <1>2
<1>4. n > 0 => /\ \A uses \in {n, n + 1} : strategy[uses] = "phase-create" <=> i.o.prompt /\ short
               /\ strategy[n - 1] # "phase-create"
  <2> SUFFICES ASSUME n > 0 PROVE /\ \A uses \in {n, n + 1} : strategy[uses] = "phase-create" <=> i.o.prompt /\ short
                                  /\ strategy[n - 1] # "phase-create"
    OBVIOUS
  <2>1. n \in Nat /\ n + 1 \in Nat /\ n - 1 \in Nat
    BY <1>1
  <2>2. strategy[n - 1] # "phase-create"
    <3>1. ~(n - 1 >= n)
      BY <2>1
    <3> QED BY <1>2, <2>1, <3>1
  <2>3. ASSUME NEW uses \in {n, n + 1} PROVE strategy[uses] = "phase-create" <=> i.o.prompt /\ short
    <3>1. uses \in Nat /\ uses >= n /\ n # 0
      BY <2>1
    <3> QED BY <1>2, <3>1
  <2> QED BY <2>2, <2>3
<1>5. n > 0 /\ NoMore(e.saving, e.normal_total) =>
         /\ strategy[n] = "phase-create" => Pays(e, n)
         /\ n > 1 => ~Pays(e, n - 1)
  BY <1>1
<1> QED BY <1>3, <1>4, <1>5

-----------------------------------------------------------------------------
(* Reports.                                                                   *)
Report ==
    [readable : BOOLEAN, context : Int, cache_type : {"q8_0", "f16"}, prefill_ngl : Int, decode_ngl : Int,
     tokens : Nat, prefill : Nat, save : Nat, restore : Nat, saving : {<<>>} \cup {<<x>> : x \in Int}, break_even : Int]

\* What a run without a slot saves in a decoding, if that was measured.
SavedBy(run) == IF run.cold = <<>> THEN <<>> ELSE << run.cold[1] - run.decode >>

LEMMA SavedTyped ==
    ASSUME NEW run \in RunTaken
    PROVE  SavedBy(run) \in {<<>>} \cup {<<x>> : x \in Int}
<1>1. run.decode \in Nat /\ run.cold \in {<<>>} \cup {<<x>> : x \in Nat}
  BY DEF RunTaken
<1>2. CASE run.cold = <<>>
  BY <1>2 DEF SavedBy
<1>3. ASSUME NEW x \in Nat, run.cold = <<x>> PROVE SavedBy(run) \in {<<y>> : y \in Int}
  <2>1. SavedBy(run) = << x - run.decode >>
    BY <1>3 DEF SavedBy
  <2>2. x - run.decode \in Int
    BY <1>1
  <2> QED BY <2>1, <2>2
<1> QED BY <1>1, <1>2, <1>3

LEMMA SavingCases ==
    ASSUME NEW s \in {<<>>} \cup {<<x>> : x \in Int}
    PROVE  s = <<>> \/ (s # <<>> /\ s[1] \in Int)
OBVIOUS

\* The break-even of a run.
BreakEvenOf(run) ==
    LET create == run.prefill + run.save + run.restore
        saving == SavedBy(run)
    IN  IF saving = <<>> \/ run.existing THEN NoBreakEven
        ELSE IF saving[1] <= 0 THEN NoBreakEven
        ELSE CeilOf(Fraction(create, 1), Fraction(saving[1], 1))

LEMMA BreakEvenTyped ==
    ASSUME NEW run \in RunTaken
    PROVE  BreakEvenOf(run) \in Int
<1> DEFINE c == run.prefill + run.save + run.restore
           saving == SavedBy(run)
           s == saving[1]
<1>1. c \in Int
  BY DEF RunTaken
<1>2. saving = <<>> \/ (saving # <<>> /\ s \in Int)
  BY SavedTyped, SavingCases
<1>3. BreakEvenOf(run) = IF saving = <<>> \/ run.existing THEN NoBreakEven
                         ELSE IF s <= 0 THEN NoBreakEven ELSE CeilOf(Fraction(c, 1), Fraction(s, 1))
  BY Zenon DEF BreakEvenOf
<1> HIDE DEF c, saving, s
<1>4. ASSUME saving # <<>>, s > 0 PROVE CeilOf(Fraction(c, 1), Fraction(s, 1)) \in Int
  <2>1. s \in Nat \ {0}
    BY <1>2, <1>4
  <2> DEFINE f == Fraction(c, 1)
             g == Fraction(s, 1)
  <2>2. Is(f, c, 1) /\ Is(g, s, 1)
    BY <1>1, <2>1, FractionIs
  <2> HIDE DEF f, g
  <2>3. CeilOf(f, g) \in Int
    BY <1>1, <2>1, <2>2, CeilIs
  <2> QED BY <2>3 DEF f, g
<1> QED BY <1>2, <1>3, <1>4 DEF NoBreakEven

(* The report of a run is for the request it was made for.                    *)
LEMMA ReportIs ==
    ASSUME ChoiceIsSound, NEW run \in RunTaken
    PROVE  LET report == PhaseReport(ChosenRequest, run)
           IN  /\ report \in Report /\ IsFor(report, ChosenRequest)
               /\ report.tokens = IF run.existing THEN 0 ELSE run.tokens
               /\ report.prefill = IF run.existing THEN 0 ELSE run.prefill
               /\ report.save = IF run.existing THEN 0 ELSE run.save
               /\ report.restore = run.restore /\ report.saving = SavedBy(run)
               /\ report.break_even = BreakEvenOf(run)
               /\ report.cache_type = "q8_0"
<1> DEFINE request == ChosenRequest
           report == PhaseReport(request, run)
           b == BreakEvenOf(run)
           s == SavedBy(run)
<1>1. report = [readable |-> TRUE, context |-> request.context, cache_type |-> request.cache_type,
                prefill_ngl |-> request.prefill_ngl, decode_ngl |-> request.decode_ngl,
                tokens |-> IF run.existing THEN 0 ELSE run.tokens,
                prefill |-> IF run.existing THEN 0 ELSE run.prefill, save |-> IF run.existing THEN 0 ELSE run.save,
                restore |-> run.restore, saving |-> s, break_even |-> b]
  <2> HIDE DEF request
  <2> QED BY Zenon DEF PhaseReport, BreakEvenOf, SavedBy
<1>2. b \in Int /\ s \in {<<>>} \cup {<<x>> : x \in Int}
  BY BreakEvenTyped, SavedTyped
<1>3. request.context = 1 /\ request.cache_type = "q8_0" /\ request.prefill_ngl \in Int /\ request.decode_ngl \in Int
  BY DEF ChosenRequest, ChoiceIsSound
<1> DEFINE tokens == IF run.existing THEN 0 ELSE run.tokens
           prefill == IF run.existing THEN 0 ELSE run.prefill
           save == IF run.existing THEN 0 ELSE run.save
<1>4. tokens \in Nat /\ prefill \in Nat /\ save \in Nat /\ run.restore \in Nat
  BY DEF RunTaken
<1>5. report = [readable |-> TRUE, context |-> request.context, cache_type |-> request.cache_type,
                prefill_ngl |-> request.prefill_ngl, decode_ngl |-> request.decode_ngl, tokens |-> tokens,
                prefill |-> prefill, save |-> save, restore |-> run.restore, saving |-> s, break_even |-> b]
  BY <1>1
<1> HIDE DEF request, report, b, s, tokens, prefill, save
<1>6. report \in Report
  BY <1>2, <1>3, <1>4, <1>5 DEF Report
<1>7. IsFor(report, request)
  BY <1>5 DEF IsFor
<1>8. /\ report.tokens = tokens /\ report.prefill = prefill /\ report.save = save
      /\ report.restore = run.restore /\ report.saving = s /\ report.break_even = b /\ report.cache_type = "q8_0"
  BY <1>3, <1>5
<1> QED BY <1>6, <1>7, <1>8 DEF request, report, b, s, tokens, prefill, save

LEMMA MeasurementIs ==
    ASSUME NEW report \in Report
    PROVE  /\ Measurement(report) \in Measurements /\ Measurement(report) # Failure
           /\ Measurement(report).tokens = report.tokens
           /\ Measurement(report).create = report.prefill + report.save + report.restore
           /\ Measurement(report).saving = IF report.saving = <<>> THEN 0 ELSE report.saving[1]
<1> DEFINE c == report.prefill + report.save + report.restore
           s == IF report.saving = <<>> THEN 0 ELSE report.saving[1]
           m == [status |-> "measured", tokens |-> report.tokens, create |-> c, saving |-> s,
                 break_even |-> report.break_even]
<1>1. report.tokens \in Nat /\ c \in Nat /\ report.break_even \in Int
  BY DEF Report
<1>2. s \in Int
  <2>1. report.saving \in {<<>>} \cup {<<x>> : x \in Int}
    BY DEF Report
  <2> QED BY <2>1, SavingCases
<1>3. Measurement(report) = m
  BY Zenon DEF Measurement
<1> HIDE DEF c, s
<1>4. m \in Measurements /\ m # Failure /\ m.tokens = report.tokens /\ m.create = c /\ m.saving = s
  BY <1>1, <1>2 DEF Measurements, Failure
<1> QED BY <1>3, <1>4 DEF c, s

(* The last report for a request is the one that counts.                      *)
LEMMA LatestIs ==
    ASSUME NEW reports, NEW n \in Nat, DOMAIN reports = 1 .. n, NEW request, NEW k \in 1 .. n,
           IsFor(reports[k], request), \A j \in 1 .. n : IsFor(reports[j], request) => j <= k
    PROVE  LatestPhaseMeasurement(reports, request) = Measurement(reports[k])
<1> DEFINE found == {j \in DOMAIN reports : IsFor(reports[j], request)}
<1>1. k \in found /\ found \subseteq 1 .. n /\ \A j \in found : j <= k
  OBVIOUS
<1>2. LatestPhaseMeasurement(reports, request) = IF found = {} THEN Failure ELSE Measurement(reports[Max(found)])
  BY Zenon DEF LatestPhaseMeasurement
<1> HIDE DEF found
<1>3. IsFiniteSet(found) /\ found \subseteq Int /\ found # {}
  <2>1. IsFiniteSet(1 .. n) /\ 1 .. n \subseteq Int
    BY FS_Interval
  <2> QED BY <1>1, <2>1, FS_Subset
<1>4. Max(found) \in found /\ k <= Max(found)
  BY <1>1, <1>3, LargestElement
<1>5. Max(found) = k
  <2> DEFINE m == Max(found)
  <2>1. m \in 1 .. n /\ m <= k /\ k <= m
    BY <1>1, <1>4
  <2> HIDE DEF m
  <2>2. m = k
    BY <2>1
  <2> QED BY <2>2 DEF m
<1> QED BY <1>2, <1>3, <1>5

(* The latest of no report, of one, and of two.                               *)
LEMMA NoReports == \A request : LatestPhaseMeasurement(<<>>, request) = Failure
<1> SUFFICES ASSUME NEW request PROVE LatestPhaseMeasurement(<<>>, request) = Failure
  OBVIOUS
<1> DEFINE none == <<>>
           found == {j \in DOMAIN none : IsFor(none[j], request)}
<1>1. found = {}
  OBVIOUS
<1>2. LatestPhaseMeasurement(none, request) = IF found = {} THEN Failure ELSE Measurement(none[Max(found)])
  BY Zenon DEF LatestPhaseMeasurement
<1> QED BY <1>1, <1>2

LEMMA OneReport ==
    ASSUME NEW r, NEW request, IsFor(r, request)
    PROVE  LatestPhaseMeasurement(<<r>>, request) = Measurement(r)
<1> DEFINE reports == <<r>>
<1>1. DOMAIN reports = 1 .. 1 /\ reports[1] = r
  OBVIOUS
<1> HIDE DEF reports
<1>2. LatestPhaseMeasurement(reports, request) = Measurement(reports[1])
  <2> DEFINE n == 1
  <2>1. n \in Nat /\ 1 \in 1 .. n /\ DOMAIN reports = 1 .. n /\ IsFor(reports[1], request)
        /\ \A j \in 1 .. n : IsFor(reports[j], request) => j <= 1
    BY <1>1
  <2> HIDE DEF n
  <2> QED BY <2>1, LatestIs
<1> QED BY <1>1, <1>2 DEF reports

LEMMA TwoReports ==
    ASSUME NEW r, NEW s, NEW request, IsFor(r, request)
    PROVE  LatestPhaseMeasurement(<<r, s>>, request) = IF IsFor(s, request) THEN Measurement(s) ELSE Measurement(r)
<1> DEFINE reports == <<r, s>>
<1>1. DOMAIN reports = 1 .. 2 /\ reports[1] = r /\ reports[2] = s
  OBVIOUS
<1> HIDE DEF reports
<1>2. \A j \in 1 .. 2 : j = 1 \/ j = 2
  OBVIOUS
<1>3. CASE IsFor(s, request)
  <2>1. LatestPhaseMeasurement(reports, request) = Measurement(reports[2])
    <3> DEFINE n == 2
               k == 2
    <3>1. n \in Nat /\ k \in 1 .. n /\ DOMAIN reports = 1 .. n /\ IsFor(reports[k], request)
          /\ \A j \in 1 .. n : IsFor(reports[j], request) => j <= k
      BY <1>1, <1>2, <1>3
    <3> HIDE DEF n, k
    <3>2. LatestPhaseMeasurement(reports, request) = Measurement(reports[k])
      BY <3>1, LatestIs
    <3> QED BY <3>2 DEF k
  <2> QED BY <1>1, <1>3, <2>1 DEF reports
<1>4. CASE ~IsFor(s, request)
  <2>1. \A j \in 1 .. 2 : IsFor(reports[j], request) => j <= 1
    BY <1>1, <1>2, <1>4
  <2>2. LatestPhaseMeasurement(reports, request) = Measurement(reports[1])
    <3> DEFINE n == 2
               k == 1
    <3>1. n \in Nat /\ k \in 1 .. n /\ DOMAIN reports = 1 .. n /\ IsFor(reports[k], request)
          /\ \A j \in 1 .. n : IsFor(reports[j], request) => j <= k
      BY <1>1, <2>1
    <3> HIDE DEF n, k
    <3>2. LatestPhaseMeasurement(reports, request) = Measurement(reports[k])
      BY <3>1, LatestIs
    <3> QED BY <3>2 DEF k
  <2> QED BY <1>1, <1>4, <2>2 DEF reports
<1> QED BY <1>3, <1>4

-----------------------------------------------------------------------------
(* What a plan makes of a report of a run that made its slot: the break-even  *)
(* is the run's, for a prompt of any length.                                  *)
LEMMA BreakEvensSame ==
    ASSUME ChoiceIsSound, NEW o \in Options, NEW run \in RunTaken, ~run.existing, NEW report,
           report = PhaseReport(ChosenRequest, run)
    PROVE  EconomicsOf(o, Measurement(report)).break_even = report.break_even
<1> DEFINE m == Measurement(report)
           c == run.prefill + run.save + run.restore
           saved == SavedBy(run)
           s == m.saving
           t == o.prompt_tokens
           d == run.tokens
           f == Fraction(c * t, d)
           g == Fraction(s * t, d)
           saving == PositivePart(g)
           n == CeilOf(f, saving)
<1>1. /\ report \in Report /\ report.tokens = d /\ report.prefill = run.prefill /\ report.save = run.save
      /\ report.restore = run.restore /\ report.saving = saved /\ report.break_even = BreakEvenOf(run)
  BY ReportIs
<1>2. /\ m \in Measurements /\ m # Failure /\ m.tokens = d /\ m.create = c
      /\ s = IF saved = <<>> THEN 0 ELSE saved[1]
  BY <1>1, MeasurementIs
<1>3. c \in Nat /\ d \in Nat \ {0} /\ t \in Nat \ {0}
  <2>1. c \in Nat /\ d \in Nat \ {0}
    BY DEF RunTaken
  <2>2. t \in Nat \ {0}
    BY DEF Options
  <2> QED BY <2>1, <2>2
<1>4. IsMeasured(m) /\ s \in Int
  BY <1>2, <1>3 DEF IsMeasured, Measurements
<1>5. EconomicsOf(o, m).break_even = IF saving.num > 0 THEN n ELSE 0
  <2> DEFINE normal == MsForTokens(t, Chosen.decode.prompt_tps)
             total == Plus(normal, MsForTokens(o.new_tokens, Chosen.decode.generation_tps))
             create == CreateTime(o, total, Chosen.prefill, m)
             save == SavingTime(o, normal, m)
  <2>1. create = f
    BY <1>2, <1>4 DEF CreateTime
  <2>2. save = saving
    BY <1>2, <1>4 DEF SavingTime
  <2>3. EconomicsOf(o, m) = Economics(total, create, save)
    BY Zenon DEF EconomicsOf, EstimateBreakEven
  <2> HIDE DEF total, create, save, m
  <2>4. Economics(total, create, save).break_even = IF save.num > 0 THEN CeilOf(create, save) ELSE 0
    BY DEF Economics, NoBreakEven
  <2> QED BY <2>1, <2>2, <2>3, <2>4 DEF m
<1>6. report.break_even = IF saved = <<>> THEN 0 ELSE IF s <= 0 THEN 0 ELSE CeilOf(Fraction(c, 1), Fraction(s, 1))
  BY <1>1, <1>2 DEF BreakEvenOf, NoBreakEven
<1> HIDE DEF c, t, d, m, s, saved
<1>7. c * t \in Nat /\ s * t \in Int
  BY <1>3, <1>4, Product, Multiply
<1>8. Is(f, c * t, d) /\ Is(g, s * t, d)
  BY <1>3, <1>7, FractionIs
<1> HIDE DEF f, g
<1>9. Is(saving, NotNegative(s * t), d) /\ NotNegative(s * t) \in Int
  BY <1>3, <1>7, <1>8, PositiveIs DEF NotNegative
<1>10. saving.num > 0 <=> NotNegative(s * t) > 0
  BY <1>3, <1>9, SignIs
<1>11. s * t > 0 <=> s > 0
  <2>1. 0 * t < s * t <=> 0 < s
    BY <1>3, <1>4, Cancel
  <2> QED BY <1>3, <1>7, <2>1
<1>12. CASE s > 0
  <2> DEFINE k == CeilOf(Fraction(c, 1), Fraction(s, 1))
             st == s * t
  <2>1. NotNegative(s * t) = s * t /\ s \in Nat \ {0} /\ st \in Nat \ {0} /\ Is(saving, st, d)
    BY <1>4, <1>7, <1>9, <1>11, <1>12 DEF NotNegative
  <2>2. n \in Int /\ c * t <= n * st /\ (n - 1) * st < c * t
    <3> HIDE DEF st, saving
    <3> QED BY <1>3, <1>7, <1>8, <2>1, CeilIs
  <2>3. k \in Int /\ c <= k * s /\ (k - 1) * s < c
    <3> DEFINE a == Fraction(c, 1)
               b == Fraction(s, 1)
    <3>1. Is(a, c, 1) /\ Is(b, s, 1)
      BY <1>3, <2>1, FractionIs
    <3> HIDE DEF a, b
    <3>2. CeilOf(a, b) \in Int /\ c <= CeilOf(a, b) * s /\ (CeilOf(a, b) - 1) * s < c
      BY <1>3, <2>1, <3>1, CeilIs
    <3> QED BY <3>2 DEF a, b
  <2> HIDE DEF k, n
  <2>4. c <= n * s /\ (n - 1) * s < c
    <3>1. n * st = (n * s) * t /\ (n - 1) * st = ((n - 1) * s) * t
      BY <1>3, <1>4, <2>2
    <3>2. n * s \in Int /\ n - 1 \in Int /\ (n - 1) * s \in Int
      BY <1>4, <2>2, Multiply
    <3> HIDE DEF st
    <3>3. c * t <= (n * s) * t <=> c <= n * s
      BY <1>3, <3>2, Cancel
    <3>4. ((n - 1) * s) * t < c * t <=> (n - 1) * s < c
      BY <1>3, <3>2, Cancel
    <3> QED BY <2>2, <3>1, <3>3, <3>4
  <2>5. n = k
    BY <1>3, <2>1, <2>2, <2>3, <2>4, OneCeil
  <2>6. saving.num > 0
    BY <1>10, <1>11, <1>12, <2>1
  <2>7. saved # <<>>
    BY <1>2, <1>12
  <2>8. EconomicsOf(o, m).break_even = n
    BY <1>5, <2>6 DEF n
  <2>9. report.break_even = k
    BY <1>4, <1>6, <1>12, <2>7 DEF k
  <2> QED BY <2>5, <2>8, <2>9 DEF m
<1>13. CASE s <= 0
  <2>1. ~(s * t > 0) /\ NotNegative(s * t) = 0
    BY <1>4, <1>7, <1>11, <1>13 DEF NotNegative
  <2>2. ~(saving.num > 0)
    BY <1>10, <2>1
  <2>3. EconomicsOf(o, m).break_even = 0
    BY <1>5, <2>2
  <2> QED BY <1>6, <1>13, <2>3 DEF m
<1> QED BY <1>4, <1>12, <1>13

(* Without tokens a report says nothing of times.                             *)
LEMMA UnmeasuredIs ==
    ASSUME ChoiceIsSound, NEW o \in Options, NEW m, ~IsMeasured(m)
    PROVE  EconomicsOf(o, m) = EconomicsOf(o, Failure)
<1>1. ~IsMeasured(Failure)
  BY DEF IsMeasured
<1>2. \A x : CreateTime(o, x, Chosen.prefill, m) = CreateTime(o, x, Chosen.prefill, Failure)
  BY <1>1 DEF CreateTime
<1>3. \A x : SavingTime(o, x, m) = SavingTime(o, x, Failure)
  BY <1>1 DEF SavingTime
<1> DEFINE normal == MsForTokens(o.prompt_tokens, Chosen.decode.prompt_tps)
           total == Plus(normal, MsForTokens(o.new_tokens, Chosen.decode.generation_tps))
<1>4. \A x : EconomicsOf(o, x) = Economics(total, CreateTime(o, total, Chosen.prefill, x), SavingTime(o, normal, x))
  BY Zenon DEF EconomicsOf, EstimateBreakEven
<1> HIDE DEF normal, total
<1> QED BY <1>2, <1>3, <1>4

\* What is given for a plan.
PlanInput(i) == i.o \in Options /\ i.hw \in Hardware /\ i.run \in RunTaken

(* A report that does not count changes nothing, a later one that does hides  *)
(* the earlier.                                                               *)
LEMMA LastCounts ==
    ASSUME ChoiceIsSound, NEW i, PlanInput(i), NEW report, NEW reuse,
           report = PhaseReport(ChosenRequest, i.run),
           reuse = PhaseReport(ChosenRequest, [i.run EXCEPT !.existing = TRUE])
    PROVE  LastReportCounts(i, PlanOf(i, 1, <<>>, {}), PlanOf(i, 1, <<report>>, {}), report, reuse)
<1> DEFINE other   == [report EXCEPT !.tokens = 1, !.prefill = 7, !.saving = <<1>>]
           skipped == {[other EXCEPT !.readable = FALSE], [other EXCEPT !.prefill_ngl = report.prefill_ngl + 1],
                       [other EXCEPT !.cache_type = "f16"], [other EXCEPT !.context = report.context + 1]}
           before == PlanOf(i, 1, <<>>, {})
           after  == PlanOf(i, 1, <<report>>, {})
           again  == [i.run EXCEPT !.existing = TRUE]
<1>1. report \in Report /\ IsFor(report, ChosenRequest) /\ report.cache_type = "q8_0"
  BY ReportIs DEF PlanInput
<1>2. again \in RunTaken /\ again.existing = TRUE
  BY DEF PlanInput, RunTaken
<1>3. reuse \in Report /\ IsFor(reuse, ChosenRequest) /\ reuse.tokens = 0
  <2> HIDE DEF again
  <2>1. reuse = PhaseReport(ChosenRequest, again)
    BY DEF again
  <2> QED BY <1>2, <2>1, ReportIs
<1>4. i.o \in Options
  BY DEF PlanInput
<1> DEFINE e(m) == EconomicsOf(i.o, m)
<1>5. before.economics = e(Failure)
  BY <1>4, NoReports, PlanParts
<1>6. after.economics = e(Measurement(report))
  BY <1>1, <1>4, OneReport, PlanParts
<1>7. PlanOf(i, 1, <<report, reuse>>, {}).economics = before.economics
  <2>1. LatestPhaseMeasurement(<<report, reuse>>, ChosenRequest) = Measurement(reuse)
    BY <1>1, <1>3, TwoReports
  <2>2. PlanOf(i, 1, <<report, reuse>>, {}).economics = e(Measurement(reuse))
    BY <1>4, <2>1, PlanParts
  <2>3. ~IsMeasured(Measurement(reuse))
    <3>1. Measurement(reuse).tokens = 0
      BY <1>3, MeasurementIs
    <3> QED BY <3>1 DEF IsMeasured
  <2>4. e(Measurement(reuse)) = e(Failure)
    BY <1>4, <2>3, UnmeasuredIs
  <2> QED BY <1>5, <2>2, <2>4
<1>8. ASSUME NEW r \in skipped PROVE r # reuse /\ ~IsFor(r, ChosenRequest)
  <2>1. /\ other.tokens = 1 /\ other.readable = report.readable /\ other.prefill_ngl = report.prefill_ngl
        /\ other.cache_type = "q8_0" /\ other.context = report.context
        /\ DOMAIN other = DOMAIN report
    BY <1>1 DEF Report
  <2>2. /\ "tokens" \in DOMAIN report /\ "readable" \in DOMAIN report /\ "prefill_ngl" \in DOMAIN report
        /\ "cache_type" \in DOMAIN report /\ "context" \in DOMAIN report
        /\ report.prefill_ngl \in Int /\ report.context \in Int
    BY <1>1 DEF Report
  <2>3. /\ report.prefill_ngl = ChosenRequest.prefill_ngl /\ report.context = ChosenRequest.context
        /\ ChosenRequest.cache_type = "q8_0"
    BY <1>1 DEF IsFor, ChosenRequest
  <2> HIDE DEF other
  <2>4. r.tokens = 1
    BY <2>1, <2>2
  <2>5. \/ ~r.readable \/ r.prefill_ngl = report.prefill_ngl + 1 \/ r.cache_type = "f16" \/ r.context = report.context + 1
    BY <2>1, <2>2
  <2>6. ~IsFor(r, ChosenRequest)
    BY <2>2, <2>3, <2>5 DEF IsFor
  <2> QED BY <1>3, <2>4, <2>6
<1>9. ASSUME NEW r \in skipped PROVE PlanOf(i, 1, <<report, r>>, {}).economics = after.economics
  <2>1. LatestPhaseMeasurement(<<report, r>>, ChosenRequest) = Measurement(report)
    <3>1. ~IsFor(r, ChosenRequest)
      BY <1>8
    <3> HIDE DEF skipped
    <3> QED BY <1>1, <3>1, TwoReports
  <2> HIDE DEF skipped, after, e
  <2>2. PlanOf(i, 1, <<report, r>>, {}).economics = e(Measurement(report))
    BY <1>4, <2>1, PlanParts DEF e
  <2> QED BY <1>6, <2>2
<1>10. ASSUME NEW r \in skipped \cup {reuse}
       PROVE  PlanOf(i, 1, <<report, r>>, {}).economics = IF r = reuse THEN before.economics ELSE after.economics
  <2> HIDE DEF skipped, before, after
  <2> QED BY <1>7, <1>8, <1>9
<1> HIDE DEF before, after
<1>11. LastReportCounts(i, before, after, report, reuse)
  BY <1>10 DEF LastReportCounts
<1> QED BY <1>11 DEF before, after

(* A slot that is made is used by the next plan, and one of other placements  *)
(* is not.                                                                    *)
LEMMA SlotsUsed ==
    ASSUME ChoiceIsSound, NEW i, PlanInput(i), NEW report
    PROVE  SlotsAreUsed(i, PlanOf(i, 1000, <<>>, {}), report)
<1> DEFINE first == PlanOf(i, 1000, <<>>, {})
           request == first.request
           other == [request EXCEPT !.decode_ngl = request.decode_ngl + 1]
           next(slots) == PlanOf(i, 1, <<report>>, slots)
           m == LatestPhaseMeasurement(<<report>>, ChosenRequest)
<1>1. i.o \in Options
  BY DEF PlanInput
<1>2. /\ request = ChosenRequest
      /\ first.strategy = StrategyOf(Expecting(i.o, 1000), i.o.prompt /\ ChosenRequest \in {},
                                     EconomicsOf(i.o, Failure).break_even, LevelOf(i.hw))
  BY <1>1, NoReports, PlanParts
<1>3. ASSUME NEW slots
      PROVE  /\ next(slots).request = ChosenRequest
             /\ next(slots).strategy = StrategyOf(Expecting(i.o, 1), i.o.prompt /\ ChosenRequest \in slots,
                                                  EconomicsOf(i.o, m).break_even, LevelOf(i.hw))
  BY <1>1, PlanParts
<1>4. \A n \in Nat : /\ Expecting(i.o, n) \in Options /\ Expecting(i.o, n).strategy = i.o.strategy
                     /\ Expecting(i.o, n).prompt = i.o.prompt
  BY <1>1, ExpectingIs
<1> HIDE DEF first, m, next
<1>5. first.strategy = "phase-create" => i.o.strategy # "normal" /\ i.o.prompt
  <2> DEFINE o == Expecting(i.o, 1000)
             b == EconomicsOf(i.o, Failure).break_even
             level == LevelOf(i.hw)
  <2>1. first.strategy = StrategyOf(o, FALSE, b, level)
    <3>1. (i.o.prompt /\ ChosenRequest \in {}) = FALSE
      OBVIOUS
    <3> QED BY <1>2, <3>1, ZenonT(60)
  <2>2. o \in Options /\ o.strategy = i.o.strategy /\ o.prompt = i.o.prompt
    BY <1>4
  <2> DEFINE hit == FALSE
             s == StrategyOf(o, hit, b, level)
  <2>3. hit \in BOOLEAN /\ first.strategy = s
    BY <2>1
  <2> HIDE DEF o, b, level, hit
  <2>4. s = "phase-create" => o.strategy # "normal" /\ o.prompt
    BY <2>2, <2>3, StrategyIs
  <2> QED BY <2>2, <2>3, <2>4
<1>6. ASSUME i.o.strategy # "normal", i.o.prompt PROVE next({request}).strategy = "phase-reuse" /\ next({request}).request = request
  <2> DEFINE o == Expecting(i.o, 1)
             b == EconomicsOf(i.o, m).break_even
             level == LevelOf(i.hw)
             slots == {request}
             hit == i.o.prompt /\ ChosenRequest \in slots
  <2>1. hit = TRUE
    BY <1>2, <1>6
  <2>2. o \in Options /\ o.strategy = i.o.strategy
    BY <1>4
  <2> HIDE DEF o, b, level, slots
  <2>3. next(slots).strategy = StrategyOf(o, hit, b, level) /\ next(slots).request = request
    BY <1>2, <1>3 DEF o, b, level
  <2> HIDE DEF hit
  <2>4. StrategyOf(o, hit, b, level) = "phase-reuse"
    BY <1>6, <2>1, <2>2, StrategyIs
  <2>5. next(slots).strategy = "phase-reuse" /\ next(slots).request = request
    BY <2>3, <2>4
  <2> QED BY <2>5 DEF slots
<1>7. next({other}).strategy # "phase-reuse"
  <2> DEFINE o == Expecting(i.o, 1)
             b == EconomicsOf(i.o, m).break_even
             level == LevelOf(i.hw)
  <2>1. ChosenRequest # other
    <3>1. ChosenRequest.decode_ngl \in Int /\ "decode_ngl" \in DOMAIN ChosenRequest
      BY DEF ChosenRequest, ChoiceIsSound
    <3>2. other.decode_ngl = ChosenRequest.decode_ngl + 1
      <4> HIDE DEF request
      <4> QED BY <1>2, <3>1
    <3> HIDE DEF other
    <3> QED BY <3>1, <3>2
  <2>2. next({other}).strategy = StrategyOf(o, FALSE, b, level)
    <3>1. (i.o.prompt /\ ChosenRequest \in {other}) = FALSE
      BY <2>1
    <3> QED BY <1>3, <3>1
  <2>3. o \in Options
    BY <1>4
  <2> HIDE DEF o, b, level, other
  <2> QED BY <2>2, <2>3, StrategyIs
<1> QED BY <1>5, <1>6, <1>7 DEF SlotsAreUsed, first, next

(* For any request, any memory and any times of an earlier run.               *)
LEMMA PlansHold ==
    ASSUME ChoiceIsSound, NEW i, PlanInput(i)
    PROVE  PlansFollow(i, PlanOf(i, 1, <<>>, {}))
<1> DEFINE before == PlanOf(i, 1, <<>>, {})
           report == PhaseReport(ChosenRequest, i.run)
           reuse == PhaseReport(ChosenRequest, [i.run EXCEPT !.existing = TRUE])
           after == PlanOf(i, 1, <<report>>, {})
           none == LatestPhaseMeasurement(<<>>, ChosenRequest)
           one == LatestPhaseMeasurement(<<report>>, ChosenRequest)
<1>1. i.o \in Options /\ i.hw \in Hardware /\ i.run \in RunTaken
  BY DEF PlanInput
<1>2. report \in Report /\ IsFor(report, ChosenRequest)
  BY <1>1, ReportIs
<1>3. none = Failure /\ one = Measurement(report)
  BY <1>2, NoReports, OneReport
<1>4. none \in Measurements /\ one \in Measurements
  BY <1>2, <1>3, MeasurementIs DEF Measurements
<1>5. before.request = ChosenRequest /\ before.economics = EconomicsOf(i.o, none)
  BY <1>1, PlanParts
<1>6. after.economics = EconomicsOf(i.o, one)
  BY <1>1, PlanParts
<1>7. PlanAgrees(i, <<>>, before)
  BY <1>1, <1>4, <1>5, SlotsPayOff DEF PlanAgrees
<1>8. PlanAgrees(i, <<report>>, after)
  BY <1>1, <1>4, <1>6, SlotsPayOff DEF PlanAgrees
<1>9. BreakEvensAgree(i, report, after)
  <2>1. ~i.run.existing => EconomicsOf(i.o, Measurement(report)).break_even = report.break_even
    BY <1>1, BreakEvensSame
  <2> HIDE DEF report, after, one
  <2> QED BY <1>3, <1>6, <2>1 DEF BreakEvensAgree
<1>10. SlotsAreUsed(i, PlanOf(i, 1000, <<>>, {}), report)
  BY SlotsUsed
<1>11. LastReportCounts(i, before, after, report, reuse)
  BY LastCounts
<1>12. ReportFor(before, i.run) = report /\ ReportFor(before, [i.run EXCEPT !.existing = TRUE]) = reuse
  <2> HIDE DEF before
  <2> QED BY <1>5 DEF ReportFor
<1> HIDE DEF before, report, reuse, after
<1>13. PlansAgree(i, before, after, report, reuse)
  BY <1>7, <1>8, <1>9, <1>10, <1>11 DEF PlansAgree
<1>14. PlansFollow(i, before)
  BY <1>12, <1>13 DEF PlansFollow, PlansAgreeWith, after
<1> QED BY <1>14 DEF before

-----------------------------------------------------------------------------
(* Placements, for any profile. A profile measures once what no run has       *)
(* twice, at generation or at prompts.                                        *)
Modes == {"chat", "balanced", "prefill"}
CacheTypes == {"f32", "f16", "bf16", "q8_0", "q4_0", "q4_1", "iq4_nl", "q5_0", "q5_1"}
BenchRow == [n_gpu_layers : Int, type_k : CacheTypes, type_v : CacheTypes, n_gen : Nat, n_prompt : Nat, avg_ts : Nat]
Placement ==
    [n_gpu_layers : Int, type_k : CacheTypes, type_v : CacheTypes, generation_tps : Nat, prompt_tps : Nat, score : Nat]

MeasuredOnce(rows) ==
    /\ \A j, k \in Generations(rows) : RunOf(rows[j]) = RunOf(rows[k]) => j = k
    /\ \A j, k \in Prompts(rows) : RunOf(rows[j]) = RunOf(rows[k]) => j = k

\* The runs that are measured at generation.
Usable(rows) == {RunOf(rows[k]) : k \in Generations(rows)}

(* A score is a whole number.                                                 *)
LEMMA ScoreTyped == \A mode \in Modes, tg \in Nat, pp \in Nat : Score(mode, tg, pp) \in Nat
<1> SUFFICES ASSUME NEW mode \in Modes, NEW tg \in Nat, NEW pp \in Nat PROVE Score(mode, tg, pp) \in Nat
  OBVIOUS
<1> DEFINE b == 3000 + Smaller(pp, 1000)
           p == tg * b
<1>1. b \in Nat
  BY DEF Smaller
<1> HIDE DEF b
<1>2. p \in Nat
  BY <1>1, Product
<1>3. Score(mode, tg, pp) = CASE mode = "prefill" -> pp [] mode = "balanced" -> p [] mode = "chat" -> tg
  BY DEF Score, b
<1> HIDE DEF p
<1> QED BY <1>2, <1>3 DEF Modes

(* The rows of a run are finitely many.                                       *)
LEMMA RowsOfRun ==
    ASSUME NEW rows \in Seq(BenchRow), NEW kind, kind \subseteq DOMAIN rows, NEW run
    PROVE  /\ OfRun(rows, kind, run) \subseteq kind /\ OfRun(rows, kind, run) \subseteq Nat
           /\ IsFiniteSet(OfRun(rows, kind, run))
<1>1. Len(rows) \in Nat /\ DOMAIN rows = 1 .. Len(rows)
  OBVIOUS
<1>2. IsFiniteSet(DOMAIN rows)
  BY <1>1, FS_Interval
<1>3. OfRun(rows, kind, run) \subseteq kind /\ OfRun(rows, kind, run) \subseteq DOMAIN rows
  BY DEF OfRun
<1> QED BY <1>1, <1>2, <1>3, FS_Subset

(* The speed of a run is that of its row, if no other row measures it.        *)
LEMMA SpeedIs ==
    ASSUME NEW rows \in Seq(BenchRow), NEW kind, kind \subseteq DOMAIN rows, NEW run
    PROVE  /\ SpeedOf(rows, kind, run) \in Nat
           /\ OfRun(rows, kind, run) = {} => SpeedOf(rows, kind, run) = 0
           /\ \A k \in OfRun(rows, kind, run) :
                 (\A j \in OfRun(rows, kind, run) : j = k) => SpeedOf(rows, kind, run) = rows[k].avg_ts
<1> DEFINE S == OfRun(rows, kind, run)
<1>1. S \subseteq DOMAIN rows /\ IsFiniteSet(S) /\ S \subseteq Int
  BY RowsOfRun
<1>2. SpeedOf(rows, kind, run) = IF S = {} THEN 0 ELSE rows[Max(S)].avg_ts
  BY Zenon DEF SpeedOf
<1>3. \A k \in DOMAIN rows : rows[k].avg_ts \in Nat
  <2>1. \A k \in DOMAIN rows : rows[k] \in BenchRow
    OBVIOUS
  <2>2. \A row \in BenchRow : row.avg_ts \in Nat
    BY DEF BenchRow
  <2> QED BY <2>1, <2>2
<1> HIDE DEF S
<1>4. CASE S = {}
  BY <1>2, <1>4 DEF S
<1>5. CASE S # {}
  <2>1. Max(S) \in S
    BY <1>1, <1>5, LargestElement
  <2> QED BY <1>1, <1>2, <1>3, <1>5, <2>1 DEF S
<1> QED BY <1>4, <1>5

(* Every row has a first one of its run.                                      *)
LEMMA FirstOfRun ==
    ASSUME NEW rows \in Seq(BenchRow), NEW k \in DOMAIN rows
    PROVE  \E f \in FirstRows(rows) : RunOf(rows[f]) = RunOf(rows[k])
<1> DEFINE S == OfRun(rows, DOMAIN rows, RunOf(rows[k]))
<1>1. S \subseteq Nat /\ S # {} /\ \A f \in S : f \in DOMAIN rows /\ RunOf(rows[f]) = RunOf(rows[k])
  <2>1. S \subseteq Nat
    BY RowsOfRun
  <2> QED BY <2>1 DEF OfRun
<1>2. PICK f \in S : \A j \in S : f <= j
  <2> HIDE DEF S
  <2> QED BY <1>1, LeastElement
<1>3. RunOf(rows[f]) = RunOf(rows[k]) /\ f \in DOMAIN rows
  BY <1>1, <1>2
<1>4. f \in FirstRows(rows)
  BY <1>2, <1>3 DEF FirstRows
<1> QED BY <1>3, <1>4

LEMMA KeysTakePlaces ==
    ASSUME NEW S, IsFiniteSet(S), NEW key \in [S -> Int], \A x \in S, y \in S : key[x] = key[y] => x = y,
           NEW k \in 1 .. Cardinality(S)
    PROVE  \E x \in S : Place(key, S, x) = k - 1
BY KeysGivePlaces

(* Elements by score, equals in their order: by one key.                      *)
Ranking(score, S, x) == Cardinality({y \in S : score[y] > score[x] \/ (score[y] = score[x] /\ y < x)})

PlacesAreTaken(score, S) ==
    /\ \A x \in S : Ranking(score, S, x) \in Nat /\ Ranking(score, S, x) < Cardinality(S)
    /\ \A x \in S, y \in S : Ranking(score, S, x) = Ranking(score, S, y) => x = y
    /\ \A k \in 1 .. Cardinality(S) : \E x \in S : Ranking(score, S, x) = k - 1

(* The number of better elements is a place of its own for each element.      *)
LEMMA ScoresGivePlaces ==
    ASSUME NEW S, IsFiniteSet(S), S \subseteq Nat, NEW score \in [S -> Nat]
    PROVE  PlacesAreTaken(score, S)
<1>0. PICK n \in Nat : S \subseteq 0 .. n
  <2>1. CASE S = {}
    BY <2>1
  <2>2. CASE S # {}
    <3>1. S \subseteq Int
      OBVIOUS
    <3>2. Max(S) \in S /\ \A x \in S : x <= Max(S)
      BY <2>2, <3>1, LargestElement
    <3> DEFINE n == Max(S)
    <3>3. n \in S /\ \A x \in S : x <= n
      BY <3>2
    <3> HIDE DEF n
    <3>4. n \in Nat /\ S \subseteq Nat
      BY <3>3
    <3>5. \A x \in S : x \in 0 .. n
      BY <3>3, <3>4
    <3> QED BY <3>4, <3>5
  <2> QED BY <2>1, <2>2
<1> DEFINE key == [x \in S |-> x - score[x] * (n + 1)]
<1>1. \A x \in S : score[x] * (n + 1) \in Nat /\ x \in 0 .. n /\ score[x] \in Nat
  <2>1. \A x \in S : score[x] \in Nat /\ n + 1 \in Nat /\ x \in 0 .. n
    BY <1>0
  <2> QED BY <2>1, Product
<1>2. key \in [S -> Int]
  BY <1>1
<1>3. ASSUME NEW x \in S, NEW y \in S, score[y] > score[x] PROVE key[y] < key[x] /\ key[x] # key[y]
  <2> DEFINE a == score[x]
             b == score[y]
             d == b - a - 1
  <2>1. a \in Nat /\ b \in Nat /\ d \in Nat /\ b = a + 1 + d
    BY <1>1, <1>3
  <2> HIDE DEF a, b, d
  <2>2. b * (n + 1) = a * (n + 1) + (n + 1) + d * (n + 1)
    BY <2>1
  <2>3. d * (n + 1) \in Nat /\ a * (n + 1) \in Nat
    BY <2>1, Product
  <2>4. key[y] = y - b * (n + 1) /\ key[x] = x - a * (n + 1) /\ x \in 0 .. n /\ y \in 0 .. n
    BY <1>1 DEF a, b
  <2> DEFINE p == a * (n + 1)
             q == d * (n + 1)
             r == b * (n + 1)
  <2>5. p \in Nat /\ q \in Nat /\ r = p + (n + 1) + q /\ key[y] = y - r /\ key[x] = x - p
    BY <2>2, <2>3, <2>4
  <2> HIDE DEF p, q, r, key
  <2> QED BY <2>4, <2>5
<1>4. ASSUME NEW x \in S, NEW y \in S, score[y] = score[x] PROVE key[y] < key[x] <=> y < x
  <2> DEFINE p == score[x] * (n + 1)
  <2>1. key[y] = y - p /\ key[x] = x - p /\ p \in Nat /\ x \in Int /\ y \in Int
    BY <1>1, <1>4
  <2> HIDE DEF p, key
  <2> QED BY <2>1
<1>5. \A x \in S, y \in S : key[x] \in Int /\ key[y] \in Int /\ score[x] \in Nat /\ score[y] \in Nat /\ x \in Int /\ y \in Int
  BY <1>1, <1>2
<1> HIDE DEF key
<1>6. ASSUME NEW x \in S, NEW y \in S
      PROVE  (score[y] > score[x] \/ (score[y] = score[x] /\ y < x)) <=> key[y] < key[x]
  BY <1>3, <1>4, <1>5
<1>7. \A x \in S, y \in S : key[x] = key[y] => x = y
  <2> SUFFICES ASSUME NEW x \in S, NEW y \in S, key[x] = key[y] PROVE x = y
    OBVIOUS
  <2>1. ~(score[y] > score[x]) /\ ~(score[x] > score[y])
    BY <1>3
  <2>2. score[x] = score[y]
    BY <1>5, <2>1
  <2>3. ~(y < x) /\ ~(x < y)
    BY <1>4, <1>5, <2>2
  <2> QED BY <1>5, <2>3
<1>8. \A x \in S : Ranking(score, S, x) = Place(key, S, x)
  <2> SUFFICES ASSUME NEW x \in S
               PROVE  {y \in S : score[y] > score[x] \/ (score[y] = score[x] /\ y < x)} = {y \in S : key[y] < key[x]}
    BY DEF Ranking, Place
  <2> QED BY <1>6
<1>9. /\ \A x \in S : Place(key, S, x) \in Nat /\ Place(key, S, x) < Cardinality(S)
      /\ \A x \in S, y \in S : Place(key, S, x) = Place(key, S, y) => x = y
      /\ \A k \in 1 .. Cardinality(S) : \E x \in S : Place(key, S, x) = k - 1
  <2>1. IsFiniteSet(S) /\ key \in [S -> Int] /\ \A x \in S, y \in S : key[x] = key[y] => x = y
    BY <1>2, <1>7
  <2>2. \A x \in S : Place(key, S, x) \in Nat /\ Place(key, S, x) < Cardinality(S)
    BY <2>1, KeysGivePlaces
  <2>3. \A x \in S, y \in S : Place(key, S, x) = Place(key, S, y) => x = y
    BY <2>1, KeysGivePlaces
  <2>4. \A k \in 1 .. Cardinality(S) : \E x \in S : Place(key, S, x) = k - 1
    <3> SUFFICES ASSUME NEW k \in 1 .. Cardinality(S) PROVE \E x \in S : Place(key, S, x) = k - 1
      OBVIOUS
    <3> QED BY <2>1, KeysTakePlaces
  <2> QED BY <2>2, <2>3, <2>4
<1>10. \A x \in S : Ranking(score, S, x) \in Nat /\ Ranking(score, S, x) < Cardinality(S)
  BY <1>8, <1>9
<1>11. \A x \in S, y \in S : Ranking(score, S, x) = Ranking(score, S, y) => x = y
  BY <1>8, <1>9
<1>12. \A k \in 1 .. Cardinality(S) : \E x \in S : Ranking(score, S, x) = k - 1
  BY <1>8, <1>9
<1> QED BY <1>10, <1>11, <1>12 DEF PlacesAreTaken

(* In that order every element has a place, and the first has the best score. *)
ByScore(score, S) == [k \in 1 .. Cardinality(S) |-> CHOOSE x \in S : Ranking(score, S, x) = k - 1]

IsBestFirst(score, S, s) ==
    /\ s \in [1 .. Cardinality(S) -> S]
    /\ \A x \in S : \E k \in 1 .. Cardinality(S) : s[k] = x
    /\ Cardinality(S) > 0 => \A x \in S : score[x] <= score[s[1]]

LEMMA BestFirst ==
    ASSUME NEW S, IsFiniteSet(S), S \subseteq Nat, NEW score \in [S -> Nat]
    PROVE  IsBestFirst(score, S, ByScore(score, S))
<1> DEFINE m == Cardinality(S)
           pick(k) == CHOOSE x \in S : Ranking(score, S, x) = k - 1
           s == ByScore(score, S)
<1>1. m \in Nat
  BY FS_CardinalityType
<1>2. /\ \A x \in S : Ranking(score, S, x) \in Nat /\ Ranking(score, S, x) < m
      /\ \A x \in S, y \in S : Ranking(score, S, x) = Ranking(score, S, y) => x = y
      /\ \A k \in 1 .. m : \E x \in S : Ranking(score, S, x) = k - 1
  <2>1. PlacesAreTaken(score, S)
    BY ScoresGivePlaces
  <2> QED BY <2>1 DEF PlacesAreTaken
<1>3. ASSUME NEW k \in 1 .. m PROVE pick(k) \in S /\ Ranking(score, S, pick(k)) = k - 1
  BY <1>2, Zenon
<1>4. s = [k \in 1 .. m |-> pick(k)]
  BY Zenon DEF ByScore
<1> HIDE DEF pick, m, s
<1>5. s \in [1 .. m -> S]
  BY <1>3, <1>4
<1>6. ASSUME NEW x \in S PROVE \E k \in 1 .. m : s[k] = x
  <2> DEFINE k == Ranking(score, S, x) + 1
  <2>1. k \in 1 .. m /\ k - 1 = Ranking(score, S, x)
    BY <1>1, <1>2
  <2> HIDE DEF k
  <2>2. pick(k) \in S /\ Ranking(score, S, pick(k)) = Ranking(score, S, x)
    BY <1>3, <2>1
  <2> QED BY <1>2, <1>4, <2>1, <2>2
<1>7. ASSUME m > 0, NEW x \in S PROVE score[x] <= score[s[1]]
  <2> DEFINE b == s[1]
             before == {y \in S : score[y] > score[b] \/ (score[y] = score[b] /\ y < b)}
  <2>1. 1 \in 1 .. m
    BY <1>1, <1>7
  <2>2. b \in S /\ Ranking(score, S, b) = 0
    <3>1. b = pick(1)
      BY <1>4, <2>1
    <3>2. pick(1) \in S /\ Ranking(score, S, pick(1)) = 1 - 1
      BY <1>3, <2>1
    <3> HIDE DEF b
    <3> QED BY <3>1, <3>2
  <2>3. before \subseteq S
    OBVIOUS
  <2>4. Cardinality(before) = 0
    BY <2>2 DEF Ranking
  <2>5. before = {}
    <3> HIDE DEF before
    <3> QED BY <2>3, <2>4, FS_Subset, FS_EmptySet
  <2>6. ~(score[x] > score[b])
    BY <2>5
  <2> HIDE DEF before, b
  <2>7. score[x] \in Nat /\ score[b] \in Nat
    BY <2>2
  <2> QED BY <2>6, <2>7 DEF b
<1> QED BY <1>1, <1>5, <1>6, <1>7 DEF m, s, IsBestFirst

LEMMA KindsOfRow ==
    ASSUME NEW rows \in Seq(BenchRow)
    PROVE  /\ Len(rows) \in Nat /\ DOMAIN rows = 1 .. Len(rows) /\ IsFiniteSet(DOMAIN rows)
           /\ Cardinality(DOMAIN rows) = Len(rows)
           /\ Generations(rows) \subseteq DOMAIN rows /\ Prompts(rows) \subseteq DOMAIN rows
           /\ \A k \in DOMAIN rows : rows[k] \in BenchRow
<1>1. Len(rows) \in Nat /\ DOMAIN rows = 1 .. Len(rows)
  OBVIOUS
<1>2. IsFiniteSet(1 .. Len(rows)) /\ Cardinality(1 .. Len(rows)) = Len(rows)
  BY <1>1, FS_Interval
<1>3. \A k \in DOMAIN rows : rows[k] \in BenchRow
  OBVIOUS
<1> QED BY <1>1, <1>2, <1>3 DEF Generations, Prompts

(* What is known of a candidate.                                              *)
LEMMA CandidateIs ==
    ASSUME NEW rows \in Seq(BenchRow), NEW mode \in Modes, NEW k \in DOMAIN rows
    PROVE  LET run == RunOf(rows[k])
               c   == Candidate(rows, mode, run)
           IN  /\ c \in Placement
               /\ c.n_gpu_layers = rows[k].n_gpu_layers /\ c.type_k = rows[k].type_k /\ c.type_v = rows[k].type_v
               /\ c.generation_tps = SpeedOf(rows, Generations(rows), run)
               /\ c.prompt_tps = SpeedOf(rows, Prompts(rows), run)
               /\ c.score = Score(mode, c.generation_tps, c.prompt_tps)
<1> DEFINE run == RunOf(rows[k])
           tg == SpeedOf(rows, Generations(rows), run)
           pp == SpeedOf(rows, Prompts(rows), run)
           score == Score(mode, tg, pp)
<1>1. tg \in Nat /\ pp \in Nat
  BY KindsOfRow, SpeedIs
<1>2. score \in Nat
  <2> HIDE DEF tg, pp
  <2> QED BY <1>1, ScoreTyped
<1>3. /\ run.n_gpu_layers = rows[k].n_gpu_layers /\ run.type_k = rows[k].type_k /\ run.type_v = rows[k].type_v
      /\ run.n_gpu_layers \in Int /\ run.type_k \in CacheTypes /\ run.type_v \in CacheTypes
  <2>1. rows[k] \in BenchRow
    BY KindsOfRow
  <2> QED BY <2>1 DEF RunOf, BenchRow
<1>4. Candidate(rows, mode, run) = CandidateOf(run, mode, tg, pp)
  BY Zenon DEF Candidate
<1>5. CandidateOf(run, mode, tg, pp)
        = [n_gpu_layers |-> run.n_gpu_layers, type_k |-> run.type_k, type_v |-> run.type_v,
           generation_tps |-> tg, prompt_tps |-> pp, score |-> score]
  BY Zenon DEF CandidateOf
<1> DEFINE c == Candidate(rows, mode, run)
<1> HIDE DEF run, tg, pp, score
<1>6. /\ c.n_gpu_layers = run.n_gpu_layers /\ c.type_k = run.type_k /\ c.type_v = run.type_v
      /\ c.generation_tps = tg /\ c.prompt_tps = pp /\ c.score = score
  BY <1>4, <1>5
<1>7. c \in Placement
  BY <1>1, <1>2, <1>3, <1>4, <1>5 DEF Placement
<1> HIDE DEF c
<1> QED BY <1>3, <1>6, <1>7 DEF c, run, tg, pp, score

(* The candidates are those of the runs measured at generation, one of the    *)
(* best scores first.                                                         *)
AreRanked(rows, mode, c) ==
    /\ c \in Seq(Placement) /\ Len(c) <= Len(rows)
    /\ \A n \in DOMAIN c : \E run \in Usable(rows) : c[n] = Candidate(rows, mode, run)
    /\ \A run \in Usable(rows) : \E n \in DOMAIN c : c[n] = Candidate(rows, mode, run)
    /\ \A n \in DOMAIN c : c[n].score <= c[1].score

UsableRows(rows) == {k \in FirstRows(rows) : OfRun(rows, Generations(rows), RunOf(rows[k])) # {}}

LEMMA UsableRowsAre ==
    ASSUME NEW rows \in Seq(BenchRow)
    PROVE  /\ IsFiniteSet(UsableRows(rows)) /\ UsableRows(rows) \subseteq Nat /\ UsableRows(rows) \subseteq DOMAIN rows
           /\ Cardinality(UsableRows(rows)) \in Nat /\ Cardinality(UsableRows(rows)) <= Len(rows)
           /\ \A k \in UsableRows(rows) : RunOf(rows[k]) \in Usable(rows)
           /\ \A run \in Usable(rows) : \E k \in UsableRows(rows) : RunOf(rows[k]) = run
<1>1. UsableRows(rows) \subseteq DOMAIN rows
  BY DEF UsableRows, FirstRows
<1>2. IsFiniteSet(UsableRows(rows)) /\ Cardinality(UsableRows(rows)) <= Len(rows)
  BY <1>1, KindsOfRow, FS_Subset
<1>3. UsableRows(rows) \subseteq Nat
  BY <1>1, KindsOfRow
<1>4. ASSUME NEW k \in UsableRows(rows) PROVE RunOf(rows[k]) \in Usable(rows)
  BY DEF UsableRows, OfRun, Usable
<1>5. ASSUME NEW run \in Usable(rows) PROVE \E k \in UsableRows(rows) : RunOf(rows[k]) = run
  <2>1. PICK j \in Generations(rows) : run = RunOf(rows[j])
    BY DEF Usable
  <2>2. PICK k \in FirstRows(rows) : RunOf(rows[k]) = RunOf(rows[j])
    BY KindsOfRow, FirstOfRun
  <2>3. j \in OfRun(rows, Generations(rows), RunOf(rows[k]))
    BY <2>2 DEF OfRun
  <2>4. k \in UsableRows(rows)
    BY <2>3 DEF UsableRows
  <2> QED BY <2>1, <2>2, <2>4
<1> QED BY <1>1, <1>2, <1>3, <1>4, <1>5, FS_CardinalityType

(* The candidates of a profile are ranked.                                    *)
LEMMA CandidatesAreRanked ==
    ASSUME NEW rows \in Seq(BenchRow), NEW mode \in Modes
    PROVE  AreRanked(rows, mode, RunCandidates(rows, mode))
<1> DEFINE S == UsableRows(rows)
           m == Cardinality(S)
           candidate == [k \in S |-> Candidate(rows, mode, RunOf(rows[k]))]
           score == [k \in S |-> candidate[k].score]
           Better(j, k) == \/ candidate[j].score > candidate[k].score
                           \/ candidate[j].score = candidate[k].score /\ j < k
           places == [k \in 1 .. m |-> CHOOSE x \in S : Cardinality({y \in S : Better(y, x)}) = k - 1]
           c == RunCandidates(rows, mode)
<1>1. c = [n \in DOMAIN places |-> candidate[places[n]]]
  BY Zenon DEF RunCandidates, InOrder, UsableRows
<1>2. /\ IsFiniteSet(S) /\ S \subseteq Nat /\ S \subseteq DOMAIN rows /\ m \in Nat /\ m <= Len(rows)
      /\ \A k \in S : RunOf(rows[k]) \in Usable(rows)
      /\ \A run \in Usable(rows) : \E k \in S : RunOf(rows[k]) = run
  BY UsableRowsAre
<1>3. \A k \in S : candidate[k] = Candidate(rows, mode, RunOf(rows[k])) /\ candidate[k] \in Placement
  BY <1>2, CandidateIs
<1>4. \A p \in Placement : p.score \in Nat
  BY DEF Placement
<1>5. score \in [S -> Nat]
  <2> HIDE DEF S, candidate
  <2> QED BY <1>3, <1>4
<1>6. places = ByScore(score, S)
  <2>1. ASSUME NEW x \in S PROVE Cardinality({y \in S : Better(y, x)}) = Ranking(score, S, x)
    <3>1. \A y \in S : Better(y, x) <=> score[y] > score[x] \/ (score[y] = score[x] /\ y < x)
      <4> HIDE DEF candidate, S
      <4> QED OBVIOUS
    <3> HIDE DEF S, score, Better
    <3>2. {y \in S : Better(y, x)} = {y \in S : score[y] > score[x] \/ (score[y] = score[x] /\ y < x)}
      BY <3>1
    <3> QED BY <3>2 DEF Ranking
  <2>2. ASSUME NEW k \in 1 .. m
        PROVE  (CHOOSE x \in S : Cardinality({y \in S : Better(y, x)}) = k - 1) = (CHOOSE x \in S : Ranking(score, S, x) = k - 1)
    <3> HIDE DEF S, score, Better
    <3> QED BY <2>1
  <2> DEFINE given(k) == CHOOSE x \in S : Cardinality({y \in S : Better(y, x)}) = k - 1
             ranked(k) == CHOOSE x \in S : Ranking(score, S, x) = k - 1
  <2>3. places = [k \in 1 .. m |-> given(k)] /\ ByScore(score, S) = [k \in 1 .. m |-> ranked(k)]
    BY Zenon DEF ByScore
  <2>4. \A k \in 1 .. m : given(k) = ranked(k)
    BY <2>2
  <2> HIDE DEF S, score, Better, given, ranked, m, places
  <2> QED BY <2>3, <2>4
<1> HIDE DEF S, score, places, candidate, Better
<1>7. /\ places \in [1 .. m -> S]
      /\ \A x \in S : \E k \in 1 .. m : places[k] = x
      /\ m > 0 => \A x \in S : score[x] <= score[places[1]]
  <2>1. IsBestFirst(score, S, places)
    BY <1>2, <1>5, <1>6, BestFirst
  <2> QED BY <2>1 DEF IsBestFirst
<1>8. DOMAIN places = 1 .. m /\ \A n \in 1 .. m : places[n] \in S
  BY <1>7
<1>9. c = [n \in 1 .. m |-> candidate[places[n]]]
  BY <1>1, <1>8
<1>10. c \in [1 .. m -> Placement]
  BY <1>3, <1>8, <1>9
<1> HIDE DEF c
<1>11. c \in Seq(Placement) /\ Len(c) = m /\ DOMAIN c = 1 .. m
  <2> HIDE DEF m
  <2> QED BY <1>2, <1>10
<1>12. \A n \in 1 .. m : c[n] = Candidate(rows, mode, RunOf(rows[places[n]])) /\ RunOf(rows[places[n]]) \in Usable(rows)
  BY <1>2, <1>3, <1>8, <1>9
<1>13. ASSUME NEW run \in Usable(rows) PROVE \E n \in DOMAIN c : c[n] = Candidate(rows, mode, run)
  <2>1. PICK k \in S : RunOf(rows[k]) = run
    BY <1>2
  <2>2. PICK n \in 1 .. m : places[n] = k
    BY <1>7
  <2> QED BY <1>11, <1>12, <2>1, <2>2
<1>14. ASSUME NEW n \in 1 .. m PROVE c[n].score <= c[1].score
  <2>1. 1 \in 1 .. m /\ m > 0
    BY <1>2
  <2>2. c[n].score = score[places[n]] /\ c[1].score = score[places[1]]
    BY <1>8, <1>9, <2>1 DEF score
  <2> QED BY <1>7, <1>8, <2>1, <2>2
<1> HIDE DEF m
<1> QED BY <1>2, <1>11, <1>12, <1>13, <1>14 DEF AreRanked, c

(* The placement for the prompt: of those it may be, the fastest.             *)
IsFastest(c, places, decode, f) ==
    /\ f = decode \/ \E k \in places : f = c[k]
    /\ \A k \in places : c[k].prompt_tps <= f.prompt_tps

LEMMA FastestIs ==
    ASSUME NEW c \in Seq(Placement), NEW places, places \subseteq DOMAIN c, NEW decode \in Placement
    PROVE  IsFastest(c, places, decode, FastestPrompt(c, places, decode))
<1> DEFINE measured == {k \in places : c[k].prompt_tps > 0}
           fastest  == {k \in measured : \A j \in measured : c[j].prompt_tps <= c[k].prompt_tps}
           speed    == [k \in measured |-> c[k].prompt_tps]
<1>1. FastestPrompt(c, places, decode) = IF measured = {} THEN decode ELSE c[Min(fastest)]
  BY Zenon DEF FastestPrompt
<1>2. \A p \in Placement : p.prompt_tps \in Nat
  BY DEF Placement
<1>3. /\ Len(c) \in Nat /\ DOMAIN c = 1 .. Len(c) /\ \A k \in DOMAIN c : c[k] \in Placement
  OBVIOUS
<1>4. \A k \in places : k \in Nat /\ c[k].prompt_tps \in Nat
  BY <1>2, <1>3
<1>5. CASE measured = {}
  <2>1. \A k \in places : c[k].prompt_tps = 0
    BY <1>4, <1>5
  <2> QED BY <1>1, <1>2, <1>5, <2>1 DEF IsFastest
<1>6. CASE measured # {}
  <2>1. measured \subseteq DOMAIN c /\ measured \subseteq Nat /\ speed \in [measured -> Nat]
    BY <1>4
  <2>2. IsFiniteSet(measured) /\ Cardinality(measured) > 0
    <3>1. IsFiniteSet(DOMAIN c)
      BY <1>3, FS_Interval
    <3>2. IsFiniteSet(measured)
      BY <2>1, <3>1, FS_Subset
    <3> HIDE DEF measured
    <3> QED BY <1>6, <3>2, FS_EmptySet, FS_CardinalityType
  <2>3. fastest # {}
    <3> DEFINE s == ByScore(speed, measured)
    <3>1. IsBestFirst(speed, measured, s)
      <4> HIDE DEF measured, speed, s
      <4> QED BY <2>1, <2>2, BestFirst DEF s
    <3>2. s[1] \in measured
      <4>1. Cardinality(measured) \in Nat
        BY <2>2, FS_CardinalityType
      <4>2. 1 \in 1 .. Cardinality(measured)
        BY <2>2, <4>1
      <4> HIDE DEF measured, speed, s
      <4> QED BY <3>1, <4>2 DEF IsBestFirst
    <3>3. \A j \in measured : speed[j] <= speed[s[1]]
      <4> HIDE DEF measured, speed, s
      <4> QED BY <2>2, <3>1 DEF IsBestFirst
    <3> HIDE DEF s
    <3>4. \A j \in measured : c[j].prompt_tps <= c[s[1]].prompt_tps
      BY <3>2, <3>3
    <3>5. s[1] \in fastest
      <4> HIDE DEF measured
      <4> QED BY <3>2, <3>4
    <3> QED BY <3>5
  <2>4. \E x \in fastest : \A y \in fastest : x <= y
    <3>1. fastest \subseteq Nat
      BY <2>1
    <3> HIDE DEF fastest
    <3> QED BY <2>3, <3>1, LeastElement
  <2>5. Min(fastest) \in fastest
    <3> HIDE DEF fastest
    <3> QED BY <2>4, Zenon DEF Min
  <2> DEFINE k == Min(fastest)
             f == FastestPrompt(c, places, decode)
  <2>6. f = c[k] /\ k \in places /\ k \in measured
    BY <1>1, <1>6, <2>5
  <2>7. \A j \in measured : c[j].prompt_tps <= c[k].prompt_tps
    BY <2>5
  <2> HIDE DEF k, f
  <2>8. \A j \in places : c[j].prompt_tps <= c[k].prompt_tps
    <3> SUFFICES ASSUME NEW j \in places PROVE c[j].prompt_tps <= c[k].prompt_tps
      OBVIOUS
    <3>1. CASE j \in measured
      BY <2>7, <3>1
    <3>2. CASE j \notin measured
      BY <1>4, <2>6, <3>2
    <3> QED BY <3>1, <3>2
  <2>9. IsFastest(c, places, decode, f)
    BY <2>6, <2>8 DEF IsFastest
  <2> QED BY <2>9 DEF f
<1> QED BY <1>5, <1>6

(* A recommendation, by its parts.                                            *)
LEMMA RecommendIs ==
    ASSUME NEW c \in Seq(Placement), c # <<>>
    PROVE  LET r == RecommendOf(c)
           IN  /\ r # Failure /\ r.decode = c[1] /\ r.prefill = FastestPrompt(c, DOMAIN c, c[1])
               /\ r.spill_warning = FullOffloadIsSlow(c) /\ r.top = FirstOf(c, 8)
<1> DEFINE d == c[1]
           f == FastestPrompt(c, DOMAIN c, c[1])
           w == FullOffloadIsSlow(c)
           t == FirstOf(c, 8)
           r == RecommendOf(c)
<1>1. r = [status |-> "recommended", decode |-> d, prefill |-> f, spill_warning |-> w, top |-> t]
  BY Zenon DEF RecommendOf
<1> HIDE DEF d, f, w, t, r
<1>2. /\ r.status = "recommended" /\ r.decode = d /\ r.prefill = f /\ r.spill_warning = w /\ r.top = t
  BY <1>1
<1>3. r # Failure
  BY <1>2 DEF Failure
<1> QED BY <1>2, <1>3 DEF d, f, w, t, r

(* Of up to eight candidates none is left out.                                *)
LEMMA AllOf == ASSUME NEW T, NEW c \in Seq(T), Len(c) <= 8 PROVE FirstOf(c, 8) = c
<1> DEFINE n == Len(c)
<1>1. n \in Nat /\ n <= 8 /\ Smaller(8, n) = n
  BY DEF Smaller
<1>2. FirstOf(c, 8) = SubSeq(c, 1, n)
  BY <1>1 DEF FirstOf
<1>3. SubSeq(c, 1, n) = c
  OBVIOUS
<1> QED BY <1>2, <1>3

(* Of up to eight candidates: whatever is chosen can hand its cache over, and *)
(* the placement for the prompt is the fastest of those that can.             *)
IsChoice(c, choice) ==
    /\ c[1].type_k = c[1].type_v => /\ choice # Failure /\ choice.cache_type = c[1].type_k
                                    /\ choice.spill_warning = FullOffloadIsSlow(c)
    /\ choice # Failure =>
          /\ choice.decode = c[1] /\ SameTypes(choice.prefill, c[1])
          /\ \E k \in DOMAIN c : choice.prefill = c[k]
          /\ \A k \in DOMAIN c : SameTypes(c[k], c[1]) => c[k].prompt_tps <= choice.prefill.prompt_tps

LEMMA ChoiceIs ==
    ASSUME NEW c \in Seq(Placement), c # <<>>, Len(c) <= 8
    PROVE  IsChoice(c, PhaseChoice(RecommendOf(c)))
<1> DEFINE r == RecommendOf(c)
           ranked == << r.prefill >> \o r.top
           places == {k \in DOMAIN ranked : SameTypes(ranked[k], r.decode)}
           f == FastestPrompt(ranked, places, r.decode)
           choice == PhaseChoice(r)
<1>1. /\ Len(c) \in Nat /\ DOMAIN c = 1 .. Len(c) /\ 1 \in DOMAIN c
      /\ \A k \in DOMAIN c : c[k] \in Placement
  OBVIOUS
<1>2. r # Failure /\ r.decode = c[1] /\ r.spill_warning = FullOffloadIsSlow(c) /\ r.top = c
  BY RecommendIs, AllOf
<1>3. \E k \in DOMAIN c : r.prefill = c[k]
  <2>1. r.prefill = FastestPrompt(c, DOMAIN c, c[1])
    BY RecommendIs
  <2>2. IsFastest(c, DOMAIN c, c[1], FastestPrompt(c, DOMAIN c, c[1]))
    BY <1>1, FastestIs
  <2> HIDE DEF r
  <2> QED BY <1>1, <2>1, <2>2 DEF IsFastest
<1>4. PhaseChoice(r)
        = IF r.decode.type_k # r.decode.type_v THEN Failure
          ELSE [status |-> "selected", decode |-> r.decode, cache_type |-> r.decode.type_k,
                spill_warning |-> r.spill_warning, prefill |-> f]
  BY <1>2, Zenon DEF PhaseChoice
<1> DEFINE p == r.prefill
<1> HIDE DEF r
<1>5. ranked \in Seq(Placement) /\ Len(ranked) = Len(c) + 1 /\ ranked[1] = p /\ \A k \in DOMAIN c : ranked[k + 1] = c[k]
  <2>1. p \in Placement /\ ranked = <<p>> \o c
    BY <1>1, <1>2, <1>3
  <2> HIDE DEF p, ranked
  <2>2. <<p>> \in Seq(Placement) /\ Len(<<p>>) = 1 /\ <<p>>[1] = p
    BY <2>1
  <2> DEFINE one == <<p>>
  <2> HIDE DEF one
  <2>3. /\ ranked \in Seq(Placement) /\ Len(ranked) = 1 + Len(c)
        /\ \A k \in 1 .. 1 + Len(c) : ranked[k] = IF k <= 1 THEN p ELSE c[k - 1]
    <3>1. one \in Seq(Placement) /\ Len(one) = 1 /\ one[1] = p /\ ranked = one \o c
      BY <2>1, <2>2 DEF one
    <3>2. /\ one \o c \in Seq(Placement) /\ Len(one \o c) = Len(one) + Len(c)
          /\ \A k \in 1 .. Len(one) + Len(c) : (one \o c)[k] = IF k <= Len(one) THEN one[k] ELSE c[k - Len(one)]
      BY <3>1, ConcatProperties
    <3>3. \A k \in 1 .. 1 + Len(c) : k <= 1 => k = 1
      BY <1>1
    <3> QED BY <3>1, <3>2, <3>3
  <2>4. \A k \in 1 .. Len(c) : k + 1 \in 1 .. 1 + Len(c) /\ ~(k + 1 <= 1) /\ k + 1 - 1 = k
    BY <1>1
  <2> QED BY <1>1, <2>3, <2>4
<1>6. ASSUME NEW j \in DOMAIN ranked PROVE \E k \in DOMAIN c : ranked[j] = c[k]
  <2>1. j \in 1 .. Len(c) + 1
    BY <1>5
  <2> HIDE DEF ranked
  <2>2. CASE j = 1
    BY <1>3, <1>5, <2>2 DEF p
  <2>3. CASE j # 1
    <3>1. j - 1 \in DOMAIN c /\ (j - 1) + 1 = j
      BY <1>1, <2>1, <2>3
    <3> QED BY <1>5, <3>1
  <2> QED BY <2>2, <2>3
<1>7. IsFastest(ranked, places, c[1], f)
  <2>1. places \subseteq DOMAIN ranked
    OBVIOUS
  <2> HIDE DEF ranked, places
  <2> QED BY <1>1, <1>2, <1>5, <2>1, FastestIs
<1>8. SameTypes(f, c[1]) /\ \E k \in DOMAIN c : f = c[k]
  <2>1. CASE f = c[1]
    <3> HIDE DEF f
    <3> QED BY <1>1, <2>1 DEF SameTypes
  <2>2. ASSUME NEW j \in places, f = ranked[j] PROVE SameTypes(f, c[1]) /\ \E k \in DOMAIN c : f = c[k]
    <3>1. j \in DOMAIN ranked /\ SameTypes(ranked[j], c[1])
      BY <1>2
    <3> HIDE DEF ranked, places, f
    <3> QED BY <1>6, <2>2, <3>1
  <2> HIDE DEF ranked, places, f
  <2> QED BY <1>7, <2>1, <2>2 DEF IsFastest
<1>9. ASSUME NEW k \in DOMAIN c, SameTypes(c[k], c[1]) PROVE c[k].prompt_tps <= f.prompt_tps
  <2>1. ranked[k + 1] = c[k] /\ k + 1 \in DOMAIN ranked
    BY <1>1, <1>5
  <2>2. k + 1 \in places
    <3> HIDE DEF ranked
    <3> QED BY <1>2, <1>9, <2>1
  <2> HIDE DEF ranked, places, f
  <2> QED BY <1>7, <2>1, <2>2 DEF IsFastest
<1> HIDE DEF f
<1>10. CASE c[1].type_k = c[1].type_v
  <2> DEFINE w == FullOffloadIsSlow(c)
             d == c[1]
             t == c[1].type_k
  <2>1. choice = [status |-> "selected", decode |-> d, cache_type |-> t, spill_warning |-> w, prefill |-> f]
    BY <1>2, <1>4, <1>10
  <2> HIDE DEF w, d, t, choice
  <2>2. /\ choice.status = "selected" /\ choice.decode = d /\ choice.cache_type = t /\ choice.spill_warning = w
        /\ choice.prefill = f
    BY <2>1
  <2>3. choice # Failure
    BY <2>2 DEF Failure
  <2>4. /\ choice.decode = c[1] /\ choice.cache_type = c[1].type_k /\ choice.spill_warning = FullOffloadIsSlow(c)
    BY <2>2 DEF d, t, w
  <2>5. IsChoice(c, choice)
    BY <1>8, <1>9, <2>2, <2>3, <2>4 DEF IsChoice
  <2> QED BY <2>5 DEF choice, r
<1>11. CASE c[1].type_k # c[1].type_v
  <2>1. choice = Failure
    BY <1>2, <1>4, <1>11
  <2> QED BY <1>11, <2>1 DEF IsChoice, r
<1> QED BY <1>10, <1>11

(* A row is the speed of its run at what it measures, wherever it stands.     *)
LEMMA RowGivesSpeed ==
    ASSUME NEW rows \in Seq(BenchRow), MeasuredOnce(rows)
    PROVE  /\ \A k \in Generations(rows) : SpeedOf(rows, Generations(rows), RunOf(rows[k])) = rows[k].avg_ts
           /\ \A k \in Prompts(rows) : SpeedOf(rows, Prompts(rows), RunOf(rows[k])) = rows[k].avg_ts
<1> DEFINE G == Generations(rows)
           P == Prompts(rows)
<1>1. G \subseteq DOMAIN rows /\ P \subseteq DOMAIN rows
  BY KindsOfRow
<1>2. /\ \A j, k \in G : RunOf(rows[j]) = RunOf(rows[k]) => j = k
      /\ \A j, k \in P : RunOf(rows[j]) = RunOf(rows[k]) => j = k
  BY DEF MeasuredOnce
<1> HIDE DEF G, P
<1>3. ASSUME NEW kind \in {G, P}, NEW k \in kind PROVE SpeedOf(rows, kind, RunOf(rows[k])) = rows[k].avg_ts
  <2> DEFINE S == OfRun(rows, kind, RunOf(rows[k]))
  <2>1. k \in S /\ \A j \in S : j = k
    BY <1>1, <1>2, <1>3 DEF OfRun
  <2>2. kind \subseteq DOMAIN rows
    BY <1>1, <1>3
  <2> HIDE DEF S
  <2> QED BY <2>1, <2>2, SpeedIs DEF S
<1>4. \A k \in G : SpeedOf(rows, G, RunOf(rows[k])) = rows[k].avg_ts
  BY <1>3
<1>5. \A k \in P : SpeedOf(rows, P, RunOf(rows[k])) = rows[k].avg_ts
  BY <1>3
<1> QED BY <1>4, <1>5 DEF G, P

(* Nothing but the order of the rows changes when they are reversed.          *)
LEMMA ReverseIs ==
    ASSUME NEW rows \in Seq(BenchRow)
    PROVE  LET back == Reverse(rows)
               n    == Len(rows)
           IN  /\ back \in Seq(BenchRow) /\ Len(back) = n /\ DOMAIN back = DOMAIN rows
               /\ \A k \in DOMAIN rows : n + 1 - k \in DOMAIN rows /\ n + 1 - (n + 1 - k) = k /\ back[k] = rows[n + 1 - k]
<1> DEFINE n == Len(rows)
           back == Reverse(rows)
<1>1. n \in Nat /\ DOMAIN rows = 1 .. n /\ \A k \in 1 .. n : rows[k] \in BenchRow
  OBVIOUS
<1>2. back = [k \in 1 .. n |-> rows[(n - k) + 1]]
  BY Zenon DEF Reverse
<1> HIDE DEF n, back
<1>3. \A k \in 1 .. n : n + 1 - k \in 1 .. n /\ n + 1 - (n + 1 - k) = k /\ (n - k) + 1 = n + 1 - k
  BY <1>1
<1>4. \A k \in 1 .. n : back[k] = rows[n + 1 - k]
  BY <1>2, <1>3
<1>5. back \in [1 .. n -> BenchRow]
  BY <1>1, <1>2, <1>3
<1>6. back \in Seq(BenchRow) /\ Len(back) = n /\ DOMAIN back = 1 .. n
  BY <1>1, <1>5
<1> QED BY <1>1, <1>3, <1>4, <1>6 DEF n, back

LEMMA ReverseKinds ==
    ASSUME NEW rows \in Seq(BenchRow), NEW k \in DOMAIN rows
    PROVE  LET j == Len(rows) + 1 - k
           IN  /\ j \in DOMAIN rows /\ Reverse(rows)[j] = rows[k]
               /\ k \in Generations(rows) <=> j \in Generations(Reverse(rows))
               /\ k \in Prompts(rows) <=> j \in Prompts(Reverse(rows))
<1> DEFINE n == Len(rows)
           back == Reverse(rows)
           j == n + 1 - k
<1>1. /\ DOMAIN back = DOMAIN rows
      /\ \A i \in DOMAIN rows : n + 1 - i \in DOMAIN rows /\ n + 1 - (n + 1 - i) = i /\ back[i] = rows[n + 1 - i]
  BY ReverseIs
<1>2. j \in DOMAIN rows /\ n + 1 - j = k
  BY <1>1
<1> HIDE DEF n, j, back
<1>3. back[j] = rows[k] /\ j \in DOMAIN back
  BY <1>1, <1>2
<1>4. k \in Generations(rows) <=> j \in Generations(back)
  BY <1>3 DEF Generations
<1>5. k \in Prompts(rows) <=> j \in Prompts(back)
  BY <1>3 DEF Prompts
<1> QED BY <1>2, <1>3, <1>4, <1>5 DEF n, j, back

LEMMA ReverseOnce ==
    ASSUME NEW rows \in Seq(BenchRow), MeasuredOnce(rows)
    PROVE  MeasuredOnce(Reverse(rows)) /\ Usable(Reverse(rows)) = Usable(rows)
<1> DEFINE n == Len(rows)
           back == Reverse(rows)
<1>1. /\ DOMAIN back = DOMAIN rows /\ n \in Nat /\ back \in Seq(BenchRow) /\ DOMAIN rows \subseteq Nat
      /\ \A k \in DOMAIN rows : n + 1 - k \in DOMAIN rows /\ n + 1 - (n + 1 - k) = k /\ back[k] = rows[n + 1 - k]
  BY ReverseIs, KindsOfRow
<1>2. /\ Generations(rows) \subseteq DOMAIN rows /\ Prompts(rows) \subseteq DOMAIN rows
      /\ Generations(back) \subseteq DOMAIN rows /\ Prompts(back) \subseteq DOMAIN rows
  BY <1>1 DEF Generations, Prompts
<1> DEFINE at(k) == n + 1 - k
<1>3. \A k \in DOMAIN rows : /\ at(k) \in DOMAIN rows /\ at(at(k)) = k /\ rows[at(k)] = back[k] /\ back[at(k)] = rows[k]
                             /\ k \in Generations(rows) <=> at(k) \in Generations(back)
                             /\ k \in Prompts(rows) <=> at(k) \in Prompts(back)
  BY <1>1, ReverseKinds
<1> HIDE DEF at, n, back
<1>4. \A k \in DOMAIN rows : /\ k \in Generations(back) <=> at(k) \in Generations(rows)
                             /\ k \in Prompts(back) <=> at(k) \in Prompts(rows)
  BY <1>3
<1>5. ASSUME NEW i \in Generations(back), NEW k \in Generations(back), RunOf(back[i]) = RunOf(back[k]) PROVE i = k
  <2>1. /\ i \in DOMAIN rows /\ k \in DOMAIN rows /\ at(i) \in Generations(rows) /\ at(k) \in Generations(rows)
        /\ rows[at(i)] = back[i] /\ rows[at(k)] = back[k]
    BY <1>2, <1>3, <1>4
  <2>2. at(i) = at(k)
    BY <1>5, <2>1 DEF MeasuredOnce
  <2> QED BY <1>3, <2>1, <2>2
<1>6. ASSUME NEW i \in Prompts(back), NEW k \in Prompts(back), RunOf(back[i]) = RunOf(back[k]) PROVE i = k
  <2>1. /\ i \in DOMAIN rows /\ k \in DOMAIN rows /\ at(i) \in Prompts(rows) /\ at(k) \in Prompts(rows)
        /\ rows[at(i)] = back[i] /\ rows[at(k)] = back[k]
    BY <1>2, <1>3, <1>4
  <2>2. at(i) = at(k)
    BY <1>6, <2>1 DEF MeasuredOnce
  <2> QED BY <1>3, <2>1, <2>2
<1>7. Usable(back) = Usable(rows)
  <2>1. ASSUME NEW k \in Generations(back) PROVE RunOf(back[k]) \in Usable(rows)
    <3>1. at(k) \in Generations(rows) /\ rows[at(k)] = back[k]
      BY <1>2, <1>3, <1>4
    <3> QED BY <3>1 DEF Usable
  <2>2. ASSUME NEW k \in Generations(rows) PROVE RunOf(rows[k]) \in Usable(back)
    <3>1. at(k) \in Generations(back) /\ back[at(k)] = rows[k]
      BY <1>2, <1>3
    <3> QED BY <3>1 DEF Usable
  <2>3. Usable(back) \subseteq Usable(rows)
    BY <2>1 DEF Usable
  <2>4. Usable(rows) \subseteq Usable(back)
    BY <2>2 DEF Usable
  <2> QED BY <2>3, <2>4
<1> QED BY <1>5, <1>6, <1>7 DEF MeasuredOnce, back

LEMMA ReverseSpeeds ==
    ASSUME NEW rows \in Seq(BenchRow), MeasuredOnce(rows), NEW mode, NEW run
    PROVE  Candidate(Reverse(rows), mode, run) = Candidate(rows, mode, run)
<1> DEFINE back == Reverse(rows)
           at(k) == Len(rows) + 1 - k
<1>1. back \in Seq(BenchRow) /\ MeasuredOnce(back) /\ DOMAIN back = DOMAIN rows
  BY ReverseIs, ReverseOnce
<1>2. \A k \in DOMAIN rows : /\ at(k) \in DOMAIN rows /\ back[at(k)] = rows[k]
                             /\ k \in Generations(rows) <=> at(k) \in Generations(back)
                             /\ k \in Prompts(rows) <=> at(k) \in Prompts(back)
  BY ReverseKinds
<1>3. \A k \in DOMAIN rows : at(at(k)) = k
  BY ReverseIs
<1>4. /\ Generations(rows) \subseteq DOMAIN rows /\ Prompts(rows) \subseteq DOMAIN rows
      /\ Generations(back) \subseteq DOMAIN rows /\ Prompts(back) \subseteq DOMAIN rows
  BY <1>1, KindsOfRow
<1> HIDE DEF at, back
<1>5. SpeedOf(back, Generations(back), run) = SpeedOf(rows, Generations(rows), run)
  <2>1. CASE \E k \in Generations(rows) : RunOf(rows[k]) = run
    <3>1. PICK k \in Generations(rows) : RunOf(rows[k]) = run
      BY <2>1
    <3>2. at(k) \in Generations(back) /\ back[at(k)] = rows[k]
      BY <1>2, <1>4
    <3> QED BY <1>1, <3>1, <3>2, RowGivesSpeed
  <2>2. CASE ~\E k \in Generations(rows) : RunOf(rows[k]) = run
    <3>1. OfRun(rows, Generations(rows), run) = {}
      BY <2>2 DEF OfRun
    <3>2. OfRun(back, Generations(back), run) = {}
      <4> SUFFICES ASSUME NEW k \in Generations(back), RunOf(back[k]) = run PROVE FALSE
        BY DEF OfRun
      <4>1. at(k) \in DOMAIN rows /\ at(at(k)) = k
        BY <1>2, <1>3, <1>4
      <4>2. at(k) \in Generations(rows) /\ rows[at(k)] = back[k]
        BY <1>2, <4>1
      <4> QED BY <2>2, <4>2
    <3> QED BY <1>1, <1>4, <3>1, <3>2, SpeedIs
  <2> QED BY <2>1, <2>2
<1>6. SpeedOf(back, Prompts(back), run) = SpeedOf(rows, Prompts(rows), run)
  <2>1. CASE \E k \in Prompts(rows) : RunOf(rows[k]) = run
    <3>1. PICK k \in Prompts(rows) : RunOf(rows[k]) = run
      BY <2>1
    <3>2. at(k) \in Prompts(back) /\ back[at(k)] = rows[k]
      BY <1>2, <1>4
    <3> QED BY <1>1, <3>1, <3>2, RowGivesSpeed
  <2>2. CASE ~\E k \in Prompts(rows) : RunOf(rows[k]) = run
    <3>1. OfRun(rows, Prompts(rows), run) = {}
      BY <2>2 DEF OfRun
    <3>2. OfRun(back, Prompts(back), run) = {}
      <4> SUFFICES ASSUME NEW k \in Prompts(back), RunOf(back[k]) = run PROVE FALSE
        BY DEF OfRun
      <4>1. at(k) \in DOMAIN rows /\ at(at(k)) = k
        BY <1>2, <1>3, <1>4
      <4>2. at(k) \in Prompts(rows) /\ rows[at(k)] = back[k]
        BY <1>2, <4>1
      <4> QED BY <2>2, <4>2
    <3> QED BY <1>1, <1>4, <3>1, <3>2, SpeedIs
  <2> QED BY <2>1, <2>2
<1> QED BY <1>5, <1>6 DEF Candidate, back

(* What is chosen from the rows of a profile, in any mode.                    *)
LEMMA ChosenFrom ==
    ASSUME NEW rows \in Seq(BenchRow), NEW mode \in Modes, Len(rows) <= 8, Generations(rows) # {}
    PROVE  LET c == RunCandidates(rows, mode)
           IN  /\ AreRanked(rows, mode, c) /\ c # <<>> /\ 1 \in DOMAIN c
               /\ RecommendFromRows(rows, mode).decode = c[1]
               /\ IsFastest(c, DOMAIN c, c[1], RecommendFromRows(rows, mode).prefill)
               /\ IsChoice(c, PhaseSelected(rows, mode))
<1> DEFINE c == RunCandidates(rows, mode)
<1>1. AreRanked(rows, mode, c)
  BY CandidatesAreRanked
<1>2. Len(rows) \in Nat
  OBVIOUS
<1> HIDE DEF c
<1>3. c \in Seq(Placement) /\ Len(c) <= 8 /\ c # <<>>
  <2>1. Usable(rows) # {}
    BY DEF Usable
  <2>2. c \in Seq(Placement) /\ Len(c) <= Len(rows) /\ \E n \in DOMAIN c : TRUE
    BY <1>1, <2>1 DEF AreRanked
  <2>3. Len(c) \in Nat
    BY <2>2
  <2> QED BY <1>2, <2>2, <2>3
<1>4. 1 \in DOMAIN c /\ c[1] \in Placement
  BY <1>3
<1>5. RecommendOf(c).decode = c[1] /\ RecommendOf(c).prefill = FastestPrompt(c, DOMAIN c, c[1])
  BY <1>3, RecommendIs
<1>6. IsFastest(c, DOMAIN c, c[1], FastestPrompt(c, DOMAIN c, c[1]))
  BY <1>3, <1>4, FastestIs
<1>7. IsChoice(c, PhaseChoice(RecommendOf(c)))
  BY <1>3, ChoiceIs
<1>8. RecommendFromRows(rows, mode) = RecommendOf(c) /\ PhaseSelected(rows, mode) = PhaseChoice(RecommendOf(c))
  BY Zenon DEF RecommendFromRows, PhaseSelected, c
<1> QED BY <1>1, <1>3, <1>4, <1>5, <1>6, <1>7, <1>8 DEF c

\* What is said of the placements, without the order of the rows.
AreBest(rows, mode, best, choice) ==
    LET gen(r)    == {k \in DOMAIN rows : rows[k].n_gen > 0 /\ RunOf(rows[k]) = RunOf(r)}
        prompts   == {k \in DOMAIN rows : rows[k].n_prompt > 0 /\ gen(rows[k]) # {}}
    IN  /\ mode = "chat" => \A k \in DOMAIN rows : rows[k].n_gen > 0 => rows[k].avg_ts <= best.decode.generation_tps
        /\ \A k \in prompts : /\ rows[k].avg_ts <= best.prefill.prompt_tps
                              /\ mode = "prefill" => rows[k].avg_ts <= best.decode.prompt_tps
        /\ choice # Failure =>
              /\ SameTypes(choice.prefill, choice.decode)
              /\ \A k \in prompts : SameTypes(rows[k], choice.decode) => rows[k].avg_ts <= choice.prefill.prompt_tps

LEMMA PlacementsBest ==
    ASSUME NEW rows \in Seq(BenchRow), NEW mode \in Modes, Len(rows) <= 8, MeasuredOnce(rows), Generations(rows) # {},
           NEW best, best = RecommendFromRows(rows, mode), NEW choice, choice = PhaseSelected(rows, mode)
    PROVE  AreBest(rows, mode, best, choice)
<1> DEFINE c == RunCandidates(rows, mode)
           gen(r)  == {k \in DOMAIN rows : rows[k].n_gen > 0 /\ RunOf(rows[k]) = RunOf(r)}
           prompts == {k \in DOMAIN rows : rows[k].n_prompt > 0 /\ gen(rows[k]) # {}}
           G == Generations(rows)
<1>1. /\ AreRanked(rows, mode, c) /\ 1 \in DOMAIN c /\ best.decode = c[1]
      /\ IsFastest(c, DOMAIN c, c[1], best.prefill) /\ IsChoice(c, choice)
  BY ChosenFrom
<1> HIDE DEF c
<1>2. ASSUME NEW n \in DOMAIN c
      PROVE  /\ c[n] \in Placement /\ c[n].score = Score(mode, c[n].generation_tps, c[n].prompt_tps)
             /\ c[n].generation_tps \in Nat /\ c[n].prompt_tps \in Nat
  <2>1. PICK run \in Usable(rows) : c[n] = Candidate(rows, mode, run)
    BY <1>1 DEF AreRanked
  <2>2. PICK k \in DOMAIN rows : run = RunOf(rows[k])
    BY KindsOfRow DEF Usable
  <2>3. c[n] \in Placement /\ c[n].score = Score(mode, c[n].generation_tps, c[n].prompt_tps)
    BY <2>1, <2>2, CandidateIs
  <2> QED BY <2>3 DEF Placement
<1>3. ASSUME NEW k \in G
      PROVE  \E n \in DOMAIN c : c[n].generation_tps = rows[k].avg_ts
  <2>1. k \in DOMAIN rows /\ RunOf(rows[k]) \in Usable(rows)
    BY KindsOfRow DEF Usable
  <2>2. PICK n \in DOMAIN c : c[n] = Candidate(rows, mode, RunOf(rows[k]))
    BY <1>1, <2>1 DEF AreRanked
  <2>3. c[n].generation_tps = SpeedOf(rows, Generations(rows), RunOf(rows[k]))
    BY <2>1, <2>2, CandidateIs
  <2> QED BY <2>3, RowGivesSpeed
<1>4. ASSUME NEW k \in prompts
      PROVE  \E n \in DOMAIN c : c[n].prompt_tps = rows[k].avg_ts /\ c[n].type_k = rows[k].type_k /\ c[n].type_v = rows[k].type_v
  <2>1. k \in DOMAIN rows /\ k \in Prompts(rows)
    BY DEF Prompts
  <2>2. PICK j \in gen(rows[k]) : TRUE
    OBVIOUS
  <2>3. j \in Generations(rows) /\ RunOf(rows[j]) = RunOf(rows[k])
    BY <2>2 DEF Generations
  <2>4. RunOf(rows[k]) \in Usable(rows)
    BY <2>3 DEF Usable
  <2>5. PICK n \in DOMAIN c : c[n] = Candidate(rows, mode, RunOf(rows[k]))
    BY <1>1, <2>4 DEF AreRanked
  <2>6. c[n].prompt_tps = SpeedOf(rows, Prompts(rows), RunOf(rows[k])) /\ c[n].type_k = rows[k].type_k /\ c[n].type_v = rows[k].type_v
    BY <2>1, <2>5, CandidateIs
  <2> QED BY <2>1, <2>6, RowGivesSpeed
<1>5. ASSUME mode = "chat", NEW k \in DOMAIN rows, rows[k].n_gen > 0 PROVE rows[k].avg_ts <= best.decode.generation_tps
  <2>1. k \in G
    BY <1>5 DEF Generations
  <2>2. PICK n \in DOMAIN c : c[n].generation_tps = rows[k].avg_ts
    BY <1>3, <2>1
  <2>3. c[n].score <= c[1].score
    BY <1>1 DEF AreRanked
  <2>4. c[n].score = c[n].generation_tps /\ c[1].score = c[1].generation_tps
    BY <1>1, <1>2, <1>5 DEF Score
  <2> QED BY <1>1, <2>2, <2>3, <2>4
<1>6. ASSUME NEW k \in prompts PROVE rows[k].avg_ts <= best.prefill.prompt_tps
  <2> HIDE DEF prompts
  <2>1. PICK n \in DOMAIN c : c[n].prompt_tps = rows[k].avg_ts
    BY <1>4
  <2> QED BY <1>1, <2>1 DEF IsFastest
<1>7. ASSUME NEW k \in prompts, mode = "prefill" PROVE rows[k].avg_ts <= best.decode.prompt_tps
  <2> HIDE DEF prompts
  <2>1. PICK n \in DOMAIN c : c[n].prompt_tps = rows[k].avg_ts
    BY <1>4
  <2>2. c[n].score <= c[1].score
    BY <1>1 DEF AreRanked
  <2>3. c[n].score = c[n].prompt_tps /\ c[1].score = c[1].prompt_tps
    BY <1>1, <1>2, <1>7 DEF Score
  <2> QED BY <1>1, <2>1, <2>2, <2>3
<1>8. ASSUME choice # Failure
      PROVE  /\ SameTypes(choice.prefill, choice.decode)
             /\ \A k \in prompts : SameTypes(rows[k], choice.decode) => rows[k].avg_ts <= choice.prefill.prompt_tps
  <2>1. /\ choice.decode = c[1] /\ SameTypes(choice.prefill, c[1])
        /\ \A k \in DOMAIN c : SameTypes(c[k], c[1]) => c[k].prompt_tps <= choice.prefill.prompt_tps
    BY <1>1, <1>8 DEF IsChoice
  <2>2. ASSUME NEW k \in prompts, SameTypes(rows[k], choice.decode) PROVE rows[k].avg_ts <= choice.prefill.prompt_tps
    <3> HIDE DEF prompts
    <3>1. PICK n \in DOMAIN c : c[n].prompt_tps = rows[k].avg_ts /\ c[n].type_k = rows[k].type_k /\ c[n].type_v = rows[k].type_v
      BY <1>4
    <3>2. SameTypes(c[n], c[1])
      BY <2>1, <2>2, <3>1 DEF SameTypes
    <3> QED BY <2>1, <3>1, <3>2
  <2> QED BY <2>1, <2>2
<1> HIDE DEF G
<1> QED BY <1>5, <1>6, <1>7, <1>8 DEF AreBest

(* From the rows in the other direction comes a placement of the same score.  *)
LEMMA SameScore ==
    ASSUME NEW rows \in Seq(BenchRow), NEW mode \in Modes, Len(rows) <= 8, MeasuredOnce(rows), Generations(rows) # {},
           NEW choice, choice = PhaseSelected(rows, mode), choice # Failure,
           NEW again, again = PhaseSelected(Reverse(rows), mode), again # Failure
    PROVE  again.decode.score = choice.decode.score
<1> DEFINE back == Reverse(rows)
           c == RunCandidates(rows, mode)
           d == RunCandidates(back, mode)
<1>1. back \in Seq(BenchRow) /\ Len(back) <= 8 /\ MeasuredOnce(back) /\ Usable(back) = Usable(rows)
  BY ReverseIs, ReverseOnce
<1>2. Generations(back) # {}
  <2>1. Usable(rows) # {}
    BY DEF Usable
  <2> HIDE DEF back
  <2> QED BY <1>1, <2>1 DEF Usable
<1>3. /\ AreRanked(rows, mode, c) /\ 1 \in DOMAIN c /\ choice.decode = c[1]
  <2>1. AreRanked(rows, mode, c) /\ 1 \in DOMAIN c /\ IsChoice(c, choice)
    BY ChosenFrom
  <2> HIDE DEF c
  <2> QED BY <2>1 DEF IsChoice
<1>4. /\ AreRanked(back, mode, d) /\ 1 \in DOMAIN d /\ again.decode = d[1]
  <2> HIDE DEF back
  <2>1. AreRanked(back, mode, d) /\ 1 \in DOMAIN d /\ IsChoice(d, again)
    BY <1>1, <1>2, ChosenFrom DEF back
  <2> HIDE DEF d
  <2> QED BY <2>1 DEF IsChoice
<1>5. \A run \in Usable(rows) : Candidate(back, mode, run) = Candidate(rows, mode, run)
  BY ReverseSpeeds
<1> HIDE DEF c, d, back
<1>6. d[1].score <= c[1].score
  <2>1. PICK run \in Usable(rows) : d[1] = Candidate(rows, mode, run)
    BY <1>1, <1>4, <1>5 DEF AreRanked
  <2>2. PICK n \in DOMAIN c : c[n] = d[1]
    BY <1>3, <2>1 DEF AreRanked
  <2> QED BY <1>3, <2>2 DEF AreRanked
<1>7. c[1].score <= d[1].score
  <2>1. PICK run \in Usable(rows) : c[1] = Candidate(back, mode, run)
    BY <1>3, <1>5 DEF AreRanked
  <2>2. PICK n \in DOMAIN d : d[n] = c[1]
    BY <1>1, <1>4, <2>1 DEF AreRanked
  <2> QED BY <1>4, <2>2 DEF AreRanked
<1>8. c[1].score \in Nat /\ d[1].score \in Nat
  <2>1. c[1] \in Placement /\ d[1] \in Placement
    BY <1>3, <1>4 DEF AreRanked
  <2> QED BY <2>1 DEF Placement
<1> QED BY <1>3, <1>4, <1>6, <1>7, <1>8

(* For any profile of up to eight rows that measures nothing twice, and       *)
(* something at generation.                                                   *)
LEMMA PlacementsHold ==
    ASSUME NEW rows \in Seq(BenchRow), Len(rows) <= 8, MeasuredOnce(rows), Generations(rows) # {}
    PROVE  PlacementsOf(rows)
<1> SUFFICES ASSUME NEW mode \in Modes
             PROVE  PlacementsAreBest(rows, mode, RecommendFromRows(rows, mode), PhaseSelected(rows, mode),
                                      PhaseSelected(Reverse(rows), mode))
  BY Zenon DEF PlacementsOf, Modes
<1> DEFINE best == RecommendFromRows(rows, mode)
           choice == PhaseSelected(rows, mode)
           again == PhaseSelected(Reverse(rows), mode)
<1>1. AreBest(rows, mode, best, choice)
  BY PlacementsBest
<1>2. choice # Failure /\ again # Failure => again.decode.score = choice.decode.score
  BY SameScore
<1> HIDE DEF best, choice, again
<1>3. PlacementsAreBest(rows, mode, best, choice, again)
  BY <1>1, <1>2 DEF AreBest, PlacementsAreBest
<1> QED BY <1>3 DEF best, choice, again

(* The rows of the runs of a profile.                                         *)
SameMeasure(x, y) ==
    /\ x.n_gpu_layers = y.n_gpu_layers
    /\ (x.n_gen > 0 /\ y.n_gen > 0) \/ (x.n_prompt > 0 /\ y.n_prompt > 0)
Once(r) == \A j \in DOMAIN r, k \in DOMAIN r : SameMeasure(r[j], r[k]) => j = k

LEMMA OnceIsEnough == ASSUME NEW rows, Once(rows) PROVE MeasuredOnce(rows)
<1>1. ASSUME NEW j \in DOMAIN rows, NEW k \in DOMAIN rows, RunOf(rows[j]) = RunOf(rows[k])
      PROVE  rows[j].n_gpu_layers = rows[k].n_gpu_layers
  <2> DEFINE x == RunOf(rows[j])
             y == RunOf(rows[k])
  <2>1. x.n_gpu_layers = rows[j].n_gpu_layers /\ y.n_gpu_layers = rows[k].n_gpu_layers
    BY DEF RunOf
  <2> HIDE DEF x, y
  <2>2. x = y
    BY <1>1 DEF x, y
  <2> QED BY <2>1, <2>2
<1>2. ASSUME NEW j \in Generations(rows), NEW k \in Generations(rows), RunOf(rows[j]) = RunOf(rows[k]) PROVE j = k
  <2>1. j \in DOMAIN rows /\ k \in DOMAIN rows /\ rows[j].n_gen > 0 /\ rows[k].n_gen > 0
    BY DEF Generations
  <2>2. rows[j].n_gpu_layers = rows[k].n_gpu_layers
    BY <1>1, <1>2, <2>1
  <2>3. SameMeasure(rows[j], rows[k])
    BY <2>1, <2>2 DEF SameMeasure
  <2> QED BY <2>1, <2>3 DEF Once
<1>3. ASSUME NEW j \in Prompts(rows), NEW k \in Prompts(rows), RunOf(rows[j]) = RunOf(rows[k]) PROVE j = k
  <2>1. j \in DOMAIN rows /\ k \in DOMAIN rows /\ rows[j].n_prompt > 0 /\ rows[k].n_prompt > 0
    BY DEF Prompts
  <2>2. SameMeasure(rows[j], rows[k])
    BY <1>1, <1>3, <2>1 DEF SameMeasure
  <2> QED BY <2>1, <2>2 DEF Once
<1> QED BY <1>2, <1>3 DEF MeasuredOnce

RowsAre(r, ngls, RowSet) ==
    /\ r \in Seq(RowSet) /\ Once(r)
    /\ \A k \in DOMAIN r : r[k].n_gpu_layers \in ngls

LEMMA RowsJoin ==
    ASSUME NEW RowSet, NEW A, NEW B, A \cap B = {}, NEW a, RowsAre(a, A, RowSet), NEW b, RowsAre(b, B, RowSet)
    PROVE  /\ RowsAre(a \o b, A \cup B, RowSet) /\ Len(a \o b) = Len(a) + Len(b)
           /\ Generations(a) # {} \/ Generations(b) # {} => Generations(a \o b) # {}
<1> DEFINE n == Len(a)
           m == Len(b)
           c == a \o b
<1>1. /\ a \in Seq(RowSet) /\ b \in Seq(RowSet) /\ n \in Nat /\ m \in Nat
      /\ DOMAIN a = 1 .. n /\ DOMAIN b = 1 .. m
  BY DEF RowsAre
<1>2. /\ c \in Seq(RowSet) /\ Len(c) = n + m
      /\ \A k \in 1 .. n + m : c[k] = IF k <= n THEN a[k] ELSE b[k - n]
  BY <1>1, ConcatProperties
<1>3. DOMAIN c = 1 .. n + m
  BY <1>2
<1> HIDE DEF n, m, c
<1>4. ASSUME NEW k \in DOMAIN c, k <= n PROVE k \in DOMAIN a /\ c[k] = a[k] /\ c[k].n_gpu_layers \in A
  <2>1. k \in DOMAIN a /\ c[k] = a[k]
    BY <1>1, <1>2, <1>3, <1>4
  <2> QED BY <2>1 DEF RowsAre
<1>5. ASSUME NEW k \in DOMAIN c, ~(k <= n) PROVE k - n \in DOMAIN b /\ c[k] = b[k - n] /\ c[k].n_gpu_layers \in B
  <2>1. k - n \in DOMAIN b /\ c[k] = b[k - n]
    BY <1>1, <1>2, <1>3, <1>5
  <2> QED BY <2>1 DEF RowsAre
<1>6. ASSUME NEW j \in DOMAIN c, NEW k \in DOMAIN c, SameMeasure(c[j], c[k]) PROVE j = k
  <2>1. c[j].n_gpu_layers = c[k].n_gpu_layers
    BY <1>6 DEF SameMeasure
  <2>2. CASE j <= n /\ k <= n
    BY <1>4, <1>6, <2>2 DEF RowsAre, Once
  <2>3. CASE ~(j <= n) /\ ~(k <= n)
    <3>1. j - n = k - n
      BY <1>5, <1>6, <2>3 DEF RowsAre, Once
    <3> QED BY <1>1, <1>3, <3>1
  <2>4. CASE j <= n /\ ~(k <= n)
    <3>1. c[j].n_gpu_layers \in A /\ c[k].n_gpu_layers \in B
      BY <1>4, <1>5, <2>4
    <3> QED BY <2>1, <3>1
  <2>5. CASE ~(j <= n) /\ k <= n
    <3>1. c[j].n_gpu_layers \in B /\ c[k].n_gpu_layers \in A
      BY <1>4, <1>5, <2>5
    <3> QED BY <2>1, <3>1
  <2> QED BY <2>2, <2>3, <2>4, <2>5
<1>7. \A k \in DOMAIN c : c[k].n_gpu_layers \in A \cup B
  BY <1>4, <1>5
<1>8. RowsAre(c, A \cup B, RowSet)
  BY <1>2, <1>6, <1>7 DEF RowsAre, Once
<1>9. ASSUME NEW k \in Generations(a) PROVE k \in Generations(c)
  <2>1. k \in 1 .. n /\ a[k].n_gen > 0
    BY <1>1 DEF Generations
  <2>2. k \in DOMAIN c /\ c[k] = a[k]
    BY <1>1, <1>2, <1>3, <2>1
  <2> QED BY <2>1, <2>2 DEF Generations
<1>10. ASSUME NEW k \in Generations(b) PROVE k + n \in Generations(c)
  <2>1. k \in 1 .. m /\ b[k].n_gen > 0
    BY <1>1 DEF Generations
  <2> DEFINE j == k + n
  <2>2. j \in 1 .. n + m /\ ~(j <= n) /\ j - n = k
    BY <1>1, <1>3, <2>1
  <2> HIDE DEF j
  <2>3. c[j] = b[k] /\ j \in DOMAIN c
    BY <1>2, <1>3, <2>2
  <2>4. j \in Generations(c)
    BY <2>1, <2>3 DEF Generations
  <2> QED BY <2>4 DEF j
<1> QED BY <1>2, <1>8, <1>9, <1>10 DEF c, n, m

(* A run has a row for what was measured.                                     *)
LEMMA RunRowsAre ==
    ASSUME NEW ngl \in Int, NEW type \in CacheTypes, NEW tg \in OrNone(Nat), NEW pp \in OrNone(Nat), NEW RowSet,
           tg # <<>> => [n_gpu_layers |-> ngl, type_k |-> type, type_v |-> "q8_0", n_gen |-> 128, n_prompt |-> 0, avg_ts |-> tg[1]] \in RowSet,
           pp # <<>> => [n_gpu_layers |-> ngl, type_k |-> type, type_v |-> "q8_0", n_gen |-> 0, n_prompt |-> 512, avg_ts |-> pp[1]] \in RowSet
    PROVE  LET r == RunRows(ngl, type, tg, pp)
           IN  /\ RowsAre(r, {ngl}, RowSet) /\ Len(r) <= 2 /\ Len(r) \in Nat
               /\ tg # <<>> => Generations(r) # {}
<1> DEFINE g == [n_gpu_layers |-> ngl, type_k |-> type, type_v |-> "q8_0", n_gen |-> 128, n_prompt |-> 0, avg_ts |-> tg[1]]
           p == [n_gpu_layers |-> ngl, type_k |-> type, type_v |-> "q8_0", n_gen |-> 0, n_prompt |-> 512, avg_ts |-> pp[1]]
           r == RunRows(ngl, type, tg, pp)
<1>1. r = (IF pp = <<>> THEN <<>> ELSE <<p>>) \o (IF tg = <<>> THEN <<>> ELSE <<g>>)
  BY Zenon DEF RunRows
<1>2. /\ g.n_gpu_layers = ngl /\ g.n_gen = 128 /\ g.n_prompt = 0
      /\ p.n_gpu_layers = ngl /\ p.n_gen = 0 /\ p.n_prompt = 512
  OBVIOUS
<1>3. (tg # <<>> => g \in RowSet) /\ (pp # <<>> => p \in RowSet)
  OBVIOUS
<1> HIDE DEF g, p, r
<1>4. ~SameMeasure(g, p) /\ ~SameMeasure(p, g)
  BY <1>2 DEF SameMeasure
<1>5. CASE tg = <<>> /\ pp = <<>>
  <2>1. r = <<>>
    BY <1>1, <1>5
  <2>2. r \in Seq(RowSet) /\ Len(r) = 0 /\ DOMAIN r = {}
    BY <2>1
  <2> QED BY <1>5, <2>2 DEF RowsAre, Once, r
<1>6. CASE tg = <<>> /\ pp # <<>>
  <2>1. r = <<p>>
    BY <1>1, <1>6
  <2>2. r \in Seq(RowSet) /\ Len(r) = 1 /\ DOMAIN r = {1} /\ r[1] = p
    BY <1>3, <1>6, <2>1
  <2>3. Once(r)
    BY <2>2 DEF Once
  <2>4. RowsAre(r, {ngl}, RowSet)
    BY <1>2, <2>2, <2>3 DEF RowsAre
  <2>5. Len(r) <= 2 /\ Len(r) \in Nat
    BY <2>2
  <2> QED BY <1>6, <2>4, <2>5, Zenon DEF r
<1>7. CASE tg # <<>> /\ pp = <<>>
  <2>1. r = <<g>>
    BY <1>1, <1>7
  <2>2. r \in Seq(RowSet) /\ Len(r) = 1 /\ DOMAIN r = {1} /\ r[1] = g
    BY <1>3, <1>7, <2>1
  <2>3. 1 \in Generations(r)
    BY <1>2, <2>2 DEF Generations
  <2> QED BY <1>2, <2>2, <2>3 DEF RowsAre, Once, r
<1>8. CASE tg # <<>> /\ pp # <<>>
  <2> DEFINE a == <<p>>
             b == <<g>>
  <2>1. r = a \o b
    BY <1>1, <1>8
  <2>2. r \in Seq(RowSet) /\ Len(r) = 2 /\ DOMAIN r = {1, 2} /\ r[1] = p /\ r[2] = g
    <3>1. a \in Seq(RowSet) /\ Len(a) = 1 /\ a[1] = p /\ b \in Seq(RowSet) /\ Len(b) = 1 /\ b[1] = g
      BY <1>3, <1>8
    <3> HIDE DEF a, b
    <3>2. /\ r \in Seq(RowSet) /\ Len(r) = Len(a) + Len(b)
          /\ \A k \in 1 .. Len(a) + Len(b) : r[k] = IF k <= Len(a) THEN a[k] ELSE b[k - Len(a)]
      BY <2>1, <3>1, ConcatProperties
    <3>3. Len(r) = 2 /\ 1 \in 1 .. 2 /\ 2 \in 1 .. 2 /\ 2 - 1 = 1 /\ 1 .. 2 = {1, 2}
      BY <3>1, <3>2
    <3> QED BY <3>1, <3>2, <3>3
  <2>3. 2 \in Generations(r)
    BY <1>2, <2>2 DEF Generations
  <2>4. Once(r)
    BY <1>4, <2>2 DEF Once
  <2> QED BY <1>2, <2>2, <2>3, <2>4 DEF RowsAre, r
<1> QED BY <1>5, <1>6, <1>7, <1>8

(* The input of a profile has speeds that are whole numbers, and one without  *)
(* a GPU at generation.                                                       *)
ProfileInput(i) ==
    /\ i.part[1] \in OrNone(Nat) /\ i.part[2] \in OrNone(Nat) /\ i.full[1] \in OrNone(Nat) /\ i.full[2] \in OrNone(Nat)
    /\ i.cpu[1] \in OrNone(Nat) /\ i.cpu[1] # <<>> /\ i.cpu[2] \in OrNone(Nat)
    /\ i.type_k \in {"q8_0", "f16"}

(* Whatever of its three runs failed.                                         *)
LEMMA ProfileHolds == ASSUME NEW i, ProfileInput(i) PROVE PlacementsOf(ProfileOf(i))
<1> DEFINE a == RunRows(20, "q8_0", i.part[1], i.part[2])
           b == RunRows(-1, i.type_k, i.full[1], i.full[2])
           c == RunRows(0, "q8_0", i.cpu[1], i.cpu[2])
<1>1. ProfileOf(i) = (a \o b) \o c
  BY DEF ProfileOf
<1>2. ASSUME NEW ngl \in Int, NEW type \in {"q8_0", "f16"}, NEW tg \in OrNone(Nat), NEW pp \in OrNone(Nat)
      PROVE  LET r == RunRows(ngl, type, tg, pp)
             IN  /\ RowsAre(r, {ngl}, BenchRow) /\ Len(r) <= 2 /\ Len(r) \in Nat
                 /\ tg # <<>> => Generations(r) # {}
  <2>0. type \in CacheTypes /\ "q8_0" \in CacheTypes
    BY DEF CacheTypes
  <2>1. tg # <<>> => tg[1] \in Nat
    BY DEF OrNone
  <2>2. pp # <<>> => pp[1] \in Nat
    BY DEF OrNone
  <2>3. tg # <<>> => [n_gpu_layers |-> ngl, type_k |-> type, type_v |-> "q8_0", n_gen |-> 128, n_prompt |-> 0, avg_ts |-> tg[1]] \in BenchRow
    BY <2>0, <2>1 DEF BenchRow
  <2>4. pp # <<>> => [n_gpu_layers |-> ngl, type_k |-> type, type_v |-> "q8_0", n_gen |-> 0, n_prompt |-> 512, avg_ts |-> pp[1]] \in BenchRow
    BY <2>0, <2>2 DEF BenchRow
  <2>5. type \in CacheTypes
    BY DEF CacheTypes
  <2> QED BY <2>3, <2>4, <2>5, RunRowsAre
<1> DEFINE n == -1
           q == "q8_0"
<1>21. n \in Int /\ 20 \in Int /\ 0 \in Int /\ q \in {"q8_0", "f16"} /\ i.type_k \in {"q8_0", "f16"}
  BY DEF ProfileInput
<1> HIDE DEF n, q
<1>3. RowsAre(a, {20}, BenchRow) /\ Len(a) <= 2 /\ Len(a) \in Nat
  BY <1>2, <1>21 DEF ProfileInput, q
<1>4. RowsAre(b, {-1}, BenchRow) /\ Len(b) <= 2 /\ Len(b) \in Nat
  BY <1>2, <1>21 DEF ProfileInput, n
<1>5. RowsAre(c, {0}, BenchRow) /\ Len(c) <= 2 /\ Len(c) \in Nat /\ Generations(c) # {}
  BY <1>2, <1>21 DEF ProfileInput, q
<1> HIDE DEF a, b, c
<1> DEFINE ab == a \o b
           rows == ab \o c
<1>6. RowsAre(ab, {20, -1}, BenchRow) /\ Len(ab) <= 4 /\ Len(ab) \in Nat
  <2> DEFINE A == {20}
             B == {-1}
  <2>1. A \cap B = {} /\ A \cup B = {20, -1}
    OBVIOUS
  <2>2. RowsAre(a, A, BenchRow) /\ RowsAre(b, B, BenchRow)
    BY <1>3, <1>4
  <2> HIDE DEF A, B
  <2>3. RowsAre(ab, A \cup B, BenchRow) /\ Len(ab) = Len(a) + Len(b)
    BY <2>1, <2>2, RowsJoin
  <2>4. RowsAre(ab, {20, -1}, BenchRow)
    BY <2>1, <2>3
  <2> HIDE DEF ab
  <2>5. Len(ab) <= 4 /\ Len(ab) \in Nat
    BY <1>3, <1>4, <2>3
  <2> QED BY <2>4, <2>5
<1> HIDE DEF ab
<1>7. RowsAre(rows, {20, -1} \cup {0}, BenchRow) /\ Len(rows) <= 8 /\ Generations(rows) # {}
  <2> DEFINE A == {20, -1}
             B == {0}
  <2>1. A \cap B = {}
    OBVIOUS
  <2>2. RowsAre(ab, A, BenchRow) /\ RowsAre(c, B, BenchRow) /\ Generations(c) # {}
    BY <1>5, <1>6
  <2> HIDE DEF A, B
  <2>3. /\ RowsAre(rows, A \cup B, BenchRow) /\ Len(rows) = Len(ab) + Len(c)
        /\ Generations(ab) # {} \/ Generations(c) # {} => Generations(rows) # {}
    BY <2>1, <2>2, RowsJoin
  <2> HIDE DEF rows
  <2>4. Len(rows) <= 8
    BY <1>5, <1>6, <2>3
  <2> QED BY <2>2, <2>3, <2>4 DEF A, B
<1> HIDE DEF rows
<1>8. rows \in Seq(BenchRow) /\ MeasuredOnce(rows)
  BY <1>7, OnceIsEnough DEF RowsAre
<1>9. PlacementsOf(rows)
  BY <1>7, <1>8, PlacementsHold
<1> QED BY <1>1, <1>9 DEF ab, rows

(* The given profile: types that can share a slot, and a full offload that is *)
(* not slow.                                                                  *)
PlanRow == {row \in BenchRow : row.type_k = "q8_0" /\ row.type_v = "q8_0" /\ (row.n_gen > 0 => row.avg_ts = 5)}

LEMMA ProfileIs ==
    /\ PlannedProfile \in Seq(PlanRow) /\ Len(PlannedProfile) <= 8
    /\ MeasuredOnce(PlannedProfile) /\ Generations(PlannedProfile) # {}
<1> DEFINE q == "q8_0"
           five == <<5>>
           two == <<2>>
           n == -1
           a == RunRows(20, q, five, two)
           b == RunRows(n, q, five, five)
           A == {20}
           B == {n}
<1>1. ASSUME NEW ngl \in Int, NEW tg, tg = five, NEW pp \in {five, two}
      PROVE  LET r == RunRows(ngl, q, tg, pp)
             IN  /\ RowsAre(r, {ngl}, PlanRow) /\ Len(r) <= 2 /\ Len(r) \in Nat
                 /\ Generations(r) # {}
  <2>1. tg \in OrNone(Nat) /\ pp \in OrNone(Nat) /\ tg # <<>> /\ tg[1] = 5 /\ pp[1] \in Nat
    BY <1>1 DEF OrNone
  <2>2. "q8_0" \in CacheTypes
    BY DEF CacheTypes
  <2>3. [n_gpu_layers |-> ngl, type_k |-> q, type_v |-> "q8_0", n_gen |-> 128, n_prompt |-> 0, avg_ts |-> tg[1]] \in PlanRow
    BY <2>1, <2>2 DEF PlanRow, BenchRow
  <2>4. [n_gpu_layers |-> ngl, type_k |-> q, type_v |-> "q8_0", n_gen |-> 0, n_prompt |-> 512, avg_ts |-> pp[1]] \in PlanRow
    BY <2>1, <2>2 DEF PlanRow, BenchRow
  <2> HIDE DEF five, two
  <2>5. q \in CacheTypes
    BY <2>2
  <2> HIDE DEF q
  <2> QED BY <2>1, <2>3, <2>4, <2>5, RunRowsAre
<1>2. PlannedProfile = a \o b
  BY DEF PlannedProfile
<1>3. n \in Int /\ 20 \in Int /\ A \cap B = {}
  OBVIOUS
<1>4. RowsAre(a, A, PlanRow) /\ Len(a) <= 2 /\ Len(a) \in Nat /\ Generations(a) # {}
  <2> HIDE DEF five, two, q
  <2> QED BY <1>1, <1>3
<1>5. RowsAre(b, B, PlanRow) /\ Len(b) <= 2 /\ Len(b) \in Nat
  <2> HIDE DEF five, two, q, n
  <2> QED BY <1>1, <1>3
<1> HIDE DEF a, b, A, B
<1>6. /\ RowsAre(a \o b, A \cup B, PlanRow) /\ Len(a \o b) = Len(a) + Len(b)
      /\ Generations(a) # {} \/ Generations(b) # {} => Generations(a \o b) # {}
  BY <1>3, <1>4, <1>5, RowsJoin
<1> DEFINE rows == a \o b
<1> HIDE DEF rows
<1>7. rows \in Seq(PlanRow) /\ MeasuredOnce(rows)
  BY <1>6, OnceIsEnough DEF RowsAre, rows
<1>8. Len(rows) <= 8 /\ Generations(rows) # {}
  BY <1>4, <1>5, <1>6 DEF rows
<1> QED BY <1>2, <1>7, <1>8 DEF rows

LEMMA ChoiceSound == ChoiceIsSound
<1> DEFINE rows == PlannedProfile
           c == RunCandidates(rows, "chat")
           full == {k \in DOMAIN c : c[k].n_gpu_layers = -1}
<1>1. rows \in Seq(BenchRow) /\ "chat" \in Modes /\ Len(rows) <= 8 /\ Generations(rows) # {} /\ MeasuredOnce(rows)
  <2>1. PlanRow \subseteq BenchRow
    BY DEF PlanRow
  <2>2. rows \in Seq(PlanRow) /\ Len(rows) <= 8 /\ Generations(rows) # {} /\ MeasuredOnce(rows)
    BY ProfileIs
  <2> HIDE DEF rows
  <2>3. rows \in Seq(BenchRow)
    BY <2>1, <2>2
  <2> QED BY <2>2, <2>3 DEF Modes
<1>2. \A k \in DOMAIN rows : rows[k] \in PlanRow
  BY ProfileIs
<1> HIDE DEF rows
<1>3. AreRanked(rows, "chat", c) /\ 1 \in DOMAIN c /\ IsChoice(c, PhaseSelected(rows, "chat"))
  BY <1>1, ChosenFrom
<1> HIDE DEF c
<1>4. ASSUME NEW n \in DOMAIN c
      PROVE  c[n] \in Placement /\ c[n].type_k = "q8_0" /\ c[n].type_v = "q8_0" /\ c[n].generation_tps = 5
  <2>1. PICK run \in Usable(rows) : c[n] = Candidate(rows, "chat", run)
    BY <1>3 DEF AreRanked
  <2>2. PICK k \in Generations(rows) : run = RunOf(rows[k])
    BY DEF Usable
  <2>3. k \in DOMAIN rows /\ rows[k].n_gen > 0
    BY DEF Generations
  <2>4. /\ c[n] \in Placement /\ c[n].type_k = rows[k].type_k /\ c[n].type_v = rows[k].type_v
        /\ c[n].generation_tps = SpeedOf(rows, Generations(rows), RunOf(rows[k]))
    BY <1>1, <2>1, <2>2, <2>3, CandidateIs
  <2>5. SpeedOf(rows, Generations(rows), RunOf(rows[k])) = rows[k].avg_ts
    BY <1>1, RowGivesSpeed
  <2>6. rows[k].type_k = "q8_0" /\ rows[k].type_v = "q8_0" /\ rows[k].avg_ts = 5
    BY <1>2, <2>3 DEF PlanRow
  <2> QED BY <2>4, <2>5, <2>6
<1>5. FullOffloadIsSlow(c) = FALSE
  <2>1. FullOffloadIsSlow(c)
          = (/\ full # {} /\ c[1].n_gpu_layers # -1
             /\ 10 * c[Min(full)].generation_tps < 8 * c[1].generation_tps)
    BY Zenon DEF FullOffloadIsSlow
  <2>2. ASSUME full # {} PROVE Min(full) \in DOMAIN c
    <3>1. DOMAIN c \subseteq Nat
      BY <1>3 DEF AreRanked
    <3>2. full \subseteq Nat /\ full \subseteq DOMAIN c
      BY <3>1
    <3> HIDE DEF full
    <3>3. \E x \in full : \A y \in full : x <= y
      BY <2>2, <3>2, LeastElement
    <3>4. Min(full) \in full
      BY <3>3, Zenon DEF Min
    <3> QED BY <3>2, <3>4
  <2> HIDE DEF full
  <2>3. ASSUME full # {} PROVE ~(10 * c[Min(full)].generation_tps < 8 * c[1].generation_tps)
    <3>1. c[Min(full)].generation_tps = 5 /\ c[1].generation_tps = 5
      BY <1>3, <1>4, <2>2, <2>3
    <3> QED BY <3>1
  <2> QED BY <2>1, <2>3
<1>6. /\ Chosen # Failure /\ Chosen.decode = c[1] /\ Chosen.cache_type = c[1].type_k
      /\ Chosen.spill_warning = FullOffloadIsSlow(c) /\ \E k \in DOMAIN c : Chosen.prefill = c[k]
  <2>1. Chosen = PhaseSelected(rows, "chat")
    BY DEF Chosen, rows
  <2>2. c[1].type_k = c[1].type_v
    BY <1>3, <1>4
  <2> QED BY <1>3, <2>1, <2>2 DEF IsChoice
<1>7. \A p \in Placement : p.prompt_tps \in Nat /\ p.generation_tps \in Nat /\ p.n_gpu_layers \in Int
  BY DEF Placement
<1> QED BY <1>3, <1>4, <1>5, <1>6, <1>7 DEF ChoiceIsSound

-----------------------------------------------------------------------------
(* The pressure on memory.                                                    *)
LEMMA MoreFallsNoFurther ==
    ASSUME NEW part \in Nat, NEW more \in Nat, NEW whole \in {0, 100}, NEW percent \in Nat, Below(part + more, whole, percent)
    PROVE  Below(part, whole, percent)
<1>1. CASE whole = 0
  BY <1>1 DEF Below
<1>2. CASE whole = 100
  BY <1>2 DEF Below
<1> QED BY <1>1, <1>2

PressureOf(known, high, moderate) ==
    CASE high              -> "high"
      [] ~high /\ ~known   -> "unknown"
      [] OTHER             -> IF moderate THEN "moderate" ELSE "normal"

(* The rank of a level.                                                       *)
LEMMA RankIs ==
    ASSUME NEW known \in BOOLEAN, NEW high \in BOOLEAN, NEW moderate \in BOOLEAN
    PROVE  Rank(PressureOf(known, high, moderate)) = IF high THEN 2 ELSE IF known /\ moderate THEN 1 ELSE 0
<1>1. CASE high
  BY <1>1 DEF Rank, PressureOf
<1>2. CASE ~high /\ ~known
  BY <1>2 DEF Rank, PressureOf
<1>3. CASE ~high /\ known /\ moderate
  BY <1>3 DEF Rank, PressureOf
<1>4. CASE ~high /\ known /\ ~moderate
  BY <1>4 DEF Rank, PressureOf
<1> QED BY <1>1, <1>2, <1>3, <1>4

LEMMA FallingRank ==
    ASSUME NEW known \in BOOLEAN, NEW high \in BOOLEAN, NEW moderate \in BOOLEAN, NEW high1 \in BOOLEAN, NEW moderate1 \in BOOLEAN,
           high1 => high, moderate1 => moderate
    PROVE  Rank(PressureOf(known, high1, moderate1)) <= Rank(PressureOf(known, high, moderate))
<1>1. Rank(PressureOf(known, high, moderate)) = IF high THEN 2 ELSE IF known /\ moderate THEN 1 ELSE 0
  BY RankIs
<1>2. Rank(PressureOf(known, high1, moderate1)) = IF high1 THEN 2 ELSE IF known /\ moderate1 THEN 1 ELSE 0
  BY RankIs
<1> QED BY <1>1, <1>2

LevelAt(total, ram_total, slow, model_mib, a, b) ==
    PressureLevel([vram_total |-> total, vram_free |-> a, ram_total |-> ram_total, ram_free |-> b], model_mib, slow)

(* With any memory that is freed, of a whole that is known or not.            *)
LEMMA LevelFalls ==
    ASSUME NEW total \in {0, 100}, NEW ram_total \in {0, 100}, NEW slow \in BOOLEAN, NEW model_mib \in Nat,
           NEW vram \in Nat, NEW ram \in Nat, NEW v \in Nat, NEW r \in Nat
    PROVE  Rank(LevelAt(total, ram_total, slow, model_mib, vram + v, ram + r))
             <= Rank(LevelAt(total, ram_total, slow, model_mib, vram, ram))
<1> DEFINE known == total > 0
           high(a, b) == \/ known /\ (100 * model_mib > 95 * total \/ slow)
                         \/ Below(a, total, 20) \/ Below(b, ram_total, 15)
           moderate(a, b) == Below(a, total, 35) \/ Below(b, ram_total, 30)
           level(a, b) == LevelAt(total, ram_total, slow, model_mib, a, b)
<1>1. ASSUME NEW a, NEW b PROVE level(a, b) = PressureOf(known, high(a, b), moderate(a, b))
  BY DEF LevelAt, PressureLevel, PressureOf
<1>2. high(vram + v, ram + r) => high(vram, ram)
  <2>1. Below(vram + v, total, 20) => Below(vram, total, 20)
    BY MoreFallsNoFurther
  <2>2. Below(ram + r, ram_total, 15) => Below(ram, ram_total, 15)
    BY MoreFallsNoFurther
  <2> QED BY <2>1, <2>2
<1>3. moderate(vram + v, ram + r) => moderate(vram, ram)
  <2>1. Below(vram + v, total, 35) => Below(vram, total, 35)
    BY MoreFallsNoFurther
  <2>2. Below(ram + r, ram_total, 30) => Below(ram, ram_total, 30)
    BY MoreFallsNoFurther
  <2> QED BY <2>1, <2>2
<1>4. \A a, b : known \in BOOLEAN /\ high(a, b) \in BOOLEAN /\ moderate(a, b) \in BOOLEAN
  BY DEF Below
<1> HIDE DEF known, high, moderate, level
<1>5. Rank(level(vram + v, ram + r)) <= Rank(level(vram, ram))
  BY <1>1, <1>2, <1>3, <1>4, FallingRank
<1> QED BY <1>5 DEF level

Lowers(total, ram_total, slow, m, x, y, v, r) ==
    Rank(LevelAt(total, ram_total, slow, m, x + v, y + r)) <= Rank(LevelAt(total, ram_total, slow, m, x, y))

LEMMA FreedLowers ==
    \A total \in {0, 100}, ram_total \in {0, 100}, slow \in BOOLEAN : \A m \in Nat, x \in Nat, y \in Nat, v \in Nat, r \in Nat :
       Lowers(total, ram_total, slow, m, x, y, v, r)
BY LevelFalls DEF Lowers

LEMMA PressureHolds == PressureFalls
<1> SUFFICES ASSUME NEW total \in {0, 100}, NEW ram_total \in {0, 100}, NEW slow \in BOOLEAN, NEW model_mib \in {50, 96},
                    NEW vram \in {10, 14, 15, 19, 20, 29, 30, 34, 35, 90}, NEW ram \in {10, 14, 15, 19, 20, 29, 30, 34, 35, 90},
                    NEW more \in {1, 5}
             PROVE  LET level(v, r) == PressureLevel([vram_total |-> total, vram_free |-> v, ram_total |-> ram_total, ram_free |-> r],
                                                     model_mib, slow)
                    IN  /\ Rank(level(vram + more, ram)) <= Rank(level(vram, ram))
                        /\ Rank(level(vram, ram + more)) <= Rank(level(vram, ram))
  BY Zenon DEF PressureFalls
<1> DEFINE level(v, r) == LevelAt(total, ram_total, slow, model_mib, v, r)
<1>1. /\ vram \in Nat /\ ram \in Nat /\ more \in Nat /\ model_mib \in Nat /\ 0 \in Nat
      /\ vram + 0 = vram /\ ram + 0 = ram
  OBVIOUS
<1>2. ASSUME NEW v \in Nat, NEW r \in Nat PROVE Rank(level(vram + v, ram + r)) <= Rank(level(vram, ram))
  <2>1. \A m \in Nat, x \in Nat, y \in Nat, a \in Nat, b \in Nat : Lowers(total, ram_total, slow, m, x, y, a, b)
    BY FreedLowers
  <2>2. Lowers(total, ram_total, slow, model_mib, vram, ram, v, r)
    BY <1>1, <2>1
  <2> QED BY <2>2 DEF Lowers
<1> HIDE DEF level
<1>3. Rank(level(vram + more, ram)) <= Rank(level(vram, ram))
  <2>1. Rank(level(vram + more, ram + 0)) <= Rank(level(vram, ram))
    BY <1>1, <1>2
  <2> QED BY <1>1, <2>1
<1>4. Rank(level(vram, ram + more)) <= Rank(level(vram, ram))
  <2>1. Rank(level(vram + 0, ram + more)) <= Rank(level(vram, ram))
    BY <1>1, <1>2
  <2> QED BY <1>1, <2>1
<1> QED BY <1>3, <1>4, Zenon DEF level, LevelAt

-----------------------------------------------------------------------------
(* The inputs of the scripts. Every choice names its tool, so that what is    *)
(* known of one tool's input is kept by the choices for the others.           *)
LEMMA ToolChosen ==
    /\ ChooseRows => input'.tool = "decisions"
    /\ ChooseLabels => input'.tool = "labels"
    /\ ChooseTensors => input'.tool = "captures"
    /\ ChoosePages => input'.tool = "pages"
    /\ ChooseKv => input'.tool = "kv"
    /\ ChoosePacking => input'.tool = "packing"
    /\ ChooseProjection => input'.tool = "projection"
    /\ ChooseProfile => input'.tool = "profile"
    /\ ChoosePlan => input'.tool = "plan"
<1>1. ChooseRows => input'.tool = "decisions"
  BY DEF ChooseRows
<1>2. ChooseLabels => input'.tool = "labels"
  BY DEF ChooseLabels
<1>3. ChooseTensors => input'.tool = "captures"
  BY DEF ChooseTensors
<1>4. ChoosePages => input'.tool = "pages"
  BY DEF ChoosePages
<1>5. ChooseKv => input'.tool = "kv"
  BY DEF ChooseKv
<1>6. ChoosePacking => input'.tool = "packing"
  BY DEF ChoosePacking
<1>7. ChooseProjection => input'.tool = "projection"
  BY DEF ChooseProjection
<1>8. ChooseProfile => input'.tool = "profile"
  BY DEF ChooseProfile
<1>9. ChoosePlan => input'.tool = "plan"
  <2> DEFINE hw(free) == [vram_total |-> 100, vram_free |-> free, ram_total |-> 0, ram_free |-> 0]
             options(strategy, prompt, tokens, new, allow) ==
                [strategy |-> strategy, prompt |-> prompt, prompt_tokens |-> tokens, new_tokens |-> new,
                 allow_phase_on_normal_pressure |-> allow, context |-> 1, cache_type |-> "", model_mib |-> 50,
                 expected_reuses |-> 1]
  <2> SUFFICES ASSUME ChoosePlan PROVE input'.tool = "plan"
    OBVIOUS
  <2>1. PICK strategy \in {"auto", "phase", "normal"}, prompt \in BOOLEAN, tokens \in PromptTokens, new \in AnswerTokens,
             free \in FreeMemory, allow \in BOOLEAN, run \in Earlier :
             input' = [tool |-> "plan", run |-> run, hw |-> hw(free), o |-> options(strategy, prompt, tokens, new, allow)]
    BY DEF ChoosePlan
  <2> HIDE DEF hw, options
  <2> QED BY <2>1
<1> QED BY <1>1, <1>2, <1>3, <1>4, <1>5, <1>6, <1>7, <1>8, <1>9

(* The input of the cache's tools has a width of key, a context and options   *)
(* the scripts accept, for any context and any codes of two bits.             *)
LEMMA CacheInvariant == ToolsSpec => []InputIsCache
<1>1. NothingChosen => InputIsCache
  BY DEF NothingChosen, Nothing, InputIsCache
<1>2. InputIsCache /\ [ChooseInput]_input => InputIsCache'
  <2> SUFFICES ASSUME InputIsCache, [ChooseInput]_input PROVE InputIsCache'
    OBVIOUS
  <2>1. CASE ChooseKv
    BY <2>1, KvChosen
  <2>2. CASE ChoosePacking
    BY <2>2, PackingChosen
  <2>3. CASE ChooseRows \/ ChooseLabels \/ ChooseTensors \/ ChoosePages \/ ChooseProjection \/ ChooseProfile \/ ChoosePlan
    <3>1. input'.tool # "kv" /\ input'.tool # "packing"
      BY <2>3, ToolChosen
    <3> QED BY <3>1 DEF InputIsCache
  <2>4. CASE UNCHANGED input
    BY <2>4 DEF InputIsCache
  <2> QED BY <2>1, <2>2, <2>3, <2>4 DEF ChooseInput
<1> QED BY <1>1, <1>2, PTL DEF ToolsSpec

(* The input of a projection is a scenario whose calls of the oracle take     *)
(* time.                                                                      *)
LEMMA PricedInvariant == ToolsSpec => []InputIsPriced
<1>1. NothingChosen => InputIsPriced
  BY DEF NothingChosen, Nothing, InputIsPriced
<1>2. InputIsPriced /\ [ChooseInput]_input => InputIsPriced'
  <2> SUFFICES ASSUME InputIsPriced, [ChooseInput]_input PROVE InputIsPriced'
    OBVIOUS
  <2>1. CASE ChooseProjection
    <3>1. PICK proxy \in 0 .. Time, verifier \in 0 .. Time, oracle \in 1 .. Time + 1, calls \in 0 .. 2, asked \in 0 .. 2,
               target \in 0 .. 2 * Time :
              input' = [tool |-> "projection", target |-> target,
                        s |-> Scenario("run", 2, proxy, [calls |-> asked, ms |-> verifier], [calls |-> calls, ms |-> oracle], 0)]
      BY <2>1 DEF ChooseProjection
    <3>2. /\ proxy \in Nat /\ verifier \in Nat /\ oracle \in Nat \ {0} /\ calls \in Nat /\ asked \in Nat /\ target \in Nat
      BY SageToolsAssumption
    <3>3. Scenario("run", 2, proxy, [calls |-> asked, ms |-> verifier], [calls |-> calls, ms |-> oracle], 0) \in PricedRun
      BY <3>2, ScenarioIsPriced
    <3> QED BY <3>1, <3>2, <3>3 DEF InputIsPriced
  <2>2. CASE ~ChooseProjection /\ ChooseInput
    <3>1. input'.tool # "projection"
      BY <2>2, ToolChosen DEF ChooseInput
    <3> QED BY <3>1 DEF InputIsPriced
  <2>3. CASE UNCHANGED input
    BY <2>3 DEF InputIsPriced
  <2> QED BY <2>1, <2>2, <2>3
<1> QED BY <1>1, <1>2, PTL DEF ToolsSpec

(* For a model of any widths, any context and any options, the account of the *)
(* tiers, the trace that is replayed, the packed sample and the scheduler's   *)
(* own accounting are those of the plan; a header gives the shapes of a       *)
(* model; and packed codes unpack to themselves, in the kernel as in the      *)
(* sample.                                                                    *)
THEOREM KvTiersTheorem == ToolsSpec => []KvTiersAddUp
<1>1. HeaderGivesTheShapes
  <2>1. \A n_head \in 1 .. 3, n_head_kv \in 1 .. 3, head_dim \in 1 .. 3 :
           n_head \in Nat \ {0} /\ n_head_kv \in Nat \ {0} /\ head_dim \in Nat \ {0}
    OBVIOUS
  <2> QED BY <2>1, HeaderShapes DEF HeaderGivesTheShapes
<1>2. InputIsCache => KvTiersAddUp
  <2> SUFFICES ASSUME InputIsCache PROVE KvTiersAddUp
    OBVIOUS
  <2>1. ASSUME input.tool = "kv" PROVE TiersAgree(KvShapes(KvTensors(input)), input)
    <3>1. /\ input.key \in Nat \ {0} /\ input.value \in {<<>>, <<1>>}
          /\ input.context \in Nat \ {0} /\ input.opt \in KvOptions
      BY <2>1 DEF InputIsCache
    <3>2. KvTensors(input) \in Seq(KvTensor) /\ OfRole(KvTensors(input), "key") # {}
      BY <3>1, TensorsTyped
    <3>3. KvShapes(KvTensors(input)) \in Seq(Shape) /\ Len(KvShapes(KvTensors(input))) > 0
      BY <3>2, KvShapesTyped
    <3> QED BY <3>1, <3>3, TiersHold
  <2>2. ASSUME input.tool = "packing" PROVE PackingIsInverse(input.codes)
    BY <2>2, PackingHolds DEF InputIsCache
  <2> QED BY <1>1, <2>1, <2>2 DEF KvTiersAddUp
<1> QED BY <1>2, CacheInvariant, PTL

(* For any times and any target, the limits a projection reports are those at *)
(* which the target is met and beyond which it is not, and the rates, budgets *)
(* and overlap it offers suffice.                                             *)
THEOREM ProjectionsTheorem == ToolsSpec => []ProjectionsAgree
<1>1. InputIsPriced => ProjectionsAgree
  <2> SUFFICES ASSUME InputIsPriced, input.tool = "projection"
               PROVE  /\ LimitsAreTight(input.s, input.target)
                      /\ ScenariosAreLimited(input.s, input.target)
                      /\ BudgetsSuffice(input.s, input.target)
                      /\ OverlapSuffices(input.s, input.target)
                      /\ TimesAddUp(input.s, input.target)
    BY DEF ProjectionsAgree
  <2>1. input.s \in PricedRun /\ input.target \in Nat
    BY DEF InputIsPriced
  <2> QED BY <2>1, LimitsHold, ScenariosHold, BudgetsHold, OverlapHolds, TimesHold
<1> QED BY <1>1, PricedInvariant, PTL

(* The input of the planner: speeds that were measured, with one at           *)
(* generation without a GPU; or a request, the memory that is free and an     *)
(* earlier run.                                                               *)
LEMMA ProfileChosen == ChooseProfile => input'.tool = "profile" /\ ProfileInput(input')
<1> SUFFICES ASSUME ChooseProfile PROVE input'.tool = "profile" /\ ProfileInput(input')
  OBVIOUS
<1>1. PICK part \in OrNone(Speeds) \X OrNone(Speeds), full \in OrNone(Speeds) \X OrNone(Speeds),
           cpu \in {<<x>> : x \in CpuSpeeds} \X OrNone(CpuSpeeds), type_k \in {"q8_0", "f16"} :
          input' = [tool |-> "profile", part |-> part, full |-> full, cpu |-> cpu, type_k |-> type_k]
  BY DEF ChooseProfile
<1>2. Speeds \subseteq Nat /\ CpuSpeeds \subseteq Nat
  BY PlannerAssumption
<1>3. OrNone(Speeds) \subseteq OrNone(Nat) /\ OrNone(CpuSpeeds) \subseteq OrNone(Nat)
  BY <1>2 DEF OrNone
<1>4. \A y \in {<<x>> : x \in CpuSpeeds} : y \in OrNone(Nat) /\ y # <<>>
  BY <1>2 DEF OrNone
<1>5. part[1] \in OrNone(Nat) /\ part[2] \in OrNone(Nat) /\ full[1] \in OrNone(Nat) /\ full[2] \in OrNone(Nat)
  <2>1. part[1] \in OrNone(Speeds) /\ part[2] \in OrNone(Speeds) /\ full[1] \in OrNone(Speeds) /\ full[2] \in OrNone(Speeds)
    OBVIOUS
  <2> QED BY <1>3, <2>1
<1>6. cpu[1] \in OrNone(Nat) /\ cpu[1] # <<>> /\ cpu[2] \in OrNone(Nat)
  <2>1. cpu[1] \in {<<x>> : x \in CpuSpeeds} /\ cpu[2] \in OrNone(CpuSpeeds)
    OBVIOUS
  <2> QED BY <1>3, <1>4, <2>1
<1>7. /\ input'.tool = "profile" /\ input'.part = part /\ input'.full = full /\ input'.cpu = cpu
      /\ input'.type_k = type_k
  BY <1>1
<1> QED BY <1>5, <1>6, <1>7 DEF ProfileInput

LEMMA EarlierIsTaken == Earlier \subseteq RunTaken
<1> SUFFICES ASSUME NEW run \in Earlier PROVE run \in RunTaken
  OBVIOUS
<1>1. PICK e \in BOOLEAN, save \in SaveTimes, cold \in OrNone(ColdTimes) :
          run = [existing |-> e, tokens |-> 2, prefill |-> 3, save |-> save, restore |-> 2, decode |-> 3, cold |-> cold]
  BY DEF Earlier
<1>2. save \in Nat /\ cold \in {<<>>} \cup {<<x>> : x \in Nat}
  BY PlannerAssumption DEF OrNone
<1> QED BY <1>1, <1>2 DEF RunTaken

LEMMA PlanChosen == ChoosePlan => input'.tool = "plan" /\ PlanInput(input')
<1> DEFINE hw(free) == [vram_total |-> 100, vram_free |-> free, ram_total |-> 0, ram_free |-> 0]
           options(strategy, prompt, tokens, new, allow) ==
              [strategy |-> strategy, prompt |-> prompt, prompt_tokens |-> tokens, new_tokens |-> new,
               allow_phase_on_normal_pressure |-> allow, context |-> 1, cache_type |-> "", model_mib |-> 50,
               expected_reuses |-> 1]
<1> SUFFICES ASSUME ChoosePlan PROVE input'.tool = "plan" /\ PlanInput(input')
  OBVIOUS
<1>1. PICK strategy \in {"auto", "phase", "normal"}, prompt \in BOOLEAN, tokens \in PromptTokens, new \in AnswerTokens,
           free \in FreeMemory, allow \in BOOLEAN, run \in Earlier :
          input' = [tool |-> "plan", run |-> run, hw |-> hw(free), o |-> options(strategy, prompt, tokens, new, allow)]
  BY DEF ChoosePlan
<1>2. tokens \in Nat \ {0} /\ new \in Nat /\ free \in Nat
  BY PlannerAssumption
<1>3. options(strategy, prompt, tokens, new, allow) \in Options
  BY <1>2 DEF Options
<1>4. hw(free) \in Hardware
  BY <1>2 DEF Hardware
<1>5. run \in RunTaken
  BY EarlierIsTaken
<1> HIDE DEF hw, options
<1>6. /\ input'.tool = "plan" /\ input'.run = run /\ input'.hw = hw(free)
      /\ input'.o = options(strategy, prompt, tokens, new, allow)
  BY <1>1
<1> QED BY <1>3, <1>4, <1>5, <1>6 DEF PlanInput

InputIsPlanned ==
    /\ input.tool = "profile" => ProfileInput(input)
    /\ input.tool = "plan" => PlanInput(input)

LEMMA PlannedInvariant == ToolsSpec => []InputIsPlanned
<1>1. NothingChosen => InputIsPlanned
  BY DEF NothingChosen, Nothing, InputIsPlanned
<1>2. InputIsPlanned /\ [ChooseInput]_input => InputIsPlanned'
  <2> SUFFICES ASSUME InputIsPlanned, [ChooseInput]_input PROVE InputIsPlanned'
    OBVIOUS
  <2>1. CASE ChooseProfile
    BY <2>1, ProfileChosen DEF InputIsPlanned
  <2>2. CASE ChoosePlan
    BY <2>2, PlanChosen DEF InputIsPlanned
  <2>3. CASE ChooseRows \/ ChooseLabels \/ ChooseTensors \/ ChoosePages \/ ChooseKv \/ ChoosePacking \/ ChooseProjection
    <3>1. input'.tool # "profile" /\ input'.tool # "plan"
      BY <2>3, ToolChosen
    <3> QED BY <3>1 DEF InputIsPlanned
  <2>4. CASE UNCHANGED input
    BY <2>4 DEF InputIsPlanned, ProfileInput, PlanInput
  <2> QED BY <2>1, <2>2, <2>3, <2>4 DEF ChooseInput
<1> QED BY <1>1, <1>2, PTL DEF ToolsSpec

(* For any speeds, times, prompts and free memory: the placements chosen from *)
(* a profile are the fastest that can share a slot, whatever the order of its *)
(* rows; a slot that is made pays off, is used by the next plan, and its      *)
(* break-even is the one the runner reports; what is measured last counts;    *)
(* and memory that is freed never raises the pressure.                        *)
THEOREM PlannerTheorem == ToolsSpec => []PlannerAgrees
<1>1. InputIsPlanned => PlannerAgrees
  <2> SUFFICES ASSUME InputIsPlanned PROVE PlannerAgrees
    OBVIOUS
  <2>1. PressureFalls
    BY PressureHolds
  <2>2. input.tool = "profile" => PlacementsOf(ProfileOf(input))
    BY ProfileHolds DEF InputIsPlanned
  <2>3. input.tool = "plan" => PlansFollow(input, PlanOf(input, 1, <<>>, {}))
    BY ChoiceSound, PlansHold DEF InputIsPlanned
  <2> QED BY <2>1, <2>2, <2>3 DEF PlannerAgrees
<1> QED BY <1>1, PlannedInvariant, PTL

=============================================================================
