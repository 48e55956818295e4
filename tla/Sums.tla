--------------------------------- MODULE Sums ---------------------------------
(***************************************************************************)
(* What the proofs need to know of a sum over a finite set.  The community *)
(* modules define it as a fold that takes elements out in an order nobody  *)
(* knows; the lemmas below say that it is the sum all the same.            *)
(***************************************************************************)
EXTENDS Folds, Functions, FiniteSetTheorems, TLAPS

(* Induction, for a set of numbers instead of a predicate: the theorems of  *)
(* the library that take a predicate cannot be instantiated.                *)
LEMMA Induction ==
  ASSUME NEW A, 0 \in A, \A n \in Nat : n \in A => n + 1 \in A
  PROVE  Nat \subseteq A
<1> DEFINE B == Nat \ A
<1> SUFFICES ASSUME B # {} PROVE FALSE
  OBVIOUS
<1> DEFINE R == OpToRel(<, Nat)
<1>1. \E x \in B : \A y \in B : ~ (<<y, x>> \in R)
  <2>1. IsWellFoundedOn(R, Nat)
    BY NatLessThanWellFounded
  <2> QED BY <2>1, WFMin
<1>2. PICK x \in B : \A y \in B : ~ (<<y, x>> \in R)
  BY <1>1
<1>3. \A y \in B : ~ (y < x)
  BY <1>2 DEF OpToRel
<1>4. x - 1 \in B
  BY SMT
<1> QED BY <1>3, <1>4

-----------------------------------------------------------------------------
(* The element that the community modules take out of a set next.           *)
Pick(s) == CHOOSE x \in s : TRUE

(* F adds up the values of g over the subsets of S, one element at a time,  *)
(* as the folds of the community modules define it.                         *)
AddsUp(F, g, S) ==
  F = [s \in SUBSET S |-> IF s = {} THEN 0 ELSE g[Pick(s)] + F[s \ {Pick(s)}]]

LEMMA PickIsElement ==
  ASSUME NEW s, s # {}
  PROVE  Pick(s) \in s
BY DEF Pick

(* The recursion has a solution.                                            *)
LEMMA SumExists ==
  ASSUME NEW S, IsFiniteSet(S), NEW g \in [S -> Int]
  PROVE  \E F : AddsUp(F, g, S)
<1> DEFINE Body(F, s) == IF s = {} THEN 0 ELSE g[Pick(s)] + F[s \ {Pick(s)}]
           A == {n \in Nat : \E F \in [SUBSET S -> Int] :
                   \A s \in SUBSET S : Cardinality(s) <= n => F[s] = Body(F, s)}
<1>1. \A s \in SUBSET S : IsFiniteSet(s) /\ Cardinality(s) \in Nat
  BY FS_Subset, FS_CardinalityType
<1>2. \A s \in SUBSET S : s # {} =>
        /\ Pick(s) \in S
        /\ s \ {Pick(s)} \in SUBSET S
        /\ Cardinality(s \ {Pick(s)}) = Cardinality(s) - 1
  BY <1>1, PickIsElement, FS_RemoveElement
<1>3. \A s \in SUBSET S : s # {} => Cardinality(s) > 0
  <2> SUFFICES ASSUME NEW s \in SUBSET S, s # {} PROVE Cardinality(s) > 0
    OBVIOUS
  <2> QED BY <1>1, FS_EmptySet
<1>4. 0 \in A
  <2>1. [s \in SUBSET S |-> 0] \in [SUBSET S -> Int]
    OBVIOUS
  <2>2. \A s \in SUBSET S : Cardinality(s) <= 0 =>
          [t \in SUBSET S |-> 0][s] = Body([t \in SUBSET S |-> 0], s)
    BY <1>1, <1>3
  <2> QED
    BY <2>1, <2>2, Zenon
<1>5. ASSUME NEW n \in Nat, n \in A PROVE n + 1 \in A
  <2>1. PICK F \in [SUBSET S -> Int] :
          \A s \in SUBSET S : Cardinality(s) <= n => F[s] = Body(F, s)
    BY <1>5
  <2> DEFINE G == [s \in SUBSET S |-> IF Cardinality(s) <= n THEN F[s] ELSE Body(F, s)]
  <2>2. \A s \in SUBSET S : Body(F, s) \in Int
    BY <1>2
  <2>3. G \in [SUBSET S -> Int]
    BY <2>2
  <2>4. ASSUME NEW s \in SUBSET S, Cardinality(s) <= n + 1 PROVE G[s] = Body(G, s)
    <3>1. G[s] = Body(F, s)
      BY <2>1
    <3>2. Body(G, s) = Body(F, s)
      BY <1>1, <1>2, <2>4
    <3> QED BY <3>1, <3>2
  <2>5. \A s \in SUBSET S : Cardinality(s) <= n + 1 => G[s] = Body(G, s)
    BY <2>4
  <2> HIDE DEF G, Body
  <2> QED BY <2>3, <2>5
<1>6. Nat \subseteq A
  <2> HIDE DEF A
  <2> QED BY <1>4, <1>5, Induction
<1>7. Cardinality(S) \in A
  BY <1>1, <1>6
<1>8. PICK F \in [SUBSET S -> Int] :
        \A s \in SUBSET S : Cardinality(s) <= Cardinality(S) => F[s] = Body(F, s)
  BY <1>7
<1>9. \A s \in SUBSET S : Cardinality(s) <= Cardinality(S)
  BY FS_Subset
<1>10. F = [s \in SUBSET S |-> Body(F, s)]
  BY <1>8, <1>9
<1> QED BY <1>10 DEF AddsUp

(* Its value on a set does not depend on the order nor on the set it is a   *)
(* subset of: any element may be taken out first.                           *)
LEMMA SumOfRest ==
  ASSUME NEW S, IsFiniteSet(S), NEW g \in [S -> Int], NEW F, AddsUp(F, g, S)
  PROVE  /\ F[{}] = 0
         /\ \A s \in SUBSET S : F[s] \in Int
         /\ \A s \in SUBSET S, x \in S : x \in s => F[s] = g[x] + F[s \ {x}]
<1> DEFINE A == {n \in Nat : \A s \in SUBSET S : Cardinality(s) <= n =>
                   /\ F[s] \in Int
                   /\ \A x \in s : F[s] = g[x] + F[s \ {x}]}
<1>1. \A s \in SUBSET S : IsFiniteSet(s) /\ Cardinality(s) \in Nat
  BY FS_Subset, FS_CardinalityType
<1>2. \A s \in SUBSET S, x \in S : x \in s =>
        s \ {x} \in SUBSET S /\ Cardinality(s \ {x}) = Cardinality(s) - 1
  BY <1>1, FS_RemoveElement
<1>3. \A s \in SUBSET S : Cardinality(s) = 0 <=> s = {}
  BY <1>1, FS_EmptySet
<1>4. F[{}] = 0
  BY DEF AddsUp
<1>5. \A s \in SUBSET S : s # {} =>
        Pick(s) \in S /\ Pick(s) \in s /\ F[s] = g[Pick(s)] + F[s \ {Pick(s)}]
  BY PickIsElement DEF AddsUp
<1>6. 0 \in A
  <2>1. \A s \in SUBSET S : Cardinality(s) <= 0 => s = {}
    BY <1>1, <1>3
  <2> QED BY <1>4, <2>1
<1>7. ASSUME NEW n \in Nat, n \in A PROVE n + 1 \in A
  <2> SUFFICES \A s \in SUBSET S : Cardinality(s) <= n + 1 =>
                  F[s] \in Int /\ \A x \in s : F[s] = g[x] + F[s \ {x}]
    OBVIOUS
  <2>1. F[{}] \in Int /\ \A x \in {} : F[{}] = g[x] + F[{} \ {x}]
    BY <1>4
  <2> HIDE DEF A
  <2> SUFFICES ASSUME NEW s \in SUBSET S, Cardinality(s) <= n + 1, s # {}
               PROVE  F[s] \in Int /\ \A x \in s : F[s] = g[x] + F[s \ {x}]
    BY <2>1, Zenon
  <2>0. \A t \in SUBSET S : Cardinality(t) <= n =>
          F[t] \in Int /\ \A x \in t : F[t] = g[x] + F[t \ {x}]
    BY <1>7 DEF A
  <2> DEFINE c == Pick(s)
  <2>2. c \in S /\ c \in s /\ F[s] = g[c] + F[s \ {c}]
    BY <1>5
  <2>3. s \ {c} \in SUBSET S /\ Cardinality(s \ {c}) <= n
    BY <1>1, <1>2, <2>2
  <2>4. F[s \ {c}] \in Int
    BY <2>0, <2>3
  <2>5. F[s] \in Int
    BY <2>2, <2>4
  <2>6. ASSUME NEW x \in s, x # c PROVE F[s] = g[x] + F[s \ {x}]
    <3>1. x \in S /\ s \ {x} \in SUBSET S /\ Cardinality(s \ {x}) <= n
      BY <1>1, <1>2
    <3>2. F[s \ {c}] = g[x] + F[(s \ {c}) \ {x}]
      BY <2>0, <2>3, <2>6
    <3>3. F[s \ {x}] = g[c] + F[(s \ {x}) \ {c}]
      BY <2>0, <2>2, <2>6, <3>1
    <3>4. (s \ {c}) \ {x} = (s \ {x}) \ {c}
      OBVIOUS
    <3>5. F[(s \ {c}) \ {x}] \in Int
      <4>1. (s \ {c}) \ {x} \in SUBSET S /\ Cardinality((s \ {c}) \ {x}) <= n
        <5>1. x \in s \ {c}
          BY <2>6
        <5>2. /\ (s \ {c}) \ {x} \in SUBSET S
              /\ Cardinality((s \ {c}) \ {x}) = Cardinality(s \ {c}) - 1
          BY <1>2, <2>3, <3>1, <5>1
        <5> QED BY <1>1, <2>3, <5>2
      <4> QED BY <2>0, <4>1
    <3>6. g[c] \in Int /\ g[x] \in Int
      BY <2>2, <3>1
    <3>7. PICK t \in Int : t = F[(s \ {c}) \ {x}]
      BY <3>5
    <3>8. F[s] = g[c] + (g[x] + t)
      BY <2>2, <3>2, <3>7
    <3>9. F[s \ {x}] = g[c] + t
      BY <3>3, <3>4, <3>7
    <3> QED BY <3>6, <3>8, <3>9
  <2> QED BY <2>2, <2>5, <2>6
<1>8. Nat \subseteq A
  <2> HIDE DEF A
  <2> QED BY <1>6, <1>7, Induction
<1>9. \A s \in SUBSET S : F[s] \in Int /\ \A x \in s : F[s] = g[x] + F[s \ {x}]
  BY <1>1, <1>8
<1> QED BY <1>4, <1>9

(* Two such functions agree on the sets that both know.                     *)
LEMMA SumsAgree ==
  ASSUME NEW S, IsFiniteSet(S), NEW T, IsFiniteSet(T), S \subseteq T,
         NEW g \in [S -> Int], NEW h \in [T -> Int], \A x \in S : g[x] = h[x],
         NEW F, AddsUp(F, g, S), NEW G, AddsUp(G, h, T)
  PROVE  F[S] = G[S]
<1> DEFINE A == {n \in Nat : \A s \in SUBSET S : Cardinality(s) <= n => F[s] = G[s]}
<1>1. \A s \in SUBSET S : IsFiniteSet(s) /\ Cardinality(s) \in Nat
  BY FS_Subset, FS_CardinalityType
<1>2. F[{}] = 0 /\ G[{}] = 0
  BY SumOfRest
<1>3. \A s \in SUBSET S, x \in S : x \in s => F[s] = g[x] + F[s \ {x}]
  BY SumOfRest
<1>4. \A s \in SUBSET T, x \in T : x \in s => G[s] = h[x] + G[s \ {x}]
  BY SumOfRest
<1>5. 0 \in A
  <2>1. \A s \in SUBSET S : Cardinality(s) <= 0 => s = {}
    BY <1>1, FS_EmptySet
  <2> QED BY <1>2, <2>1
<1>6. ASSUME NEW n \in Nat, n \in A PROVE n + 1 \in A
  <2>1. ASSUME NEW s \in SUBSET S, Cardinality(s) <= n + 1, s # {} PROVE F[s] = G[s]
    <3>1. PICK x \in s : TRUE
      BY <2>1
    <3>2. s \ {x} \in SUBSET S /\ Cardinality(s \ {x}) = Cardinality(s) - 1
      BY <1>1, FS_RemoveElement
    <3>3. F[s \ {x}] = G[s \ {x}]
      BY <1>1, <1>6, <2>1, <3>2
    <3>4. F[s] = g[x] + F[s \ {x}]
      BY <1>3
    <3>5. G[s] = h[x] + G[s \ {x}]
      BY <1>4
    <3> QED BY <3>3, <3>4, <3>5
  <2>2. \A s \in SUBSET S : Cardinality(s) <= n + 1 => F[s] = G[s]
    BY <1>2, <2>1
  <2> QED BY <2>2
<1>7. Nat \subseteq A
  <2> HIDE DEF A
  <2> QED BY <1>5, <1>6, Induction
<1>8. Cardinality(S) \in A
  BY <1>1, <1>7
<1> QED BY <1>1, <1>8

-----------------------------------------------------------------------------
(* v is the total of the values of g over S.                                *)
IsTotal(v, g, S) == \E F : AddsUp(F, g, S) /\ v = F[S]

LEMMA TotalIsInteger ==
  ASSUME NEW S, IsFiniteSet(S), NEW g \in [S -> Int], NEW v, IsTotal(v, g, S)
  PROVE  v \in Int /\ (S = {} => v = 0)
<1>1. PICK F : AddsUp(F, g, S) /\ v = F[S]
  BY DEF IsTotal
<1>2. F[{}] = 0 /\ \A s \in SUBSET S : F[s] \in Int
  BY <1>1, SumOfRest
<1>3. S \in SUBSET S
  OBVIOUS
<1> QED BY <1>1, <1>2, <1>3

LEMMA TotalExists ==
  ASSUME NEW S, IsFiniteSet(S), NEW g \in [S -> Int]
  PROVE  \E v \in Int : IsTotal(v, g, S)
<1>1. PICK F : AddsUp(F, g, S)
  BY SumExists
<1>2. IsTotal(F[S], g, S)
  BY <1>1 DEF IsTotal
<1> QED BY <1>2, TotalIsInteger

LEMMA TotalIsUnique ==
  ASSUME NEW S, IsFiniteSet(S), NEW g \in [S -> Int],
         NEW v, IsTotal(v, g, S), NEW w, IsTotal(w, g, S)
  PROVE  v = w
<1>1. PICK F : AddsUp(F, g, S) /\ v = F[S]
  BY DEF IsTotal
<1>2. PICK G : AddsUp(G, g, S) /\ w = G[S]
  BY DEF IsTotal
<1> QED BY <1>1, <1>2, SumsAgree

(* One more element adds its value.                                         *)
LEMMA TotalOfOneMore ==
  ASSUME NEW S, IsFiniteSet(S), NEW x, x \notin S,
         NEW g \in [S -> Int], NEW h \in [S \cup {x} -> Int], \A y \in S : g[y] = h[y],
         NEW v, IsTotal(v, g, S), NEW w, IsTotal(w, h, S \cup {x})
  PROVE  w = v + h[x]
<1> DEFINE T == S \cup {x}
<1>1. IsFiniteSet(T)
  BY FS_AddElement
<1>2. PICK F : AddsUp(F, g, S) /\ v = F[S]
  BY DEF IsTotal
<1>3. PICK G : AddsUp(G, h, T) /\ w = G[T]
  BY DEF IsTotal
<1>4. F[S] = G[S]
  BY <1>1, <1>2, <1>3, SumsAgree
<1>5. /\ \A s \in SUBSET T : G[s] \in Int
      /\ \A s \in SUBSET T, y \in T : y \in s => G[s] = h[y] + G[s \ {y}]
  <2>1. h \in [T -> Int]
    OBVIOUS
  <2> HIDE DEF T
  <2> QED BY <1>1, <1>3, <2>1, SumOfRest
<1>6. T \in SUBSET T /\ x \in T /\ S \in SUBSET T /\ T \ {x} = S
  OBVIOUS
<1>7. G[T] = h[x] + G[S] /\ G[S] \in Int
  <2> HIDE DEF T
  <2> QED BY <1>5, <1>6
<1>8. PICK i \in Int : i = h[x]
  OBVIOUS
<1>9. PICK j \in Int : j = G[S]
  BY <1>7
<1>10. w = i + j /\ v = j
  BY <1>2, <1>3, <1>4, <1>7, <1>8, <1>9
<1> QED BY <1>8, <1>10
===============================================================================
