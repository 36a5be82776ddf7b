---------------------------- MODULE SumTheorems ----------------------------
(***************************************************************************)
(* Sums over finite sets, in which the units of reservations and the       *)
(* totals of orders are counted.  SumFunctionOnSet folds the set in the    *)
(* order CHOOSE fixes; these facts make the order immaterial.              *)
(*                                                                         *)
(* Induction goes through a smallest counterexample: the theorems of the   *)
(* library that take a predicate as a parameter are of no use to the       *)
(* provers, the one that takes a set is.                                   *)
(***************************************************************************)
EXTENDS Functions, FiniteSetTheorems, TLAPS

\* Of a set of finite sets, one has no other below it.
LEMMA SmallestSet ==
  ASSUME NEW S, IsFiniteSet(S), NEW Bad, Bad \subseteq SUBSET S, Bad # {}
  PROVE  \E T \in Bad : \A U \in Bad : U \subseteq T => U = T
<1>1. Bad \subseteq FiniteSubsetsOf(S)
  BY FS_Subset DEF FiniteSubsetsOf
<1>2. IsWellFoundedOn(StrictSubsetOrdering(S), FiniteSubsetsOf(S))
  BY FS_StrictSubsetOrderingWellFounded
<1>3. PICK T \in Bad : \A U \in Bad : <<U, T>> \notin StrictSubsetOrdering(S)
  BY <1>1, <1>2, WFMin
<1>4. ASSUME NEW U \in Bad, U \subseteq T, U # T PROVE FALSE
  <2>1. <<U, T>> \in StrictSubsetOrdering(S)
    BY <1>4 DEF StrictSubsetOrdering
  <2> QED
    BY <1>3, <2>1
<1> QED
  BY <1>4

-----------------------------------------------------------------------------
(* The recursion behind the sum.                                           *)

First(s) == CHOOSE x \in s : TRUE

\* g[s] is the sum of fun over s, for every s below S.
Adds(g, fun, S) ==
  g = [s \in SUBSET S |-> IF s = {} THEN 0 ELSE fun[First(s)] + g[s \ {First(s)}]]

\* The first element of a set is one of its elements.
LEMMA FirstIn == \A s : s # {} => First(s) \in s
BY DEF First

\* The recursion, at one set.
LEMMA AddsAt ==
  ASSUME NEW g, NEW fun, NEW S, Adds(g, fun, S), NEW s \in SUBSET S
  PROVE  g[s] = IF s = {} THEN 0 ELSE fun[First(s)] + g[s \ {First(s)}]
BY DEF Adds

\* Two of them agree where both are defined.
LEMMA AddsAgree ==
  ASSUME NEW g, NEW h, NEW fun, NEW S, NEW T, IsFiniteSet(S),
         Adds(g, fun, S), Adds(h, fun, T)
  PROVE  \A s \in SUBSET (S \cap T) : g[s] = h[s]
<1> DEFINE Bad == {s \in SUBSET (S \cap T) : g[s] # h[s]}
<1>1. ASSUME Bad # {} PROVE FALSE
  <2>1. PICK s \in Bad : \A u \in Bad : u \subseteq s => u = s
    <3>1. Bad \subseteq SUBSET S
      OBVIOUS
    <3> HIDE DEF Bad
    <3> QED
      BY <1>1, <3>1, SmallestSet
  <2>2. s \in SUBSET S /\ s \in SUBSET T
    OBVIOUS
  <2>3. s # {}
    BY <2>2, AddsAt
  <2>4. First(s) \in s
    BY <2>3, FirstIn
  <2>5. g[s \ {First(s)}] = h[s \ {First(s)}]
    BY <2>1, <2>4
  <2> QED
    BY <2>2, <2>3, <2>5, AddsAt
<1> QED
  BY <1>1

\* There is one for every finite set.
LEMMA AddsExists ==
  ASSUME NEW fun, NEW S, IsFiniteSet(S)
  PROVE  \E g : Adds(g, fun, S)
<1> DEFINE Bad == {T \in SUBSET S : ~ \E g : Adds(g, fun, T)}
           G(T) == CHOOSE g : Adds(g, fun, T)
<1>1. ASSUME Bad # {} PROVE FALSE
  <2>1. PICK T \in Bad : \A U \in Bad : U \subseteq T => U = T
    <3>1. Bad \subseteq SUBSET S
      OBVIOUS
    <3> HIDE DEF Bad
    <3> QED
      BY <1>1, <3>1, SmallestSet
  <2>2. IsFiniteSet(T)
    BY FS_Subset
  <2>3. ASSUME NEW U \in SUBSET T, U # T PROVE Adds(G(U), fun, U)
    <3>1. \E g : Adds(g, fun, U)
      BY <2>1, <2>3
    <3> QED
      BY <3>1
  <2> HIDE DEF G, Bad
  <2> DEFINE rest(s) == s \ {First(s)}
             h == [s \in SUBSET T |->
                     IF s = {} THEN 0 ELSE fun[First(s)] + G(rest(s))[rest(s)]]
  <2>4. ASSUME NEW s \in SUBSET T, s # T PROVE h[s] = G(s)[s]
    <3>1. CASE s = {}
      BY <2>3, <2>4, <3>1, AddsAt
    <3>2. CASE s # {}
      <4>1. First(s) \in s
        BY <3>2, FirstIn
      <4>2. rest(s) \in SUBSET T /\ rest(s) # T /\ rest(s) \in SUBSET s /\ IsFiniteSet(rest(s))
        BY <2>2, <2>4, <4>1, FS_Subset
      <4>3. Adds(G(s), fun, s) /\ Adds(G(rest(s)), fun, rest(s))
        BY <2>3, <2>4, <4>2
      <4>4. G(s)[rest(s)] = G(rest(s))[rest(s)]
        <5> DEFINE r == rest(s)
        <5>1. \A u \in SUBSET (r \cap s) : G(r)[u] = G(s)[u]
          <6>1. IsFiniteSet(r) /\ Adds(G(r), fun, r) /\ Adds(G(s), fun, s)
            BY <4>2, <4>3
          <6> HIDE DEF r
          <6> QED
            BY <6>1, AddsAgree
        <5>2. r \in SUBSET (r \cap s)
          OBVIOUS
        <5> QED
          BY <5>1, <5>2
      <4>5. G(s)[s] = fun[First(s)] + G(s)[rest(s)]
        BY <3>2, <4>3, AddsAt
      <4> QED
        BY <3>2, <4>4, <4>5
    <3> QED
      BY <3>1, <3>2
  <2>5. ASSUME NEW s \in SUBSET T, s # {} PROVE h[rest(s)] = G(rest(s))[rest(s)]
    <3>1. First(s) \in s
      BY <2>5, FirstIn
    <3>2. rest(s) \in SUBSET T /\ rest(s) # T
      BY <3>1
    <3> HIDE DEF h, rest
    <3> QED
      BY <2>4, <3>2
  <2>6. h = [s \in SUBSET T |-> IF s = {} THEN 0 ELSE fun[First(s)] + h[s \ {First(s)}]]
    <3>1. \A s \in SUBSET T : s # {} => h[s \ {First(s)}] = G(rest(s))[rest(s)]
      BY <2>5
    <3>2. \A s \in SUBSET T :
            h[s] = IF s = {} THEN 0 ELSE fun[First(s)] + h[s \ {First(s)}]
      BY <3>1
    <3>3. h = [s \in SUBSET T |-> h[s]]
      OBVIOUS
    <3> HIDE DEF h
    <3> QED
      BY <3>2, <3>3
  <2>7. Adds(h, fun, T)
    BY <2>6 DEF Adds
  <2> HIDE DEF h
  <2> QED
    BY <2>7 DEF Bad
<1> QED
  <2>1. S \notin Bad
    BY <1>1
  <2> QED
    BY <2>1

\* The sum is the value of any of them.
LEMMA SumIs ==
  ASSUME NEW g, NEW fun, NEW S, IsFiniteSet(S), Adds(g, fun, S), NEW T \in SUBSET S
  PROVE  SumFunctionOnSet(fun, T) = g[T]
<1> DEFINE iter == CHOOSE h : Adds(h, fun, T)
<1>1. IsFiniteSet(T)
  BY FS_Subset
<1>2. Adds(iter, fun, T)
  BY <1>1, AddsExists
<1>3. SumFunctionOnSet(fun, T) = iter[T]
  BY DEF SumFunctionOnSet, FoldFunctionOnSet, MapThenFoldSet, Adds, First
<1> HIDE DEF iter
<1>4. \A s \in SUBSET (T \cap S) : iter[s] = g[s]
  BY <1>1, <1>2, AddsAgree
<1> QED
  BY <1>3, <1>4

-----------------------------------------------------------------------------
(* What is used of sums.                                                   *)

\* Nothing adds up to nothing.
LEMMA SumEmpty == \A fun : SumFunctionOnSet(fun, {}) = 0
<1> SUFFICES ASSUME NEW fun PROVE SumFunctionOnSet(fun, {}) = 0
  OBVIOUS
<1>1. IsFiniteSet({})
  BY FS_EmptySet
<1>2. PICK g : Adds(g, fun, {})
  BY <1>1, AddsExists
<1> QED
  BY <1>1, <1>2, SumIs, AddsAt

\* The sum begins with the element CHOOSE finds first.
LEMMA SumFirst ==
  ASSUME NEW fun, NEW S, IsFiniteSet(S), S # {}
  PROVE  SumFunctionOnSet(fun, S) = fun[First(S)] + SumFunctionOnSet(fun, S \ {First(S)})
<1>1. PICK g : Adds(g, fun, S)
  BY AddsExists
<1>2. S \in SUBSET S /\ S \ {First(S)} \in SUBSET S
  OBVIOUS
<1>3. SumFunctionOnSet(fun, S) = g[S]
  BY <1>1, <1>2, SumIs
<1>4. SumFunctionOnSet(fun, S \ {First(S)}) = g[S \ {First(S)}]
  BY <1>1, <1>2, SumIs
<1>5. g[S] = fun[First(S)] + g[S \ {First(S)}]
  BY <1>1, <1>2, AddsAt
<1> QED
  BY <1>3, <1>4, <1>5

\* Any element can be taken out first; and integers add up to an integer.
LEMMA SumRemove ==
  ASSUME NEW fun, NEW S, IsFiniteSet(S), \A x \in S : fun[x] \in Int
  PROVE  /\ SumFunctionOnSet(fun, S) \in Int
         /\ \A x \in S : SumFunctionOnSet(fun, S) = fun[x] + SumFunctionOnSet(fun, S \ {x})
<1> DEFINE Good(T) == /\ SumFunctionOnSet(fun, T) \in Int
                      /\ \A x \in T : SumFunctionOnSet(fun, T)
                                        = fun[x] + SumFunctionOnSet(fun, T \ {x})
           Bad == {T \in SUBSET S : ~Good(T)}
<1>1. ASSUME Bad # {} PROVE FALSE
  <2>1. PICK T \in Bad : \A U \in Bad : U \subseteq T => U = T
    <3>1. Bad \subseteq SUBSET S
      OBVIOUS
    <3> HIDE DEF Bad
    <3> QED
      BY <1>1, <3>1, SmallestSet
  <2>2. ASSUME NEW x \in T PROVE Good(T \ {x})
    <3>1. T \ {x} \in SUBSET S /\ T \ {x} \subseteq T /\ T \ {x} # T
      BY <2>2
    <3>2. T \ {x} \notin Bad
      <4> HIDE DEF Bad
      <4> QED
        BY <2>1, <3>1
    <3> HIDE DEF Good
    <3> QED
      BY <3>1, <3>2
  <2>3. IsFiniteSet(T) /\ T \in SUBSET S
    BY FS_Subset
  <2>4. T # {}
    <3>1. Good({})
      BY SumEmpty
    <3> HIDE DEF Good
    <3> QED
      BY <3>1
  <2> DEFINE y == First(T)
             Sum(U) == SumFunctionOnSet(fun, U)
  <2>5. y \in T
    BY <2>4, FirstIn
  <2>6. Sum(T) = fun[y] + Sum(T \ {y})
    BY <2>3, <2>4, SumFirst
  <2>7. ASSUME NEW x \in T PROVE Sum(T) = fun[x] + Sum(T \ {x})
    <3>1. CASE x = y
      BY <2>6, <3>1
    <3>2. CASE x # y
      <4>1. Sum(T \ {y}) = fun[x] + Sum((T \ {y}) \ {x})
        BY <2>2, <2>5, <2>7, <3>2
      <4>2. Sum(T \ {x}) = fun[y] + Sum((T \ {x}) \ {y})
        BY <2>2, <2>5, <2>7, <3>2
      <4>3. (T \ {y}) \ {x} = (T \ {x}) \ {y}
        OBVIOUS
      <4>4. fun[x] \in Int /\ fun[y] \in Int /\ Sum((T \ {x}) \ {y}) \in Int
        <5>1. Sum(T \ {x}) \in Int
          BY <2>2
        <5>2. (T \ {x}) \ {y} \in SUBSET S /\ (T \ {x}) \ {y} \subseteq T
          BY <2>3
        <5>3. (T \ {x}) \ {y} # T
          BY <2>5
        <5>4. (T \ {x}) \ {y} \notin Bad
          <6> HIDE DEF Bad, y
          <6> QED
            BY <2>1, <5>2, <5>3
        <5>5. Good((T \ {x}) \ {y})
          <6> HIDE DEF Good
          <6> QED
            BY <5>2, <5>4
        <5> QED
          BY <2>3, <2>5, <5>5
      <4> DEFINE a == fun[x]
                 b == fun[y]
                 c == Sum((T \ {x}) \ {y})
      <4>5. Sum(T) = b + (a + c)
        BY <2>6, <4>1, <4>3
      <4>6. fun[x] + Sum(T \ {x}) = a + (b + c)
        BY <4>2
      <4>7. a \in Int /\ b \in Int /\ c \in Int
        BY <4>4
      <4> HIDE DEF a, b, c
      <4>8. b + (a + c) = a + (b + c)
        BY <4>7
      <4> QED
        BY <4>5, <4>6, <4>8
    <3> QED
      BY <3>1, <3>2
  <2>8. Sum(T) \in Int
    <3>1. Sum(T \ {y}) \in Int
      BY <2>2, <2>5
    <3>2. fun[y] \in Int
      BY <2>3, <2>5
    <3> HIDE DEF Sum
    <3> QED
      BY <2>6, <3>1, <3>2
  <2>9. Good(T)
    BY <2>7, <2>8
  <2> HIDE DEF Good
  <2> QED
    BY <2>9
<1>2. Good(S)
  <2>1. S \notin Bad
    BY <1>1
  <2> HIDE DEF Good
  <2> QED
    BY <2>1
<1> QED
  BY <1>2

\* What is nowhere below zero does not add up to less.
LEMMA SumNat ==
  ASSUME NEW fun, NEW S, IsFiniteSet(S), \A x \in S : fun[x] \in Nat
  PROVE  SumFunctionOnSet(fun, S) \in Nat
<1> DEFINE Sum(T) == SumFunctionOnSet(fun, T)
           Bad == {T \in SUBSET S : Sum(T) \notin Nat}
<1>1. ASSUME Bad # {} PROVE FALSE
  <2>1. PICK T \in Bad : \A U \in Bad : U \subseteq T => U = T
    <3>1. Bad \subseteq SUBSET S
      OBVIOUS
    <3> HIDE DEF Bad
    <3> QED
      BY <1>1, <3>1, SmallestSet
  <2>2. IsFiniteSet(T) /\ T \in SUBSET S
    BY FS_Subset
  <2>3. T # {}
    BY SumEmpty
  <2>4. PICK x : x \in T
    BY <2>3
  <2>5. T \ {x} \in SUBSET S /\ T \ {x} \subseteq T /\ T \ {x} # T
    BY <2>2, <2>4
  <2>6. T \ {x} \notin Bad
    <3> HIDE DEF Bad
    <3> QED
      BY <2>1, <2>5
  <2>7. Sum(T \ {x}) \in Nat /\ fun[x] \in Nat
    BY <2>2, <2>4, <2>5, <2>6
  <2>8. Sum(T) = fun[x] + Sum(T \ {x})
    BY <2>2, <2>4, SumRemove
  <2>9. Sum(T) \notin Nat
    OBVIOUS
  <2> HIDE DEF Sum
  <2> QED
    BY <2>7, <2>8, <2>9
<1>2. S \notin Bad
  BY <1>1
<1> QED
  BY <1>2

\* One element more.
LEMMA SumAdd ==
  ASSUME NEW fun, NEW S, IsFiniteSet(S), \A s \in S : fun[s] \in Int,
         NEW x, x \notin S, fun[x] \in Int
  PROVE  SumFunctionOnSet(fun, S \cup {x}) = SumFunctionOnSet(fun, S) + fun[x]
<1>1. IsFiniteSet(S \cup {x}) /\ x \in S \cup {x} /\ (S \cup {x}) \ {x} = S
  BY FS_AddElement
<1>2. SumFunctionOnSet(fun, S \cup {x}) = fun[x] + SumFunctionOnSet(fun, (S \cup {x}) \ {x})
  BY <1>1, SumRemove
<1>3. SumFunctionOnSet(fun, (S \cup {x}) \ {x}) = SumFunctionOnSet(fun, S)
  BY <1>1
<1> DEFINE sum == SumFunctionOnSet(fun, S)
<1>4. sum \in Int
  BY SumRemove
<1>5. SumFunctionOnSet(fun, S \cup {x}) = fun[x] + sum
  BY <1>2, <1>3
<1> HIDE DEF sum
<1>6. fun[x] + sum = sum + fun[x]
  BY <1>4
<1> QED
  BY <1>5, <1>6 DEF sum

\* The sum of one.
LEMMA SumOne ==
  ASSUME NEW fun, NEW x, fun[x] \in Int
  PROVE  SumFunctionOnSet(fun, {x}) = fun[x]
<1>1. IsFiniteSet({}) /\ {} \cup {x} = {x}
  BY FS_EmptySet
<1>2. SumFunctionOnSet(fun, {} \cup {x}) = SumFunctionOnSet(fun, {}) + fun[x]
  BY <1>1, SumAdd
<1> QED
  BY <1>1, <1>2, SumEmpty

\* The sum depends on what is added up, not on what it is filed under.
LEMMA SumRenamed ==
  ASSUME NEW S, IsFiniteSet(S), NEW T, NEW pi \in Bijection(S, T),
         NEW fun, NEW gun, \A x \in S : fun[x] \in Int /\ gun[pi[x]] = fun[x]
  PROVE  SumFunctionOnSet(fun, S) = SumFunctionOnSet(gun, T)
<1> DEFINE Image(U) == {pi[x] : x \in U}
           Good(U) == SumFunctionOnSet(fun, U) = SumFunctionOnSet(gun, Image(U))
           Bad == {U \in SUBSET S : ~Good(U)}
<1>0. /\ pi \in [S -> T]
      /\ \A x, y \in S : pi[x] = pi[y] => x = y
      /\ \A t \in T : \E s \in S : pi[s] = t
  BY DEF Bijection, Injection, Surjection, IsInjective
<1>1. ASSUME Bad # {} PROVE FALSE
  <2>1. PICK U \in Bad : \A V \in Bad : V \subseteq U => V = U
    <3>1. Bad \subseteq SUBSET S
      OBVIOUS
    <3> HIDE DEF Bad
    <3> QED
      BY <1>1, <3>1, SmallestSet
  <2>2. IsFiniteSet(U) /\ U \in SUBSET S
    BY FS_Subset
  <2>3. U # {}
    <3>1. Good({})
      BY SumEmpty
    <3> HIDE DEF Good
    <3> QED
      BY <3>1
  <2>4. PICK x : x \in U
    BY <2>3
  <2> DEFINE V == U \ {x}
  <2>5. Good(V)
    <3>1. V \in SUBSET S /\ V \subseteq U /\ V # U
      BY <2>2, <2>4
    <3>2. V \notin Bad
      <4> HIDE DEF Bad, V
      <4> QED
        BY <2>1, <3>1
    <3> HIDE DEF Good, V
    <3> QED
      BY <3>1, <3>2
  <2>6. SumFunctionOnSet(fun, U) = fun[x] + SumFunctionOnSet(fun, V)
    BY <2>2, <2>4, SumRemove
  <2>7. SumFunctionOnSet(gun, Image(U)) = gun[pi[x]] + SumFunctionOnSet(gun, Image(V))
    <3>1. Image(V) = Image(U) \ {pi[x]} /\ pi[x] \in Image(U)
      BY <1>0, <2>2, <2>4
    <3>2. IsFiniteSet(Image(U))
      <4>1. [u \in U |-> pi[u]] \in Surjection(U, Image(U))
        BY DEF Surjection
      <4> HIDE DEF Image
      <4> QED
        BY <2>2, <4>1, FS_Surjection
    <3>3. \A t \in Image(U) : gun[t] \in Int
      BY <2>2
    <3> HIDE DEF Image, V
    <3> QED
      BY <3>1, <3>2, <3>3, SumRemove
  <2>8. gun[pi[x]] = fun[x]
    BY <2>2, <2>4
  <2>9. Good(U)
    BY <2>5, <2>6, <2>7, <2>8
  <2> HIDE DEF Good
  <2> QED
    BY <2>9
<1>2. Good(S)
  <2>1. S \notin Bad
    BY <1>1
  <2> HIDE DEF Good
  <2> QED
    BY <2>1
<1>3. Image(S) = T
  BY <1>0
<1> QED
  BY <1>2, <1>3

\* The same numbers, the same sum.
LEMMA SumSame ==
  ASSUME NEW S, IsFiniteSet(S), NEW fun, NEW gun,
         \A x \in S : fun[x] \in Int /\ gun[x] = fun[x]
  PROVE  SumFunctionOnSet(fun, S) = SumFunctionOnSet(gun, S)
<1> DEFINE id == [x \in S |-> x]
<1>1. id \in Bijection(S, S)
  BY DEF Bijection, Injection, Surjection, IsInjective
<1>2. \A x \in S : fun[x] \in Int /\ gun[id[x]] = fun[x]
  OBVIOUS
<1> HIDE DEF id
<1> QED
  BY <1>1, <1>2, SumRenamed
=============================================================================
