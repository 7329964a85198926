---------------------------- MODULE OutagesProofs ----------------------------
(***************************************************************************)
(* What outages cost, whatever the tables of the game and its config: the  *)
(* closed form of the output factor is the sum over the seconds            *)
(* (Integral), and preparing is never the dearer choice.  The folds, sums, *)
(* powers and extrema on the way serve GameProofs too.                     *)
(***************************************************************************)
EXTENDS Outages, NaturalsInduction, FiniteSetTheorems, TLAPS

\* A set of numbers has a first.
LEMMA FirstOf ==
    ASSUME NEW S \in SUBSET Nat, S # {}
    PROVE  \E n \in S : \A k \in S : n <= k
<1>. DEFINE less == {ss \in Nat \X Nat : ss[1] < ss[2]}
<1>1. IsWellFoundedOn(less, Nat)
  BY NatLessThanWellFounded DEF OpToRel
<1>2. PICK n \in S : \A k \in S : <<k, n>> \notin less
  BY <1>1, WFMin
<1>3. \A k \in S : ~ (k < n)
  BY <1>2
<1>. QED
  BY <1>3

\* Induction, for a set of numbers.
LEMMA AllNumbers ==
    ASSUME NEW S \in SUBSET Nat, 0 \in S, \A n \in S : n + 1 \in S
    PROVE  S = Nat
<1>. SUFFICES ASSUME Nat \ S # {} PROVE FALSE
  OBVIOUS
<1>1. PICK n \in Nat \ S : \A k \in Nat \ S : n <= k
  BY FirstOf
<1>2. n - 1 \in Nat /\ n - 1 \in S
  BY <1>1
<1>. QED
  BY <1>1, <1>2

\* The recursive function a fold over the set S is made of.
Folding(S, C, step, base, g) ==
    /\ g \in [SUBSET S -> C]
    /\ \A T \in SUBSET S :
          g[T] = IF T = {} THEN base ELSE step[<<CHOOSE x \in T : TRUE, g[T \ {CHOOSE x \in T : TRUE}]>>]

\* A set without one of its members is smaller.
LEMMA OneLess ==
    ASSUME NEW S, IsFiniteSet(S), NEW T \in SUBSET S, T # {}, NEW x \in T
    PROVE  /\ IsFiniteSet(T) /\ T \ {x} \in SUBSET S /\ IsFiniteSet(T \ {x})
           /\ Cardinality(T) \in Nat /\ Cardinality(T \ {x}) = Cardinality(T) - 1
           /\ Cardinality(T \ {x}) \in Nat
  BY FS_Subset, FS_RemoveElement, FS_CardinalityType

\* What a fold over a finite set asks for can be built up, one member at a time.
LEMMA FoldExists ==
    ASSUME NEW S, IsFiniteSet(S), NEW C, NEW step \in [S \X C -> C], NEW base \in C
    PROVE  \E g : Folding(S, C, step, base, g)
<1>. DEFINE Ch(T) == CHOOSE x \in T : TRUE
            Up(g, T) == IF T = {} THEN base ELSE step[<<Ch(T), g[T \ {Ch(T)}]>>]
            Good(n) == \E g \in [SUBSET S -> C] : \A T \in SUBSET S : Cardinality(T) <= n => g[T] = Up(g, T)
            Ns == {n \in Nat : Good(n)}
<1>0. \A T \in SUBSET S : T # {} => Ch(T) \in T
  OBVIOUS
<1>1. 0 \in Ns
  <2>. DEFINE g == [T \in SUBSET S |-> base]
  <2>1. g \in [SUBSET S -> C]
    OBVIOUS
  <2>2. \A T \in SUBSET S : Cardinality(T) <= 0 => T = {}
    BY FS_Subset, FS_EmptySet, FS_CardinalityType
  <2>3. \A T \in SUBSET S : Cardinality(T) <= 0 => g[T] = Up(g, T)
    BY <2>2
  <2>4. Good(0)
    BY <2>1, <2>3
  <2>. QED
    BY <2>4
<1>2. ASSUME NEW n \in Ns PROVE n + 1 \in Ns
  <2>1. PICK g \in [SUBSET S -> C] : \A T \in SUBSET S : Cardinality(T) <= n => g[T] = Up(g, T)
    OBVIOUS
  <2>. DEFINE h == [T \in SUBSET S |-> Up(g, T)]
  <2>2. ASSUME NEW T \in SUBSET S PROVE Up(g, T) \in C
    <3>1. CASE T = {}
      BY <3>1
    <3>2. CASE T # {}
      <4>1. Ch(T) \in S /\ T \ {Ch(T)} \in SUBSET S
        BY <3>2, <1>0
      <4>. QED
        BY <3>2, <4>1
    <3>. QED
      BY <3>1, <3>2
  <2>3. h \in [SUBSET S -> C]
    BY <2>2
  <2>4. ASSUME NEW T \in SUBSET S, Cardinality(T) <= n + 1 PROVE h[T] = Up(h, T)
    <3>1. CASE T = {}
      BY <3>1
    <3>2. CASE T # {}
      <4>. DEFINE U == T \ {Ch(T)}
      <4>0. Ch(T) \in T
        BY <3>2, <1>0
      <4>1. U \in SUBSET S /\ Cardinality(U) <= n
        <5>. HIDE DEF Ch
        <5>1. /\ U \in SUBSET S /\ Cardinality(U) = Cardinality(T) - 1
              /\ Cardinality(T) \in Nat /\ Cardinality(U) \in Nat
          BY <3>2, <4>0, OneLess
        <5>. QED
          BY <5>1, <2>4
      <4>2. h[U] = Up(g, U) /\ g[U] = Up(g, U)
        BY <4>1, <2>1
      <4>. QED
        BY <3>2, <4>1, <4>2
    <3>. QED
      BY <3>1, <3>2
  <2>5. Good(n + 1)
    BY <2>3, <2>4
  <2>. HIDE DEF Good
  <2>. QED
    BY <2>5
<1>3. Ns = Nat
  <2>. HIDE DEF Good
  <2>. QED BY <1>1, <1>2, AllNumbers
<1>4. Cardinality(S) \in Ns
  BY <1>3, FS_CardinalityType
<1>5. PICK g \in [SUBSET S -> C] : \A T \in SUBSET S : Cardinality(T) <= Cardinality(S) => g[T] = Up(g, T)
  BY <1>4
<1>6. \A T \in SUBSET S : g[T] = Up(g, T)
  BY <1>5, FS_Subset
<1>. QED
  BY <1>5, <1>6 DEF Folding

\* What holds of no element, and of a set when it holds without its chosen one.
LEMMA FoldStays ==
    ASSUME NEW S, IsFiniteSet(S), NEW C, NEW g, g[{}] \in C,
           \A T \in SUBSET S :
               T # {} /\ g[T \ {CHOOSE x \in T : TRUE}] \in C => g[T] \in C
    PROVE  g[S] \in C
<1>. DEFINE Ch(T) == CHOOSE x \in T : TRUE
            Good(n) == \A T \in SUBSET S : Cardinality(T) <= n => g[T] \in C
            Ns == {n \in Nat : Good(n)}
<1>0. \A T \in SUBSET S : T # {} => Ch(T) \in T
  OBVIOUS
<1>1. 0 \in Ns
  <2>1. \A T \in SUBSET S : Cardinality(T) <= 0 => T = {}
    BY FS_Subset, FS_EmptySet, FS_CardinalityType
  <2>. QED
    BY <2>1
<1>2. ASSUME NEW n \in Ns PROVE n + 1 \in Ns
  <2>1. ASSUME NEW T \in SUBSET S, Cardinality(T) <= n + 1 PROVE g[T] \in C
    <3>1. CASE T = {}
      BY <3>1
    <3>2. CASE T # {}
      <4>. DEFINE U == T \ {Ch(T)}
      <4>0. Ch(T) \in T
        BY <3>2, <1>0
      <4>1. U \in SUBSET S /\ Cardinality(U) <= n
        <5>. HIDE DEF Ch
        <5>1. /\ U \in SUBSET S /\ Cardinality(U) = Cardinality(T) - 1
              /\ Cardinality(T) \in Nat /\ Cardinality(U) \in Nat
          BY <3>2, <4>0, OneLess
        <5>. QED
          BY <5>1, <2>1
      <4>2. g[U] \in C
        BY <4>1
      <4>. QED
        BY <3>2, <4>2
    <3>. QED
      BY <3>1, <3>2
  <2>2. Good(n + 1)
    BY <2>1
  <2>. HIDE DEF Good
  <2>. QED
    BY <2>2
<1>3. Ns = Nat
  <2>. HIDE DEF Good
  <2>. QED BY <1>1, <1>2, AllNumbers
<1>4. Cardinality(S) \in Ns
  BY <1>3, FS_CardinalityType
<1>5. Good(Cardinality(S))
  <2>. HIDE DEF Good
  <2>. QED BY <1>4
<1>6. S \in SUBSET S /\ Cardinality(S) <= Cardinality(S)
  BY FS_CardinalityType
<1>. QED
  BY <1>5, <1>6


Summing(f, S, g) ==
    \A T \in SUBSET S :
        g[T] = IF T = {} THEN 0 ELSE f[CHOOSE x \in T : TRUE] + g[T \ {CHOOSE x \in T : TRUE}]

\* A sum depends on what is summed alone.
LEMMA SumsAgree ==
    ASSUME NEW S, IsFiniteSet(S), NEW T \in SUBSET S, NEW f, NEW e, NEW g, NEW h,
           Summing(f, S, g), Summing(e, T, h), \A i \in T : f[i] = e[i]
    PROVE  \A U \in SUBSET T : g[U] = h[U]
<1>. DEFINE Ch(U) == CHOOSE x \in U : TRUE
            Good(n) == \A U \in SUBSET T : Cardinality(U) <= n => g[U] = h[U]
            Ns == {n \in Nat : Good(n)}
<1>0. /\ \A U \in SUBSET T : U # {} => Ch(U) \in U
      /\ IsFiniteSet(T)
  BY FS_Subset
<1>1. 0 \in Ns
  <2>1. \A U \in SUBSET T : Cardinality(U) <= 0 => U = {}
    BY FS_Subset, FS_EmptySet, FS_CardinalityType
  <2>2. g[{}] = 0 /\ h[{}] = 0
    BY DEF Summing
  <2>. QED
    BY <2>1, <2>2
<1>2. ASSUME NEW n \in Ns PROVE n + 1 \in Ns
  <2>1. ASSUME NEW U \in SUBSET T, Cardinality(U) <= n + 1 PROVE g[U] = h[U]
    <3>1. CASE U = {}
      BY <3>1 DEF Summing
    <3>2. CASE U # {}
      <4>. DEFINE V == U \ {Ch(U)}
      <4>0. Ch(U) \in U
        BY <3>2, <1>0
      <4>1. V \in SUBSET T /\ Cardinality(V) <= n
        <5>. HIDE DEF Ch
        <5>1. /\ V \in SUBSET T /\ Cardinality(V) = Cardinality(U) - 1
              /\ Cardinality(U) \in Nat /\ Cardinality(V) \in Nat
          BY <3>2, <4>0, <1>0, OneLess
        <5>. QED
          BY <5>1, <2>1
      <4>2. g[V] = h[V]
        BY <4>1
      <4>3. g[U] = f[Ch(U)] + g[V] /\ h[U] = e[Ch(U)] + h[V]
        BY <3>2 DEF Summing
      <4>. QED
        BY <4>0, <4>2, <4>3
    <3>. QED
      BY <3>1, <3>2
  <2>2. Good(n + 1)
    BY <2>1
  <2>. HIDE DEF Good
  <2>. QED
    BY <2>2
<1>3. Ns = Nat
  <2>. HIDE DEF Good
  <2>. QED BY <1>1, <1>2, AllNumbers
<1>4. Cardinality(T) \in Ns
  BY <1>0, <1>3, FS_CardinalityType
<1>. QED
  BY <1>0, <1>4, FS_Subset

IntsOn(f, S) == IsFiniteSet(S) /\ \A i \in S : f[i] \in Int
IntSum(f) == IntsOn(f, DOMAIN f)

\* The function SumFunction is made of.
LEMMA SumIs ==
    ASSUME NEW f, IntSum(f)
    PROVE  \E g \in [SUBSET (DOMAIN f) -> Int] : Summing(f, DOMAIN f, g) /\ SumFunction(f) = g[DOMAIN f]
<1>. DEFINE D == DOMAIN f
            Ch(T) == CHOOSE x \in T : TRUE
            step == [p \in D \X Int |-> f[p[1]] + p[2]]
            Solves(g) == g = [T \in SUBSET D |-> IF T = {} THEN 0 ELSE f[Ch(T)] + g[T \ {Ch(T)}]]
            it == CHOOSE g : Solves(g)
<1>1. \A p \in D \X Int : f[p[1]] + p[2] \in Int
  BY DEF IntSum, IntsOn
<1>2. step \in [D \X Int -> Int] /\ IsFiniteSet(D)
  BY <1>1 DEF IntSum, IntsOn
<1>3. PICK g : Folding(D, Int, step, 0, g)
  <2>1. 0 \in Int
    OBVIOUS
  <2>2. \A S : \A u \in [S \X Int -> Int] : \A b \in Int : IsFiniteSet(S) => \E g : Folding(S, Int, u, b, g)
    BY FoldExists, Zenon
  <2>. HIDE DEF step, D
  <2>. QED BY <1>2, <2>1, <2>2, Zenon
<1>4. \A T \in SUBSET D : T # {} => Ch(T) \in D /\ T \ {Ch(T)} \in SUBSET D
  OBVIOUS
<1>5. g \in [SUBSET D -> Int] /\ Solves(g)
  <2>1. g \in [SUBSET D -> Int]
    BY <1>3 DEF Folding
  <2>2. ASSUME NEW T \in SUBSET D PROVE g[T] = IF T = {} THEN 0 ELSE f[Ch(T)] + g[T \ {Ch(T)}]
    <3>1. g[T] = IF T = {} THEN 0 ELSE step[<<Ch(T), g[T \ {Ch(T)}]>>]
      BY <1>3 DEF Folding
    <3>2. CASE T = {}
      BY <3>1, <3>2
    <3>3. CASE T # {}
      <4>1. <<Ch(T), g[T \ {Ch(T)}]>> \in D \X Int
        BY <1>4, <2>1, <3>3
      <4>2. step[<<Ch(T), g[T \ {Ch(T)}]>>] = f[Ch(T)] + g[T \ {Ch(T)}]
        <5>. HIDE DEF Ch
        <5>. QED BY <4>1
      <4>. QED
        BY <3>1, <3>3, <4>2
    <3>. QED
      BY <3>2, <3>3
  <2>. QED
    BY <2>1, <2>2
<1>6. Solves(it)
  <2>. HIDE DEF Solves
  <2>. QED BY <1>5
<1>7. Summing(f, D, g) /\ Summing(f, D, it)
  BY <1>5, <1>6 DEF Summing
<1>8. it[D] = g[D]
  <2>. HIDE DEF it, D
  <2>. QED BY <1>2, <1>7, SumsAgree
<1>9. SumFunction(f) = it[D]
  BY DEF SumFunction, SumFunctionOnSet, FoldFunctionOnSet, MapThenFoldSet
<1>. QED
  BY <1>5, <1>7, <1>8, <1>9

\* Any element may be added last.
LEMMA SumRemoves ==
    ASSUME NEW S, NEW f, IntsOn(f, S), NEW g \in [SUBSET S -> Int], Summing(f, S, g), NEW y \in S
    PROVE  g[S] = f[y] + g[S \ {y}]
<1>a. IsFiniteSet(S) /\ \A i \in S : f[i] \in Int
  BY DEF IntsOn
<1>. DEFINE Ch(U) == CHOOSE x \in U : TRUE
            Good(n) == \A T \in SUBSET S : Cardinality(T) <= n => \A x \in T : g[T] = f[x] + g[T \ {x}]
            Ns == {n \in Nat : Good(n)}
<1>0. \A T \in SUBSET S : T # {} => Ch(T) \in T
  OBVIOUS
<1>1. 0 \in Ns
  <2>1. \A T \in SUBSET S : Cardinality(T) <= 0 => T = {}
    BY <1>a, FS_Subset, FS_EmptySet, FS_CardinalityType
  <2>. QED
    BY <2>1
<1>2. ASSUME NEW n \in Ns PROVE n + 1 \in Ns
  <2>1. ASSUME NEW T \in SUBSET S, Cardinality(T) <= n + 1, NEW x \in T
        PROVE  g[T] = f[x] + g[T \ {x}]
    <3>. DEFINE c == Ch(T)
    <3>0. c \in T
      BY <1>0
    <3>1. g[T] = f[c] + g[T \ {c}]
      BY <2>1 DEF Summing
    <3>2. CASE c = x
      BY <3>1, <3>2
    <3>3. CASE c # x
      <4>. HIDE DEF c
      <4>1. /\ T \ {c} \in SUBSET S /\ Cardinality(T \ {c}) = Cardinality(T) - 1 /\ Cardinality(T \ {c}) \in Nat
            /\ Cardinality(T) \in Nat
        BY <1>a, <2>1, <3>0, OneLess
      <4>2. /\ T \ {x} \in SUBSET S /\ Cardinality(T \ {x}) = Cardinality(T) - 1 /\ Cardinality(T \ {x}) \in Nat
        BY <1>a, <2>1, OneLess
      <4>3. x \in T \ {c} /\ c \in T \ {x} /\ Cardinality(T \ {c}) <= n /\ Cardinality(T \ {x}) <= n
        BY <2>1, <3>0, <3>3, <4>1, <4>2
      <4>4. g[T \ {c}] = f[x] + g[(T \ {c}) \ {x}] /\ g[T \ {x}] = f[c] + g[(T \ {x}) \ {c}]
        BY <4>1, <4>2, <4>3
      <4>5. (T \ {c}) \ {x} = (T \ {x}) \ {c} /\ (T \ {c}) \ {x} \in SUBSET S
        OBVIOUS
      <4>6. f[x] \in Int /\ f[c] \in Int /\ g[(T \ {c}) \ {x}] \in Int
        BY <1>a, <2>1, <3>0, <4>5
      <4>. DEFINE k == g[(T \ {c}) \ {x}]
      <4>7. g[T] = f[c] + g[T \ {c}] /\ g[T \ {c}] = f[x] + k /\ g[T \ {x}] = f[c] + k
        BY <3>1, <4>4, <4>5
      <4>8. k \in Int
        BY <4>6
      <4>. HIDE DEF k
      <4>. QED
        BY <4>6, <4>7, <4>8
    <3>. QED
      BY <3>2, <3>3
  <2>2. Good(n + 1)
    BY <2>1
  <2>. HIDE DEF Good
  <2>. QED
    BY <2>2
<1>3. Ns = Nat
  <2>. HIDE DEF Good
  <2>. QED BY <1>1, <1>2, AllNumbers
<1>4. Cardinality(S) \in Ns
  BY <1>a, <1>3, FS_CardinalityType
<1>5. Good(Cardinality(S))
  <2>. HIDE DEF Good
  <2>. QED BY <1>4
<1>6. S \in SUBSET S /\ Cardinality(S) <= Cardinality(S)
  BY <1>a, FS_CardinalityType
<1>. QED
  BY <1>5, <1>6

\* The sum over nothing.
LEMMA SumOfNone ==
    ASSUME NEW f, DOMAIN f = {}
    PROVE  SumFunction(f) = 0
<1>1. IntSum(f)
  BY FS_EmptySet DEF IntSum, IntsOn
<1>. QED
  BY <1>1, SumIs DEF Summing

\* A sum of integers is one.
LEMMA SumInt ==
    ASSUME NEW f, IntSum(f)
    PROVE  SumFunction(f) \in Int
<1>1. PICK g \in [SUBSET (DOMAIN f) -> Int] : SumFunction(f) = g[DOMAIN f]
  BY SumIs
<1>. QED
  BY <1>1

Rest(f, x) == [i \in DOMAIN f \ {x} |-> f[i]]

\* A sum is any of its terms and the rest.
LEMMA SumSplit ==
    ASSUME NEW f, IntSum(f), NEW x \in DOMAIN f
    PROVE  IntSum(Rest(f, x)) /\ SumFunction(f) = f[x] + SumFunction(Rest(f, x))
<1>. DEFINE D == DOMAIN f
            E == D \ {x}
            r == Rest(f, x)
<1>1. DOMAIN r = E /\ \A i \in E : f[i] = r[i]
  BY DEF Rest
<1>2. IntSum(r)
  BY <1>1, FS_RemoveElement DEF IntSum, IntsOn
<1>3. PICK g \in [SUBSET D -> Int] : Summing(f, D, g) /\ SumFunction(f) = g[D]
  BY SumIs
<1>6. g[D] = f[x] + g[E]
  <2>1. IntsOn(f, D) /\ x \in D /\ g \in [SUBSET D -> Int] /\ Summing(f, D, g)
    BY <1>3 DEF IntSum
  <2>. HIDE DEF D
  <2>3. g[D] = f[x] + g[D \ {x}]
    BY <2>1, SumRemoves
  <2>. QED BY <2>1, <2>3 DEF E
<1>4. PICK h \in [SUBSET E -> Int] : Summing(r, E, h) /\ SumFunction(r) = h[E]
  <2>. HIDE DEF r
  <2>. QED BY <1>1, <1>2, SumIs
<1>5. g[E] = h[E]
  <2>1. E \in SUBSET D /\ E \in SUBSET E /\ IsFiniteSet(D)
    BY DEF IntSum, IntsOn
  <2>. HIDE DEF D, E, r
  <2>. QED BY <1>1, <1>3, <1>4, <2>1, SumsAgree
<1>. QED
  BY <1>2, <1>3, <1>4, <1>5, <1>6

\* A sum of counts is a count.
LEMMA SumNat ==
    ASSUME NEW f, IsFiniteSet(DOMAIN f), \A i \in DOMAIN f : f[i] \in Nat
    PROVE  SumFunction(f) \in Nat
<1>. DEFINE D == DOMAIN f
            Ch(U) == CHOOSE x \in U : TRUE
            Good(n) == \A e : IsFiniteSet(DOMAIN e) /\ (\A i \in DOMAIN e : e[i] \in Nat) /\ Cardinality(DOMAIN e) = n
                              => SumFunction(e) \in Nat
            Ns == {n \in Nat : Good(n)}
<1>1. 0 \in Ns
  <2>1. ASSUME NEW e, IsFiniteSet(DOMAIN e), Cardinality(DOMAIN e) = 0 PROVE SumFunction(e) \in Nat
    <3>1. DOMAIN e = {}
      BY <2>1, FS_EmptySet
    <3>. QED
      BY <3>1, SumOfNone
  <2>. QED
    BY <2>1
<1>2. ASSUME NEW n \in Ns PROVE n + 1 \in Ns
  <2>1. ASSUME NEW e, IsFiniteSet(DOMAIN e), \A i \in DOMAIN e : e[i] \in Nat, Cardinality(DOMAIN e) = n + 1
        PROVE  SumFunction(e) \in Nat
    <3>1. PICK x \in DOMAIN e : TRUE
      BY <2>1, FS_EmptySet
    <3>. DEFINE r == Rest(e, x)
    <3>2. IntSum(e)
      BY <2>1 DEF IntSum, IntsOn
    <3>3. SumFunction(e) = e[x] + SumFunction(r)
      BY <3>2, SumSplit
    <3>4. DOMAIN r = DOMAIN e \ {x} /\ \A i \in DOMAIN r : r[i] \in Nat
      BY <2>1 DEF Rest
    <3>5. IsFiniteSet(DOMAIN r) /\ Cardinality(DOMAIN r) = n
      <4>1. IsFiniteSet(DOMAIN e \ {x}) /\ Cardinality(DOMAIN e \ {x}) = Cardinality(DOMAIN e) - 1
        BY <2>1, FS_RemoveElement
      <4>. QED
        BY <2>1, <3>4, <4>1
    <3>6. SumFunction(r) \in Nat
      <4>. HIDE DEF r
      <4>. QED BY <3>4, <3>5
    <3>. QED
      BY <2>1, <3>3, <3>6
  <2>2. Good(n + 1)
    BY <2>1
  <2>. HIDE DEF Good
  <2>. QED
    BY <2>2
<1>3. Ns = Nat
  <2>. HIDE DEF Good
  <2>. QED BY <1>1, <1>2, AllNumbers
<1>4. Cardinality(D) \in Ns
  BY <1>3, FS_CardinalityType
<1>. QED
  BY <1>4

\* No part of a sum of counts is above it.
LEMMA SumAbove ==
    ASSUME NEW f, IsFiniteSet(DOMAIN f), \A i \in DOMAIN f : f[i] \in Nat, NEW x \in DOMAIN f
    PROVE  f[x] <= SumFunction(f)
<1>1. IntSum(f) /\ IsFiniteSet(DOMAIN Rest(f, x)) /\ \A i \in DOMAIN Rest(f, x) : Rest(f, x)[i] \in Nat
  BY FS_RemoveElement DEF IntSum, IntsOn, Rest
<1>2. SumFunction(Rest(f, x)) \in Nat /\ SumFunction(f) = f[x] + SumFunction(Rest(f, x))
  BY <1>1, SumNat, SumSplit
<1>. QED
  BY <1>2

\* What a fold that CHOOSE finds returns, once it is known to exist.
LEMMA PowerNat ==
    ASSUME NEW b \in Nat, NEW n \in Int
    PROVE  Power(b, n) \in Nat /\ (n = 0 => Power(b, n) = 1)
<1>. DEFINE f == [k \in 1 .. n |-> b]
            D == DOMAIN f
            Ch(T) == CHOOSE x \in T : TRUE
            step == [p \in D \X Nat |-> b * p[2]]
            Solves(g) == g = [T \in SUBSET D |-> IF T = {} THEN 1 ELSE f[Ch(T)] * g[T \ {Ch(T)}]]
            it == CHOOSE g : Solves(g)
<1>0. D = 1 .. n /\ IsFiniteSet(D) /\ \A k \in D : f[k] = b
  BY FS_Interval
<1>1. step \in [D \X Nat -> Nat] /\ 1 \in Nat
  OBVIOUS
<1>2. PICK g : Folding(D, Nat, step, 1, g)
  <2>. HIDE DEF step, D
  <2>. QED BY <1>0, <1>1, FoldExists
<1>3. \A T \in SUBSET D : T # {} => Ch(T) \in D /\ T \ {Ch(T)} \in SUBSET D
  OBVIOUS
<1>4. g \in [SUBSET D -> Nat] /\ Solves(g)
  <2>1. g \in [SUBSET D -> Nat]
    BY <1>2 DEF Folding
  <2>2. ASSUME NEW T \in SUBSET D PROVE g[T] = IF T = {} THEN 1 ELSE f[Ch(T)] * g[T \ {Ch(T)}]
    <3>1. g[T] = IF T = {} THEN 1 ELSE step[<<Ch(T), g[T \ {Ch(T)}]>>]
      BY <1>2 DEF Folding
    <3>2. CASE T = {}
      BY <3>1, <3>2
    <3>3. CASE T # {}
      <4>1. <<Ch(T), g[T \ {Ch(T)}]>> \in D \X Nat
        BY <1>3, <2>1, <3>3
      <4>2. step[<<Ch(T), g[T \ {Ch(T)}]>>] = b * g[T \ {Ch(T)}]
        <5>. HIDE DEF Ch, D
        <5>. QED BY <4>1
      <4>3. f[Ch(T)] = b
        BY <1>0, <1>3, <3>3
      <4>. QED
        BY <3>1, <3>3, <4>2, <4>3
    <3>. QED
      BY <3>2, <3>3
  <2>. QED
    BY <2>1, <2>2
<1>5. Solves(it)
  <2>. HIDE DEF Solves
  <2>. QED BY <1>4
<1>6. Power(b, n) = it[D]
  BY DEF Power, FoldFunction, FoldFunctionOnSet, MapThenFoldSet
<1>7. it[{}] = 1
  BY <1>5
<1>8. it[D] \in Nat
  <2>1. ASSUME NEW T \in SUBSET D, T # {}, it[T \ {Ch(T)}] \in Nat PROVE it[T] \in Nat
    <3>1. it[T] = f[Ch(T)] * it[T \ {Ch(T)}]
      <4>. HIDE DEF it
      <4>. QED BY <1>5, <2>1
    <3>2. f[Ch(T)] = b
      BY <1>0, <1>3, <2>1
    <3>. HIDE DEF it, Ch, f
    <3>. QED
      BY <2>1, <3>1, <3>2
  <2>2. it[{}] \in Nat
    BY <1>7
  <2>. HIDE DEF it, D
  <2>. QED
    BY <1>0, <2>1, <2>2, FoldStays
<1>9. n = 0 => D = {}
  BY <1>0
<1>. QED
  BY <1>6, <1>7, <1>8, <1>9

\* Factors that overlap multiply to a factor.
LEMMA CombinedNat ==
    ASSUME NEW O, IsFiniteSet(O), \A o \in O : o.factor \in Nat
    PROVE  Combined(O) \in Nat
<1>. DEFINE Ch(T) == CHOOSE x \in T : TRUE
            step == [p \in O \X Nat |-> (p[2] * p[1].factor) \div Full]
            Solves(g) == g = [T \in SUBSET O |->
                                 IF T = {} THEN Full ELSE (g[T \ {Ch(T)}] * Ch(T).factor) \div Full]
            it == CHOOSE g : Solves(g)
<1>0. Full \in Nat /\ Full > 0
  BY DrawAssumption DEF Positive
<1>1. \A v, w \in Nat : (v * w) \div Full \in Nat
  <2>1. \A v \in Nat : v \div Full \in Nat
    BY <1>0
  <2>. QED
    BY <2>1
<1>2. step \in [O \X Nat -> Nat]
  BY <1>1
<1>3. PICK g : Folding(O, Nat, step, Full, g)
  <2>. HIDE DEF step
  <2>. QED BY <1>0, <1>2, FoldExists
<1>4. \A T \in SUBSET O : T # {} => Ch(T) \in O /\ T \ {Ch(T)} \in SUBSET O
  OBVIOUS
<1>5. Solves(g)
  <2>1. g \in [SUBSET O -> Nat]
    BY <1>3 DEF Folding
  <2>2. ASSUME NEW T \in SUBSET O
        PROVE  g[T] = IF T = {} THEN Full ELSE (g[T \ {Ch(T)}] * Ch(T).factor) \div Full
    <3>1. g[T] = IF T = {} THEN Full ELSE step[<<Ch(T), g[T \ {Ch(T)}]>>]
      BY <1>3 DEF Folding
    <3>2. CASE T = {}
      BY <3>1, <3>2
    <3>3. CASE T # {}
      <4>1. <<Ch(T), g[T \ {Ch(T)}]>> \in O \X Nat
        BY <1>4, <2>1, <3>3
      <4>2. step[<<Ch(T), g[T \ {Ch(T)}]>>] = (g[T \ {Ch(T)}] * Ch(T).factor) \div Full
        <5>. HIDE DEF Ch
        <5>. QED BY <4>1
      <4>. QED
        BY <3>1, <3>3, <4>2
    <3>. QED
      BY <3>2, <3>3
  <2>. QED
    BY <2>1, <2>2
<1>6. Solves(it)
  <2>. HIDE DEF Solves
  <2>. QED BY <1>5
<1>7. Combined(O) = it[O]
  BY DEF Combined, FoldSet, MapThenFoldSet
<1>8. it[O] \in Nat
  <2>1. ASSUME NEW T \in SUBSET O, T # {}, it[T \ {Ch(T)}] \in Nat PROVE it[T] \in Nat
    <3>1. it[T] = (it[T \ {Ch(T)}] * Ch(T).factor) \div Full
      <4>. HIDE DEF it
      <4>. QED BY <1>6, <2>1
    <3>2. Ch(T).factor \in Nat
      BY <1>4, <2>1
    <3>. HIDE DEF it, Ch
    <3>. QED
      BY <1>1, <2>1, <3>1, <3>2
  <2>2. it[{}] \in Nat
    <3>1. it[{}] = Full
      <4>. HIDE DEF it
      <4>. QED BY <1>6
    <3>. QED
      BY <1>0, <3>1
  <2>. HIDE DEF it
  <2>. QED
    BY <2>1, <2>2, FoldStays
<1>. QED
  BY <1>7, <1>8

\* The largest of a bounded set of integers is in it.
LEMMA MaxIn ==
    ASSUME NEW S \in SUBSET Int, S # {}, NEW n \in Int, \A s \in S : s <= n
    PROVE  Max(S) \in S /\ \A s \in S : s <= Max(S)
<1>. DEFINE F == {k \in Nat : n - k \in S}
<1>1. F \in SUBSET Nat /\ F # {}
  <2>1. PICK s \in S : TRUE
    OBVIOUS
  <2>2. n - s \in Nat /\ n - (n - s) = s
    OBVIOUS
  <2>. QED
    BY <2>2
<1>2. PICK k \in F : \A j \in F : k <= j
  <2>. HIDE DEF F
  <2>. QED BY <1>1, FirstOf
<1>3. n - k \in S /\ \A s \in S : n - k >= s
  <2>1. ASSUME NEW s \in S PROVE n - k >= s
    <3>1. n - s \in Nat /\ n - (n - s) = s
      OBVIOUS
    <3>2. n - s \in F
      BY <3>1
    <3>3. k <= n - s
      BY <1>2, <3>2
    <3>. QED
      BY <3>3
  <2>. QED
    BY <2>1
<1>4. PICK x \in S : \A s \in S : x >= s
  BY <1>3
<1>5. Max(S) \in S /\ \A s \in S : Max(S) >= s
  BY <1>4 DEF Max
<1>. QED
  BY <1>5

\* The smallest of a bounded set of integers is in it.
LEMMA MinIn ==
    ASSUME NEW S \in SUBSET Int, S # {}, NEW n \in Int, \A s \in S : n <= s
    PROVE  Min(S) \in S /\ \A s \in S : Min(S) <= s
<1>. DEFINE F == {k \in Nat : n + k \in S}
<1>1. F \in SUBSET Nat /\ F # {}
  <2>1. PICK s \in S : TRUE
    OBVIOUS
  <2>2. s - n \in Nat /\ n + (s - n) = s
    OBVIOUS
  <2>. QED
    BY <2>2
<1>2. PICK k \in F : \A j \in F : k <= j
  <2>. HIDE DEF F
  <2>. QED BY <1>1, FirstOf
<1>3. n + k \in S /\ \A s \in S : n + k <= s
  <2>1. ASSUME NEW s \in S PROVE n + k <= s
    <3>1. s - n \in Nat /\ n + (s - n) = s
      OBVIOUS
    <3>2. s - n \in F
      BY <3>1
    <3>3. k <= s - n
      BY <1>2, <3>2
    <3>. QED
      BY <3>3
  <2>. QED
    BY <2>1
<1>4. PICK x \in S : \A s \in S : x =< s
  BY <1>3
<1>5. Min(S) \in S /\ \A s \in S : Min(S) =< s
  BY <1>4 DEF Min
<1>. QED
  BY <1>5

(***************************************************************************)
(* The integral.                                                           *)
(***************************************************************************)
Cut(f, S) == [x \in S |-> f[x]]

\* A restriction may be summed.
LEMMA OnInts ==
    ASSUME NEW f, NEW S, IntsOn(f, S)
    PROVE  IntSum(Cut(f, S)) /\ DOMAIN Cut(f, S) = S /\ \A x \in S : Cut(f, S)[x] = f[x]
  BY DEF IntsOn, IntSum, Cut

\* The sum over one member more.
LEMMA OneMore ==
    ASSUME NEW f, NEW S, IntsOn(f, S), NEW x \in S
    PROVE  SumFunction(Cut(f, S)) = f[x] + SumFunction(Cut(f, S \ {x}))
<1>. DEFINE g == Cut(f, S)
<1>1. IntSum(g) /\ x \in DOMAIN g /\ g[x] = f[x]
  BY OnInts
<1>2. Rest(g, x) = Cut(f, S \ {x})
  BY DEF Rest, Cut
<1>. HIDE DEF g
<1>3. SumFunction(g) = g[x] + SumFunction(Rest(g, x))
  BY <1>1, SumSplit
<1>. QED
  BY <1>1, <1>2, <1>3 DEF g

\* From a on, until b, every second adds c.
Steady(F, from, a, b, c) ==
    (\A t \in from .. b - 1 : F[t] \in Int) /\ (\A t \in a .. b - 1 : F[t] = c)

\* The seconds from a on add c each.
LEMMA Stretch ==
    ASSUME NEW from \in Int, NEW a \in Int, from <= a, NEW b \in Int, a <= b, NEW F, NEW c \in Int,
           Steady(F, from, a, b, c)
    PROVE  SumFunction(Cut(F, from .. b - 1)) = SumFunction(Cut(F, from .. a - 1)) + (b - a) * c
<1>. USE DEF Steady
<1>. DEFINE S(n) == SumFunction(Cut(F, from .. a + n - 1))
            Good(n) == a + n <= b => S(n) = S(0) + n * c
            Ns == {n \in Nat : Good(n)}
<1>1. \A n \in Nat : a + n <= b => S(n) \in Int /\ IntsOn(F, from .. a + n - 1)
  <2>1. ASSUME NEW n \in Nat, a + n <= b PROVE S(n) \in Int /\ IntsOn(F, from .. a + n - 1)
    <3>. DEFINE D == from .. a + n - 1
    <3>1. D \in SUBSET (from .. b - 1) /\ IsFiniteSet(D)
      BY <2>1, FS_Interval
    <3>2. IntsOn(F, D)
      BY <3>1 DEF IntsOn
    <3>. HIDE DEF D
    <3>3. SumFunction(Cut(F, D)) \in Int
      BY <3>2, OnInts, SumInt
    <3>. QED
      BY <3>2, <3>3 DEF D
  <2>. QED
    BY <2>1
<1>2. 0 \in Ns
  <2>1. S(0) \in Int
    BY <1>1
  <2>. HIDE DEF S
  <2>. QED
    BY <2>1
<1>3. ASSUME NEW n \in Ns PROVE n + 1 \in Ns
  <2>1. ASSUME a + (n + 1) <= b PROVE S(n + 1) = S(0) + (n + 1) * c
    <3>1. n \in Nat /\ a + n <= b /\ S(n) = S(0) + n * c
      <4>1. n \in Nat /\ a + n <= b
        BY <2>1
      <4>. HIDE DEF S
      <4>. QED BY <4>1
    <3>. DEFINE D == from .. a + (n + 1) - 1
    <3>2. /\ a + n \in D /\ D \ {a + n} = from .. a + n - 1
          /\ F[a + n] = c
      BY <2>1, <3>1
    <3>3. IntsOn(F, D) /\ S(n) \in Int /\ S(0) \in Int
      <4>1. n + 1 \in Nat /\ 0 \in Nat /\ a + 0 <= b
        BY <3>1
      <4>. HIDE DEF S
      <4>2. \A k \in Nat : a + k <= b => IntsOn(F, from .. a + k - 1)
        BY <1>1
      <4>3. IntsOn(F, from .. a + (n + 1) - 1)
        BY <2>1, <4>1, <4>2
      <4>. QED
        BY <1>1, <3>1, <4>1, <4>3
    <3>. HIDE DEF D
    <3>4. SumFunction(Cut(F, D)) = c + SumFunction(Cut(F, D \ {a + n}))
      BY <3>2, <3>3, OneMore
    <3>5. S(n + 1) = c + S(n)
      BY <3>2, <3>4 DEF D
    <3>. HIDE DEF S
    <3>6. (n + 1) * c = n * c + c /\ n * c \in Int
      BY <3>1
    <3>. QED
      BY <3>1, <3>3, <3>5, <3>6
  <2>. HIDE DEF S
  <2>. QED
    BY <2>1
<1>4. Ns = Nat
  <2>. HIDE DEF Good
  <2>. QED BY <1>2, <1>3, AllNumbers
<1>5. b - a \in Nat /\ a + (b - a) = b /\ a + 0 = a
  OBVIOUS
<1>. DEFINE n == b - a
<1>6. Good(n)
  <2>. HIDE DEF Good, n
  <2>1. n \in Nat
    BY <1>5 DEF n
  <2>. QED BY <1>4, <2>1
<1>7. S(n) = S(0) + n * c
  <2>. HIDE DEF S
  <2>. QED BY <1>5, <1>6
<1>8. S(n) = SumFunction(Cut(F, from .. b - 1)) /\ S(0) = SumFunction(Cut(F, from .. a - 1))
  BY <1>5
<1>. HIDE DEF S
<1>. QED
  BY <1>7, <1>8

\* The pieces into which the points of B cut the time until to.
After(B, to, a) == Min({t \in B \cup {to} : t > a})

\* F is C on each piece.
Stepwise(F, C, B, from, to) ==
    /\ \A t \in from .. to - 1 : F[t] \in Int
    /\ \A a \in B : C[a] \in Int
    /\ \A a \in B : \A t \in a .. After(B, to, a) - 1 : F[t] = C[a]

\* What is constant on each piece adds up, piece by piece, to what it adds up to
\* second by second.
LEMMA Pieces ==
    ASSUME NEW from \in Int, NEW to \in Int, from < to, NEW B \in SUBSET (from .. to - 1), from \in B,
           NEW F, NEW C, Stepwise(F, C, B, from, to)
    PROVE  SumFunction([a \in B |-> (After(B, to, a) - a) * C[a]]) = SumFunction([t \in from .. to - 1 |-> F[t]])
<1>. USE DEF Stepwise
<1>. DEFINE P == [a \in B |-> (After(B, to, a) - a) * C[a]]
            Before(b) == {a \in B : a < b}
            Good(b) == SumFunction(Cut(P, Before(b))) = SumFunction(Cut(F, from .. b - 1))
            Bad == {b \in B \cup {to} : ~Good(b)}
<1>0. /\ IsFiniteSet(B) /\ \A x \in B : x \in Int /\ from <= x /\ x < to
      /\ \A x \in B \cup {to} : x \in Int /\ from <= x /\ x <= to
  <2>1. IsFiniteSet(from .. to - 1)
    BY FS_Interval
  <2>2. IsFiniteSet(B)
    BY <2>1, FS_Subset
  <2>3. \A x \in from .. to - 1 : x \in Int /\ from <= x /\ x < to
    OBVIOUS
  <2>4. \A x \in B : x \in Int /\ from <= x /\ x < to
    BY <2>3
  <2>5. \A x \in B \cup {to} : x \in Int /\ from <= x /\ x <= to
    BY <2>4
  <2>. QED
    BY <2>2, <2>4, <2>5
<1>1. \A a \in B : After(B, to, a) \in B \cup {to} /\ After(B, to, a) > a /\ After(B, to, a) \in Int
  <2>1. ASSUME NEW a \in B PROVE After(B, to, a) \in B \cup {to} /\ After(B, to, a) > a /\ After(B, to, a) \in Int
    <3>. DEFINE S == {t \in B \cup {to} : t > a}
    <3>1. S \in SUBSET Int /\ to \in S /\ \A t \in S : from <= t
      BY <1>0
    <3>. HIDE DEF S
    <3>2. Min(S) \in S
      BY <3>1, MinIn
    <3>3. Min(S) \in Int
      BY <3>1, <3>2
    <3>. QED
      BY <3>2, <3>3 DEF S, After
  <2>. QED
    BY <2>1
<1>2. \A a \in B : P[a] \in Int /\ P[a] = (After(B, to, a) - a) * C[a]
  <2>1. ASSUME NEW a \in B PROVE (After(B, to, a) - a) * C[a] \in Int
    <3>. DEFINE w == After(B, to, a) - a
    <3>1. w \in Int /\ C[a] \in Int
      BY <1>0, <1>1
    <3>. HIDE DEF w
    <3>2. w * C[a] \in Int
      BY <3>1
    <3>. QED BY <3>2 DEF w
  <2>. QED
    BY <2>1
<1>. HIDE DEF P
<1>3. ASSUME NEW b \in B \cup {to}, \A x \in B : x < b => Good(x)
      PROVE  Good(b)
  <2>1. CASE b = from
    <3>1. Before(b) = {} /\ from .. b - 1 = {}
      <4>1. \A a \in B : ~(a < from)
        BY <1>0
      <4>2. Before(from) = {}
        BY <4>1
      <4>3. from .. from - 1 = {}
        OBVIOUS
      <4>. HIDE DEF Before
      <4>. QED BY <2>1, <4>2, <4>3
    <3>2. DOMAIN Cut(P, {}) = {} /\ DOMAIN Cut(F, {}) = {}
      BY DEF Cut
    <3>. HIDE DEF Before
    <3>. QED
      BY <3>1, <3>2, SumOfNone
  <2>2. CASE b # from
    <3>. DEFINE S == Before(b)
    <3>1. b \in Int /\ from < b /\ b <= to
      BY <1>0, <2>2
    <3>2. from \in S /\ S \in SUBSET Int /\ \A x \in S : x <= b
      <4>1. \A x \in S : x \in Int /\ x < b
        BY <1>0
      <4>2. \A x \in S : x <= b
        BY <3>1, <4>1
      <4>3. from \in S
        BY <3>1
      <4>. QED BY <4>1, <4>2, <4>3
    <3>3. Max(S) \in S /\ \A x \in S : x <= Max(S)
      <4>. HIDE DEF S
      <4>. QED BY <3>1, <3>2, MaxIn
    <3>4. PICK a \in S : \A x \in S : x <= a
      BY <3>3
    <3>5. a \in B /\ a < b /\ a \in Int /\ from <= a /\ Good(a)
      BY <1>0, <1>3, <3>2, <3>4
    <3>6. After(B, to, a) = b
      <4>. DEFINE m == After(B, to, a)
                  T == {t \in B \cup {to} : t > a}
      <4>1. \A t \in T : m <= t
        <5>1. T \in SUBSET Int /\ to \in T /\ \A t \in T : from <= t
          BY <1>0, <3>5
        <5>. HIDE DEF T
        <5>2. \A t \in T : Min(T) <= t
          BY <5>1, MinIn
        <5>. QED
          BY <5>2 DEF After, T
      <4>2. b \in T
        BY <3>5
      <4>3. m \in B \cup {to} /\ m > a /\ m \in Int
        BY <1>1, <3>5
      <4>4. m <= b
        BY <4>1, <4>2
      <4>. HIDE DEF m
      <4>5. ASSUME m < b PROVE FALSE
        <5>1. m # to
          BY <3>1, <4>3, <4>5
        <5>2. m \in B
          BY <4>3, <5>1
        <5>3. m \in S
          BY <4>5, <5>2
        <5>4. m <= a
          BY <3>4, <5>3
        <5>. QED
          BY <3>5, <4>3, <5>4
      <4>6. m = b
        BY <3>1, <3>5, <4>3, <4>4, <4>5
      <4>. QED
        BY <4>6 DEF m
    <3>7. S \ {a} = Before(a)
      <4>1. \A x \in B : (x < b /\ x # a) <=> x < a
        <5>1. ASSUME NEW x \in B PROVE (x < b /\ x # a) <=> x < a
          <6>1. x \in Int /\ (x < b => x <= a)
            BY <1>0, <3>4
          <6>. QED
            BY <3>1, <3>5, <6>1
        <5>. QED
          BY <5>1
      <4>. QED
        BY <4>1
    <3>8. IntsOn(P, S) /\ a \in S
      <4>1. S \in SUBSET B
        OBVIOUS
      <4>. QED
        BY <1>0, <1>2, <3>4, <4>1, FS_Subset DEF IntsOn
    <3>9. SumFunction(Cut(P, S)) = P[a] + SumFunction(Cut(P, S \ {a}))
      <4>. HIDE DEF S
      <4>. QED BY <3>8, OneMore
    <3>10. SumFunction(Cut(F, from .. b - 1)) = SumFunction(Cut(F, from .. a - 1)) + (b - a) * C[a]
      <4>1. \A t \in from .. b - 1 : F[t] \in Int
        BY <3>1
      <4>2. \A t \in a .. b - 1 : F[t] = C[a]
        BY <3>5, <3>6
      <4>. QED
        <5>1. C[a] \in Int /\ a <= b
          BY <3>1, <3>5
        <5>2. Steady(F, from, a, b, C[a])
          BY <4>1, <4>2 DEF Steady
        <5>3. from \in Int /\ a \in Int /\ b \in Int /\ from <= a
          BY <3>1, <3>5
        <5>. HIDE DEF S
        <5>. QED
          BY <5>1, <5>2, <5>3, Stretch
    <3>11. P[a] = (b - a) * C[a] /\ P[a] \in Int
      BY <1>2, <3>5, <3>6
    <3>12. SumFunction(Cut(F, from .. a - 1)) \in Int
      <4>. DEFINE D == from .. a - 1
      <4>1. IntsOn(F, D)
        BY <3>1, <3>5, FS_Interval DEF IntsOn
      <4>. HIDE DEF D
      <4>2. SumFunction(Cut(F, D)) \in Int
        BY <4>1, OnInts, SumInt
      <4>. QED BY <4>2 DEF D
    <3>13. SumFunction(Cut(P, S \ {a})) = SumFunction(Cut(F, from .. a - 1))
      BY <3>5, <3>7
    <3>. HIDE DEF S
    <3>14. SumFunction(Cut(P, S)) = SumFunction(Cut(F, from .. b - 1))
      BY <3>9, <3>10, <3>11, <3>12, <3>13
    <3>. QED
      BY <3>14 DEF S
  <2>. QED
    BY <2>1, <2>2
<1>4. Bad = {}
  <2>. SUFFICES ASSUME Bad # {} PROVE FALSE
    OBVIOUS
  <2>1. Bad \in SUBSET Int /\ \A x \in Bad : from <= x
    BY <1>0
  <2>2. Min(Bad) \in Bad /\ \A x \in Bad : Min(Bad) <= x
    <3>. HIDE DEF Bad
    <3>. QED BY <2>1, MinIn
  <2>3. PICK b \in Bad : \A x \in Bad : b <= x
    BY <2>2
  <2>4. \A x \in B : x < b => Good(x)
    <3>. HIDE DEF Good
    <3>. QED BY <1>0, <2>1, <2>3
  <2>5. b \in B \cup {to} /\ ~Good(b)
    BY <2>3
  <2>. HIDE DEF Good
  <2>. QED
    BY <1>3, <2>4, <2>5
<1>5. Good(to)
  <2>. HIDE DEF Good
  <2>. QED BY <1>4
<1>6. Before(to) = B /\ Cut(P, B) = [a \in B |-> (After(B, to, a) - a) * C[a]]
  <2>1. Before(to) = B
    BY <1>0
  <2>. QED
    BY <2>1 DEF Cut, P
<1>7. Cut(F, from .. to - 1) = [t \in from .. to - 1 |-> F[t]]
  BY DEF Cut
<1>. QED
  BY <1>5, <1>6, <1>7

\* The outages that cover a second, and what they leave of each second.
Covering(O, lane, i, t) == {o \in O : ScopeCovers(o.scope, lane, i) /\ o.startAt <= t /\ t < o.endAt}
PerSecond(O, lane, i, from, to) ==
    SumFunction([t \in from .. to - 1 |-> Combined(Covering(O, lane, i, t))])

\* An outage covers a second of a piece with no boundary strictly inside it if,
\* and only if, it covers its middle.
LEMMA MiddleOrAll ==
    ASSUME NEW a \in Int, NEW n \in Int, a < n, NEW t \in a .. n - 1,
           NEW s \in Int, NEW e \in Int, ~(a < s /\ s < n), ~(a < e /\ e < n)
    PROVE  (s <= t /\ t < e) <=> (2 * s <= a + n /\ a + n < 2 * e)
  OBVIOUS

\* The closed form of the integral, sampled in the middle of each piece, is the
\* sum over the seconds (weightedFactor), for any outages that overlap in any way.
THEOREM Integral ==
    ASSUME NEW O, IsFiniteSet(O),
           \A o \in O : o.factor \in Nat /\ o.startAt \in Int /\ o.endAt \in Int,
           NEW lane, NEW i, NEW from \in Int, NEW to \in Int, from < to
    PROVE  WeightedFactor(O, lane, i, from, to) = PerSecond(O, lane, i, from, to)
<1>. DEFINE relevant == {o \in O : ScopeCovers(o.scope, lane, i) /\ o.endAt > from /\ o.startAt < to}
            inside == {t \in UNION {{o.startAt, o.endAt} : o \in relevant} : from < t /\ t < to}
            B == inside \cup {from}
            Ahead(a) == {t \in inside \cup {to} : t > a}
            Over2(a) == {o \in relevant : 2 * o.startAt <= a + Min(Ahead(a)) /\ a + Min(Ahead(a)) < 2 * o.endAt}
            F == [t \in from .. to - 1 |-> Combined(Covering(O, lane, i, t))]
            C == [a \in B |-> Combined(Over2(a))]
            f == [a \in B |-> (Min(Ahead(a)) - a) * Combined(Over2(a))]
<1>1. WeightedFactor(O, lane, i, from, to) = SumFunction(f)
  BY DEF WeightedFactor
<1>2. \A o \in O : o.factor \in Nat /\ o.startAt \in Int /\ o.endAt \in Int
  OBVIOUS
<1>3. B \in SUBSET (from .. to - 1) /\ from \in B /\ \A a \in B : a \in Int /\ from <= a /\ a < to
  BY <1>2
<1>4. \A T \in SUBSET O : Combined(T) \in Nat
  <2>1. ASSUME NEW T \in SUBSET O PROVE Combined(T) \in Nat
    <3>1. IsFiniteSet(T) /\ \A o \in T : o.factor \in Nat
      BY <1>2, FS_Subset
    <3>. QED BY <3>1, CombinedNat
  <2>. QED BY <2>1
<1>5. ASSUME NEW a \in B
      PROVE  /\ After(B, to, a) = Min(Ahead(a)) /\ Min(Ahead(a)) \in Int /\ a < Min(Ahead(a)) /\ Min(Ahead(a)) <= to
             /\ \A x \in inside : a < x => Min(Ahead(a)) <= x
  <2>. DEFINE S == Ahead(a)
  <2>1. {t \in B \cup {to} : t > a} = S
    BY <1>3
  <2>2. S \in SUBSET Int /\ to \in S /\ \A t \in S : a < t /\ a <= t
    BY <1>3
  <2>3. \A x \in inside : a < x => x \in S
    OBVIOUS
  <2>. HIDE DEF S
  <2>4. Min(S) \in S /\ \A x \in S : Min(S) <= x
    BY <1>3, <2>2, MinIn
  <2>5. After(B, to, a) = Min(S)
    BY <2>1 DEF After
  <2>6. Min(S) \in Int /\ a < Min(S) /\ Min(S) <= to /\ \A x \in inside : a < x => Min(S) <= x
    BY <2>2, <2>3, <2>4
  <2>. QED
    BY <2>5, <2>6 DEF S
<1>6. ASSUME NEW a \in B, NEW t \in a .. After(B, to, a) - 1
      PROVE  Covering(O, lane, i, t) = Over2(a)
  <2>. DEFINE n == Min(Ahead(a))
  <2>1. a \in Int /\ n \in Int /\ t \in a .. n - 1 /\ from <= a /\ a < n /\ n <= to
    BY <1>3, <1>5
  <2>2. \A x \in inside : a < x => n <= x
    BY <1>5
  <2>. HIDE DEF n
  <2>3. ASSUME NEW o \in relevant
        PROVE  (o.startAt <= t /\ t < o.endAt) <=> (2 * o.startAt <= a + n /\ a + n < 2 * o.endAt)
    <3>1. o.startAt \in Int /\ o.endAt \in Int
      BY <1>2
    <3>2. ASSUME NEW x \in {o.startAt, o.endAt}, a < x, x < n PROVE FALSE
      <4>1. x \in inside
        BY <2>1, <3>1, <3>2
      <4>. QED BY <2>1, <2>2, <3>1, <3>2, <4>1
    <3>3. ~(a < o.startAt /\ o.startAt < n) /\ ~(a < o.endAt /\ o.endAt < n)
      BY <3>2
    <3>. HIDE DEF relevant, inside, B, Ahead
    <3>. QED
      BY <2>1, <3>1, <3>3, MiddleOrAll
  <2>4. \A o \in O : ScopeCovers(o.scope, lane, i) /\ o.startAt <= t /\ t < o.endAt => o \in relevant
    <3>1. t \in Int /\ from <= t /\ t < to
      BY <2>1
    <3>. QED BY <1>2, <3>1
  <2>5. \A o \in relevant : o \in O /\ ScopeCovers(o.scope, lane, i)
    OBVIOUS
  <2>6. Over2(a) = {o \in relevant : 2 * o.startAt <= a + n /\ a + n < 2 * o.endAt}
    BY DEF n
  <2>. HIDE DEF relevant, Over2
  <2>. QED
    BY <2>3, <2>4, <2>5, <2>6 DEF Covering
<1>7. \A a \in B : Over2(a) \in SUBSET O
  OBVIOUS
<1>8. \A a \in B : C[a] \in Int /\ C[a] = Combined(Over2(a))
  <2>. HIDE DEF Over2, B
  <2>. QED BY <1>4, <1>7
<1>9. \A t \in from .. to - 1 : F[t] \in Int
  <2>1. \A t : Covering(O, lane, i, t) \in SUBSET O
    BY DEF Covering
  <2>. QED BY <1>4, <2>1
<1>10. \A a \in B : \A t \in a .. After(B, to, a) - 1 : F[t] = C[a]
  <2>1. ASSUME NEW a \in B, NEW t \in a .. After(B, to, a) - 1 PROVE F[t] = C[a]
    <3>. DEFINE n == After(B, to, a)
    <3>0. a \in Int /\ from <= a /\ n \in Int /\ n <= to /\ t \in a .. n - 1
      BY <1>3, <1>5
    <3>. HIDE DEF n
    <3>1. t \in from .. to - 1
      BY <3>0
    <3>2. F[t] = Combined(Covering(O, lane, i, t))
      BY <3>1
    <3>. HIDE DEF F, C, B, Over2
    <3>. QED
      BY <1>6, <1>8, <3>2
  <2>. HIDE DEF F, C, B
  <2>. QED BY <2>1
<1>11. f = [a \in B |-> (After(B, to, a) - a) * C[a]]
  <2>1. \A a \in B : (Min(Ahead(a)) - a) * Combined(Over2(a)) = (After(B, to, a) - a) * C[a]
    <3>1. \A a \in B : Min(Ahead(a)) = After(B, to, a) /\ Combined(Over2(a)) = C[a]
      BY <1>5, <1>8
    <3>. HIDE DEF B, Ahead, Over2, C
    <3>. QED BY <3>1
  <2>. HIDE DEF B, Ahead, Over2, C
  <2>. QED BY <2>1
<1>12. F = [t \in from .. to - 1 |-> F[t]]
  OBVIOUS
<1>13. SumFunction(f) = SumFunction(F)
  <2>. HIDE DEF f, F, C, B
  <2>1. Stepwise(F, C, B, from, to)
    BY <1>8, <1>9, <1>10 DEF Stepwise
  <2>2. B \in SUBSET (from .. to - 1) /\ from \in B
    BY <1>3
  <2>. HIDE DEF relevant, inside, Ahead, Over2
  <2>3. SumFunction([a \in B |-> (After(B, to, a) - a) * C[a]])
          = SumFunction([t \in from .. to - 1 |-> F[t]])
    BY <2>1, <2>2, Pieces
  <2>. QED
    BY <1>11, <1>12, <2>3
<1>. QED
  BY <1>1, <1>13 DEF PerSecond

-----------------------------------------------------------------------------
(***************************************************************************)
(* Prices under a config this service accepts: its schema keeps durations  *)
(* above zero, and floors and multipliers from going below it.             *)
(***************************************************************************)

\* A supply costs at least the floor, whatever the player's output.
THEOREM SupplyFloor ==
    ASSUME NEW seconds \in Nat, NEW floor \in Nat, NEW rate \in Nat
    PROVE  SupplyPrice(seconds, floor, rate) \in Nat /\ SupplyPrice(seconds, floor, rate) >= floor
BY DEF SupplyPrice

\* With equal denominators the numerators decide.
LEMMA ScaledProducts ==
    ASSUME NEW x \in Nat, NEW d \in Nat, NEW t \in Nat, NEW r \in Nat
    PROVE  (x * (t + r)) * d >= x * (d * t)
<1>1. x * d \in Nat /\ (x * d) * r >= 0
  BY SMT
<1>2. (x * (t + r)) * d = (x * d) * t + (x * d) * r /\ x * (d * t) = (x * d) * t
  BY SMT
<1>. QED
  BY <1>1, <1>2

LEMMA StrictProducts ==
    ASSUME NEW k \in Nat \ {0}, NEW m \in Nat, NEW n \in Nat \ {0}, n >= m,
           NEW t \in Nat, NEW r \in Nat \ {0}
    PROVE  k * (m * t) < k * (n * (t + r))
<1>1. m * t <= n * t /\ n * t \in Nat /\ m * t \in Nat
  BY SMT
<1>2. n * (t + r) = n * t + n * r /\ n * r > 0 /\ n * r \in Nat
  BY SMT
<1>3. m * t < n * (t + r) /\ n * (t + r) \in Nat
  BY <1>1, <1>2
<1>4. ASSUME NEW a \in Nat, NEW b \in Nat, a < b PROVE k * a < k * b
  BY <1>4, SMT
<1>. QED
  BY <1>1, <1>3, <1>4

\* A cure costs the multiplier times the supply or more, at every output, every
\* remaining duration and every multiplier, the default 2.5 included; and while
\* there is something left to cure it costs more than the supply would have, under
\* every multiplier the schema lets in (configSchema.js:245, from 1).
THEOREM CureDearerThanSupply ==
    ASSUME NEW price \in Ratios, NEW multiplier \in Ratios,
           NEW total \in Nat \ {0}, NEW remaining \in 0 .. total
    PROVE  LET cost == CureCost(price, multiplier, remaining, total) IN
           /\ cost \in Ratios
           /\ AtLeast(cost, Times(price, multiplier))
           /\ price.num > 0 /\ remaining > 0 /\ AtLeast(multiplier, [num |-> 1, den |-> 1])
              => ~ AtLeast(price, cost)
<1>. DEFINE cost == CureCost(price, multiplier, remaining, total)
            x == price.num * multiplier.num
            d == price.den * multiplier.den
<1>1. /\ price.num \in Nat /\ price.den \in Nat \ {0}
      /\ multiplier.num \in Nat /\ multiplier.den \in Nat \ {0}
  BY DEF Ratios
<1>2. x \in Nat /\ d \in Nat \ {0}
  BY <1>1, SMT
<1>3. /\ Times(price, multiplier) = [num |-> x, den |-> d]
      /\ cost = [num |-> x * (total + remaining), den |-> d * total]
  BY DEF CureCost, Times
<1>4. cost \in Ratios
  <2>. HIDE DEF x, d, cost
  <2>1. x * (total + remaining) \in Nat /\ d * total \in Nat \ {0}
    BY <1>2, SMT
  <2>. QED
    BY <1>3, <2>1 DEF Ratios
<1>5. AtLeast(cost, Times(price, multiplier))
  <2>. HIDE DEF x, d, cost
  <2>1. (x * (total + remaining)) * d >= x * (d * total)
    BY <1>2, ScaledProducts
  <2>. QED
    BY <1>3, <2>1 DEF AtLeast
<1>6. ASSUME price.num > 0, remaining > 0, AtLeast(multiplier, [num |-> 1, den |-> 1])
      PROVE  ~ AtLeast(price, cost)
  <2>1. multiplier.num >= multiplier.den
    BY <1>1, <1>6 DEF AtLeast
  <2>2. PICK p, q, m, n : p = price.num /\ q = price.den /\ m = multiplier.den /\ n = multiplier.num
    OBVIOUS
  <2>3. p \in Nat \ {0} /\ q \in Nat \ {0} /\ m \in Nat \ {0} /\ n \in Nat \ {0} /\ n >= m
    BY <1>1, <1>6, <2>1, <2>2
  <2>4. x = p * n /\ d = q * m
    BY <2>2
  <2>. HIDE DEF x, d, cost
  <2>5. p * q \in Nat \ {0}
    BY <2>3, SMT
  <2>6. (p * q) * (m * total) < (p * q) * (n * (total + remaining))
    BY <1>6, <2>3, <2>5, StrictProducts
  <2>7. p * ((q * m) * total) = (p * q) * (m * total)
    BY <2>3, SMT
  <2>8. ((p * n) * (total + remaining)) * q = (p * q) * (n * (total + remaining))
    BY <2>3, SMT
  <2>. QED
    BY <1>3, <2>2, <2>3, <2>4, <2>6, <2>7, <2>8 DEF AtLeast
<1>. QED
  BY <1>4, <1>5, <1>6
================================================================================
