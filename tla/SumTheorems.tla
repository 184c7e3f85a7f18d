---------------------------- MODULE SumTheorems ----------------------------
(****************************************************************************)
(* What the proofs about coins, stakes and votes need to know of sums:      *)
(* SumFunctionOnSet(f, S) of the community modules adds up f[x] for the x   *)
(* of S, taking off one chosen element at a time.  And what those about     *)
(* loops need to know of functions of the turn.                             *)
(****************************************************************************)
EXTENDS Integers, Functions, FiniteSetTheorems, WellFoundedInduction, TLAPS

\* The recursive function that the definition of a sum chooses.
Pick(s) == CHOOSE x \in s : TRUE
SumStep(f, g, s) == IF s = {} THEN 0 ELSE f[Pick(s)] + g[s \ {Pick(s)}]
AddsUp(f, S, g) == g = [s \in SUBSET S |-> SumStep(f, g, s)]
IterOf(f, S) == CHOOSE g : AddsUp(f, S, g)

LEMMA SumIsIter == ASSUME NEW f, NEW S PROVE SumFunctionOnSet(f, S) = IterOf(f, S)[S]
BY DEF SumFunctionOnSet, FoldFunctionOnSet, MapThenFoldSet,
       IterOf, AddsUp, SumStep, Pick

\* Induction over the naturals, as a least element.
LEMMA LeastNatural ==
  ASSUME NEW T, T \subseteq Nat, T # {}
  PROVE  \E x \in T : \A y \in T : x <= y
<1> DEFINE R == OpToRel(<, Nat)
<1>1. PICK x \in T : \A y \in T : ~ (<<y, x>> \in R)
  <2>1. IsWellFoundedOn(R, Nat)
    BY NatLessThanWellFounded
  <2> HIDE DEF R
  <2>. QED BY <2>1, WFMin
<1>2. \A y \in T : ~(y < x)
  BY <1>1 DEF OpToRel
<1>. QED BY <1>2, SMT

\* Induction over the subsets of a finite set, as a smallest one.
LEMMA SmallestSubset ==
  ASSUME NEW S, IsFiniteSet(S), NEW B, B \subseteq SUBSET S, B # {}
  PROVE  \E s \in B : \A t \in B : Cardinality(s) <= Cardinality(t)
<1> DEFINE T == {Cardinality(s) : s \in B}
<1>1. \A s \in B : Cardinality(s) \in Nat
  BY FS_Subset, FS_CardinalityType
<1>2. T \subseteq Nat /\ T # {}
  BY <1>1
<1> HIDE DEF T
<1>3. PICK n \in T : \A m \in T : n <= m
  BY <1>2, LeastNatural
<1>. QED BY <1>3 DEF T

LEMMA SmallerSubset ==
  ASSUME NEW S, IsFiniteSet(S), NEW s \in SUBSET S, NEW x \in s
  PROVE  /\ IsFiniteSet(s) /\ s \ {x} \in SUBSET S /\ IsFiniteSet(s \ {x})
         /\ Cardinality(s) \in Nat /\ Cardinality(s \ {x}) \in Nat
         /\ Cardinality(s \ {x}) = Cardinality(s) - 1
<1>1. IsFiniteSet(s)
  BY FS_Subset
<1>. QED BY <1>1, FS_RemoveElement, FS_CardinalityType

\* A nonempty set of subsets has one that leaves it whatever element is taken off.
LEMMA MinimalSubset ==
  ASSUME NEW S, IsFiniteSet(S), NEW B, B \subseteq SUBSET S, B # {}
  PROVE  \E s \in B : /\ IsFiniteSet(s) /\ s \subseteq S
                      /\ \A x \in s : s \ {x} \in (SUBSET S) \ B /\ IsFiniteSet(s \ {x})
<1>1. PICK s \in B : \A t \in B : Cardinality(s) <= Cardinality(t)
  BY SmallestSubset
<1>2. s \in SUBSET S /\ IsFiniteSet(s)
  BY FS_Subset
<1>3. ASSUME NEW x \in s PROVE s \ {x} \in (SUBSET S) \ B /\ IsFiniteSet(s \ {x})
  <2>1. /\ s \ {x} \in SUBSET S /\ IsFiniteSet(s \ {x})
        /\ Cardinality(s) \in Nat /\ Cardinality(s \ {x}) \in Nat
        /\ Cardinality(s \ {x}) = Cardinality(s) - 1
    BY <1>2, SmallerSubset
  <2>2. ~(Cardinality(s) <= Cardinality(s \ {x}))
    BY <2>1, SMT
  <2>. QED BY <2>1, <2>2, <1>1
<1>. QED BY <1>2, <1>3

LEMMA PickIn == ASSUME NEW s, s # {} PROVE Pick(s) \in s
BY DEF Pick

LEMMA IterExists ==
  ASSUME NEW f, NEW S, IsFiniteSet(S)
  PROVE  AddsUp(f, S, IterOf(f, S))
<1> DEFINE Low(k) == {s \in SUBSET S : Cardinality(s) <= k}
           Fits(k, h) == h = [s \in Low(k) |-> SumStep(f, h, s)]
           Bad == {k \in Nat : ~ \E h : Fits(k, h)}
<1>1. \A s \in SUBSET S : IsFiniteSet(s) /\ Cardinality(s) \in Nat
  BY FS_Subset, FS_CardinalityType
<1>2. Bad = {}
  <2> SUFFICES ASSUME Bad # {} PROVE FALSE
    OBVIOUS
  <2>1. PICK k \in Bad : \A m \in Bad : k <= m
    <3>1. Bad \subseteq Nat
      OBVIOUS
    <3> HIDE DEF Bad
    <3>. QED BY <3>1, LeastNatural
  <2>2. CASE k = 0
    <3> DEFINE h == [s \in Low(0) |-> 0]
    <3>1. \A s \in Low(0) : s = {}
      BY <1>1, FS_EmptySet
    <3>2. Fits(0, h)
      BY <3>1 DEF SumStep
    <3>. QED BY <2>2, <3>2
  <2>3. CASE k # 0
    <3>1. k - 1 \in Nat /\ ~(k <= k - 1)
      BY <2>3, SMT
    <3>2. PICK g : Fits(k - 1, g)
      BY <2>1, <3>1
    <3> DEFINE h == [s \in Low(k) |-> SumStep(f, g, s)]
    <3>3. ASSUME NEW s \in Low(k) PROVE SumStep(f, g, s) = SumStep(f, h, s)
      <4>1. CASE s = {}
        BY <4>1 DEF SumStep
      <4>2. CASE s # {}
        <5> DEFINE t == s \ {Pick(s)}
        <5>1. Cardinality(t) = Cardinality(s) - 1 /\ t \in SUBSET S
          BY <4>2, PickIn, SmallerSubset
        <5>2. t \in Low(k - 1) /\ t \in Low(k)
          BY <5>1, <1>1, SMT
        <5>3. g[t] = h[t]
          BY <5>2, <3>2
        <5>. QED BY <5>3 DEF SumStep
      <4>. QED BY <4>1, <4>2
    <3>4. Fits(k, h)
      BY <3>3
    <3>. QED BY <3>4
  <2>. QED BY <2>2, <2>3
<1>3. Cardinality(S) \in Nat /\ Low(Cardinality(S)) = SUBSET S
  BY FS_Subset, FS_CardinalityType
<1>4. \E h : Fits(Cardinality(S), h)
  BY <1>2, <1>3
<1> HIDE DEF Low
<1>5. \E h : AddsUp(f, S, h)
  BY <1>3, <1>4 DEF AddsUp
<1>. QED BY <1>5 DEF IterOf

LEMMA IterAgrees ==
  ASSUME NEW f, NEW S, IsFiniteSet(S), NEW T \in SUBSET S
  PROVE  IterOf(f, S)[T] = IterOf(f, T)[T]
<1> DEFINE g == IterOf(f, S)
           h == IterOf(f, T)
           B == {s \in SUBSET T : g[s] # h[s]}
<1>1. IsFiniteSet(T)
  BY FS_Subset
<1>2. AddsUp(f, S, g) /\ AddsUp(f, T, h)
  BY <1>1, IterExists
<1>3. B = {}
  <2> SUFFICES ASSUME B # {} PROVE FALSE
    OBVIOUS
  <2>1. PICK s \in B : \A t \in B : Cardinality(s) <= Cardinality(t)
    BY <1>1, SmallestSubset
  <2>a. s \in SUBSET T /\ g[s] # h[s] /\ s \in SUBSET S
    OBVIOUS
  <2> HIDE DEF g, h
  <2>2. g[s] = SumStep(f, g, s) /\ h[s] = SumStep(f, h, s)
    BY <1>2, <2>a DEF AddsUp
  <2>3. s # {}
    BY <2>2, <2>a DEF SumStep
  <2> DEFINE t == s \ {Pick(s)}
  <2>4. t \in SUBSET T /\ Cardinality(t) \in Nat /\ Cardinality(s) \in Nat
        /\ Cardinality(t) = Cardinality(s) - 1
    BY <2>3, <2>a, <1>1, PickIn, SmallerSubset
  <2>5. g[t] = h[t]
    BY <2>4, <2>1, SMT
  <2>. QED BY <2>5, <2>2, <2>a, <2>3 DEF SumStep
<1>. QED BY <1>3

\* The two equations of a sum.
LEMMA SumEmpty == ASSUME NEW f PROVE SumFunctionOnSet(f, {}) = 0
<1>1. AddsUp(f, {}, IterOf(f, {}))
  BY FS_EmptySet, IterExists
<1> DEFINE g == IterOf(f, {})
<1> HIDE DEF g
<1>2. g[{}] = SumStep(f, g, {})
  BY <1>1 DEF AddsUp, g
<1>. QED BY <1>2, SumIsIter DEF SumStep, g

LEMMA SumPick ==
  ASSUME NEW f, NEW S, IsFiniteSet(S), S # {}
  PROVE  SumFunctionOnSet(f, S) = f[Pick(S)] + SumFunctionOnSet(f, S \ {Pick(S)})
<1> DEFINE g == IterOf(f, S)
           T == S \ {Pick(S)}
<1>1. AddsUp(f, S, g)
  BY IterExists
<1>2. g[T] = SumFunctionOnSet(f, T)
  BY IterAgrees, SumIsIter
<1>3. g[S] = SumFunctionOnSet(f, S)
  BY SumIsIter
<1> HIDE DEF g
<1>4. g[S] = SumStep(f, g, S)
  BY <1>1 DEF AddsUp
<1>. QED BY <1>2, <1>3, <1>4 DEF SumStep

\* A sum of integers is an integer, one of naturals a natural.
LEMMA SumType ==
  ASSUME NEW f, NEW S, IsFiniteSet(S), \A x \in S : f[x] \in Int
  PROVE  SumFunctionOnSet(f, S) \in Int
<1> DEFINE B == {s \in SUBSET S : SumFunctionOnSet(f, s) \notin Int}
<1> SUFFICES ASSUME B # {} PROVE FALSE
  OBVIOUS
<1>0. B \subseteq SUBSET S
  OBVIOUS
<1>1. PICK s \in B : /\ IsFiniteSet(s) /\ s \subseteq S
                      /\ \A x \in s : s \ {x} \in (SUBSET S) \ B /\ IsFiniteSet(s \ {x})
  <2> HIDE DEF B
  <2>. QED BY <1>0, MinimalSubset
<1>2. s # {}
  BY SumEmpty
<1> DEFINE t == s \ {Pick(s)}
<1>3. Pick(s) \in s /\ t \in (SUBSET S) \ B /\ IsFiniteSet(s)
  BY <1>1, <1>2, PickIn
<1>4. SumFunctionOnSet(f, t) \in Int
  BY <1>3
<1>5. f[Pick(s)] \in Int
  BY <1>3
<1>6. SumFunctionOnSet(f, s) = f[Pick(s)] + SumFunctionOnSet(f, t)
  BY <1>2, <1>3, SumPick
<1> HIDE DEF t
<1>7. SumFunctionOnSet(f, s) \in Int
  BY <1>4, <1>5, <1>6
<1>. QED BY <1>7

LEMMA SumNat ==
  ASSUME NEW f, NEW S, IsFiniteSet(S), \A x \in S : f[x] \in Nat
  PROVE  SumFunctionOnSet(f, S) \in Nat
<1> DEFINE B == {s \in SUBSET S : SumFunctionOnSet(f, s) \notin Nat}
<1> SUFFICES ASSUME B # {} PROVE FALSE
  OBVIOUS
<1>0. B \subseteq SUBSET S
  OBVIOUS
<1>1. PICK s \in B : /\ IsFiniteSet(s) /\ s \subseteq S
                      /\ \A x \in s : s \ {x} \in (SUBSET S) \ B /\ IsFiniteSet(s \ {x})
  <2> HIDE DEF B
  <2>. QED BY <1>0, MinimalSubset
<1>2. s # {}
  BY SumEmpty
<1> DEFINE t == s \ {Pick(s)}
<1>3. Pick(s) \in s /\ t \in (SUBSET S) \ B /\ IsFiniteSet(s)
  BY <1>1, <1>2, PickIn
<1>4. SumFunctionOnSet(f, t) \in Nat
  BY <1>3
<1>5. f[Pick(s)] \in Nat
  BY <1>3
<1>6. SumFunctionOnSet(f, s) = f[Pick(s)] + SumFunctionOnSet(f, t)
  BY <1>2, <1>3, SumPick
<1> HIDE DEF t
<1>7. SumFunctionOnSet(f, s) \in Nat
  BY <1>4, <1>5, <1>6
<1>. QED BY <1>7

\* Any element may be taken off first.
LEMMA SumRemove ==
  ASSUME NEW f, NEW S, IsFiniteSet(S), \A x \in S : f[x] \in Int, NEW x \in S
  PROVE  SumFunctionOnSet(f, S) = f[x] + SumFunctionOnSet(f, S \ {x})
<1> DEFINE Ok(s) == \A y \in s : SumFunctionOnSet(f, s) = f[y] + SumFunctionOnSet(f, s \ {y})
           B == {s \in SUBSET S : ~Ok(s)}
<1> SUFFICES ASSUME B # {} PROVE FALSE
  OBVIOUS
<1>0. B \subseteq SUBSET S
  OBVIOUS
<1>1. PICK s \in B : /\ IsFiniteSet(s) /\ s \subseteq S
                      /\ \A y \in s : s \ {y} \in (SUBSET S) \ B /\ IsFiniteSet(s \ {y})
  <2> HIDE DEF B
  <2>. QED BY <1>0, MinimalSubset
<1>2. PICK y \in s : SumFunctionOnSet(f, s) # f[y] + SumFunctionOnSet(f, s \ {y})
  OBVIOUS
<1>a. s \in SUBSET S
  OBVIOUS
<1>b. \A z \in s : Ok(s \ {z})
  BY <1>1
<1> HIDE DEF B
<1> DEFINE p == Pick(s)
<1>3. p \in s
  BY PickIn
<1> HIDE DEF p
<1>c. IsFiniteSet(s)
  BY <1>1
<1>4. SumFunctionOnSet(f, s) = f[p] + SumFunctionOnSet(f, s \ {p})
  BY <1>c, SumPick DEF p
<1>5. p # y
  BY <1>2, <1>4
<1>7. Ok(s \ {p}) /\ Ok(s \ {y})
  BY <1>3, <1>b
<1>8. SumFunctionOnSet(f, s \ {p}) = f[y] + SumFunctionOnSet(f, (s \ {p}) \ {y})
  BY <1>7, <1>5
<1>9. SumFunctionOnSet(f, s \ {y}) = f[p] + SumFunctionOnSet(f, (s \ {y}) \ {p})
  BY <1>7, <1>5, <1>3
<1>10. (s \ {p}) \ {y} = (s \ {y}) \ {p}
  OBVIOUS
<1>11. SumFunctionOnSet(f, (s \ {y}) \ {p}) \in Int /\ f[y] \in Int /\ f[p] \in Int
  <2>1. (s \ {y}) \ {p} \in SUBSET S
    BY <1>a
  <2>2. IsFiniteSet((s \ {y}) \ {p})
    BY <2>1, FS_Subset
  <2>3. \A z \in (s \ {y}) \ {p} : f[z] \in Int
    BY <2>1
  <2>. QED BY <2>2, <2>3, SumType, <1>3, <1>a
<1> DEFINE u == SumFunctionOnSet(f, (s \ {y}) \ {p})
           v == SumFunctionOnSet(f, s \ {y})
           w == SumFunctionOnSet(f, s \ {p})
<1>12. w = f[y] + u /\ v = f[p] + u /\ u \in Int /\ SumFunctionOnSet(f, s) = f[p] + w
  BY <1>4, <1>8, <1>9, <1>10, <1>11
<1> HIDE DEF u, v, w
<1>13. SumFunctionOnSet(f, s) = f[y] + v
  BY <1>12, <1>11
<1>. QED BY <1>13, <1>2 DEF v

\* A sum is of the values on its set alone.
LEMMA SumSame ==
  ASSUME NEW f, NEW g, NEW S, IsFiniteSet(S), \A x \in S : f[x] = g[x]
  PROVE  SumFunctionOnSet(f, S) = SumFunctionOnSet(g, S)
<1> DEFINE B == {s \in SUBSET S : SumFunctionOnSet(f, s) # SumFunctionOnSet(g, s)}
<1> SUFFICES ASSUME B # {} PROVE FALSE
  OBVIOUS
<1>0. B \subseteq SUBSET S
  OBVIOUS
<1>1. PICK s \in B : /\ IsFiniteSet(s) /\ s \subseteq S
                      /\ \A x \in s : s \ {x} \in (SUBSET S) \ B /\ IsFiniteSet(s \ {x})
  <2> HIDE DEF B
  <2>. QED BY <1>0, MinimalSubset
<1>2. s # {}
  BY SumEmpty
<1> DEFINE t == s \ {Pick(s)}
<1>3. Pick(s) \in s /\ t \in (SUBSET S) \ B /\ IsFiniteSet(s)
  BY <1>1, <1>2, PickIn
<1>4. SumFunctionOnSet(f, t) = SumFunctionOnSet(g, t)
  BY <1>3
<1>5. f[Pick(s)] = g[Pick(s)]
  BY <1>3
<1>6. SumFunctionOnSet(f, s) = f[Pick(s)] + SumFunctionOnSet(f, t) /\ SumFunctionOnSet(g, s) = g[Pick(s)] + SumFunctionOnSet(g, t)
  BY <1>2, <1>3, SumPick
<1>. QED BY <1>4, <1>5, <1>6

LEMMA SumSubset ==
  ASSUME NEW f, NEW S, IsFiniteSet(S), \A x \in S : f[x] \in Int, NEW T \in SUBSET S
  PROVE  /\ IsFiniteSet(T) /\ IsFiniteSet(S \ T)
         /\ SumFunctionOnSet(f, T) \in Int /\ SumFunctionOnSet(f, S \ T) \in Int
         /\ SumFunctionOnSet(f, S) = SumFunctionOnSet(f, T) + SumFunctionOnSet(f, S \ T)
<1>1. \A u \in SUBSET S : IsFiniteSet(u) /\ SumFunctionOnSet(f, u) \in Int
  BY FS_Subset, SumType
<1> DEFINE Splits(t) == SumFunctionOnSet(f, S) = SumFunctionOnSet(f, t) + SumFunctionOnSet(f, S \ t)
           B == {t \in SUBSET S : ~Splits(t)}
<1>2. B = {}
  <2> SUFFICES ASSUME B # {} PROVE FALSE
    OBVIOUS
  <2>0. B \subseteq SUBSET S
    OBVIOUS
  <2>1. PICK t \in B : /\ IsFiniteSet(t) /\ t \subseteq S
                       /\ \A x \in t : t \ {x} \in (SUBSET S) \ B /\ IsFiniteSet(t \ {x})
    <3> HIDE DEF B
    <3>. QED BY <2>0, MinimalSubset
  <2>2. CASE t = {}
    <3>1. S \ t = S
      BY <2>2
    <3>2. SumFunctionOnSet(f, t) = 0 /\ SumFunctionOnSet(f, S) \in Int
      BY <2>2, SumEmpty, <1>1
    <3>3. SumFunctionOnSet(f, S) = 0 + SumFunctionOnSet(f, S)
      BY <3>2
    <3>4. Splits(t)
      BY <3>1, <3>2, <3>3
    <3>. QED BY <3>4
  <2>3. CASE t # {}
    <3>1. PICK x \in t : TRUE
      BY <2>3
    <3> DEFINE u == t \ {x}
               a == SumFunctionOnSet(f, u)
               b == SumFunctionOnSet(f, S \ u)
               c == SumFunctionOnSet(f, S \ t)
    <3>2. Splits(u) /\ u \in SUBSET S
      BY <2>1
    <3>3. SumFunctionOnSet(f, t) = f[x] + a
      BY <2>1, SumRemove
    <3>4. (S \ u) \ {x} = S \ t /\ x \in S \ u /\ IsFiniteSet(S \ u)
      BY <2>1, <1>1
    <3>5. b = f[x] + c
      BY <3>4, SumRemove
    <3>6. a \in Int /\ b \in Int /\ c \in Int /\ f[x] \in Int
      BY <1>1, <2>1, <3>2
    <3>7. SumFunctionOnSet(f, S) = a + b
      BY <3>2
    <3> HIDE DEF a, b, c, u
    <3>8. SumFunctionOnSet(f, S) = SumFunctionOnSet(f, t) + c
      BY <3>3, <3>5, <3>6, <3>7
    <3>. QED BY <3>8 DEF c
  <2>. QED BY <2>2, <2>3
<1>. QED BY <1>1, <1>2

\* One more element.
LEMMA SumAdd ==
  ASSUME NEW f, NEW S, IsFiniteSet(S), NEW x, x \notin S, \A y \in S \cup {x} : f[y] \in Int
  PROVE  SumFunctionOnSet(f, S \cup {x}) = f[x] + SumFunctionOnSet(f, S)
<1>1. IsFiniteSet(S \cup {x}) /\ (S \cup {x}) \ {x} = S
  BY FS_AddElement
<1>. QED BY <1>1, SumRemove

\* One value changes.
LEMMA SumUpdate ==
  ASSUME NEW f, NEW g, NEW S, IsFiniteSet(S), \A y \in S : f[y] \in Int /\ g[y] \in Int,
         NEW x \in S, \A y \in S : y # x => g[y] = f[y]
  PROVE  SumFunctionOnSet(g, S) = SumFunctionOnSet(f, S) - f[x] + g[x]
<1> DEFINE a == SumFunctionOnSet(f, S \ {x})
<1>1. IsFiniteSet(S \ {x}) /\ a \in Int
  BY FS_RemoveElement, SumType
<1>2. SumFunctionOnSet(g, S \ {x}) = a
  BY <1>1, SumSame
<1>3. SumFunctionOnSet(f, S) = f[x] + a /\ SumFunctionOnSet(g, S) = g[x] + SumFunctionOnSet(g, S \ {x})
  BY SumRemove
<1> HIDE DEF a
<1>4. f[x] \in Int /\ g[x] \in Int
  OBVIOUS
<1>. QED BY <1>1, <1>2, <1>3, <1>4

\* Sums of larger values are larger.
LEMMA SumMonotone ==
  ASSUME NEW f, NEW g, NEW S, IsFiniteSet(S),
         \A x \in S : f[x] \in Int /\ g[x] \in Int /\ f[x] <= g[x]
  PROVE  SumFunctionOnSet(f, S) <= SumFunctionOnSet(g, S)
<1> DEFINE Ok(s) == SumFunctionOnSet(f, s) <= SumFunctionOnSet(g, s)
           B == {s \in SUBSET S : ~Ok(s)}
<1> SUFFICES ASSUME B # {} PROVE FALSE
  OBVIOUS
<1>0. B \subseteq SUBSET S
  OBVIOUS
<1>1. PICK s \in B : /\ IsFiniteSet(s) /\ s \subseteq S
                      /\ \A x \in s : s \ {x} \in (SUBSET S) \ B /\ IsFiniteSet(s \ {x})
  <2> HIDE DEF B
  <2>. QED BY <1>0, MinimalSubset
<1>2. CASE s = {}
  BY <1>2, SumEmpty
<1>3. CASE s # {}
  <2>1. PICK x \in s : TRUE
    BY <1>3
  <2> DEFINE a == SumFunctionOnSet(f, s \ {x})
             b == SumFunctionOnSet(g, s \ {x})
  <2>2. a <= b /\ IsFiniteSet(s \ {x})
    BY <1>1
  <2>3. SumFunctionOnSet(f, s) = f[x] + a /\ SumFunctionOnSet(g, s) = g[x] + b
    BY <1>1, SumRemove
  <2>4. a \in Int /\ b \in Int /\ f[x] \in Int /\ g[x] \in Int /\ f[x] <= g[x]
    BY <1>1, <2>2, SumType
  <2> HIDE DEF a, b
  <2>5. Ok(s)
    BY <2>2, <2>3, <2>4
  <2>. QED BY <2>5
<1>. QED BY <1>2, <1>3

\* The same amount on top for each element of a set.
LEMMA SumRaised ==
  ASSUME NEW f, NEW g, NEW S, IsFiniteSet(S), NEW T \in SUBSET S, NEW r \in Int,
         \A x \in S : f[x] \in Int /\ g[x] = IF x \in T THEN f[x] + r ELSE f[x]
  PROVE  SumFunctionOnSet(g, S) = SumFunctionOnSet(f, S) + r * Cardinality(T)
<1> DEFINE Ok(s) == SumFunctionOnSet(g, s) = SumFunctionOnSet(f, s) + r * Cardinality(s \cap T)
           B == {s \in SUBSET S : ~Ok(s)}
<1>5. B = {}
  <2> SUFFICES ASSUME B # {} PROVE FALSE
    OBVIOUS
  <2>0. B \subseteq SUBSET S
    OBVIOUS
  <2>1. PICK s \in B : /\ IsFiniteSet(s) /\ s \subseteq S
                       /\ \A x \in s : s \ {x} \in (SUBSET S) \ B /\ IsFiniteSet(s \ {x})
    <3> HIDE DEF B
    <3>1. IsFiniteSet(S) /\ B # {}
      OBVIOUS
    <3>. QED BY ONLY <2>0, <3>1, MinimalSubset
  <2>2. CASE s = {}
    <3>1. s \cap T = {} /\ r * 0 = 0
      BY <2>2, SMT
    <3>. QED BY <3>1, <2>2, SumEmpty, FS_EmptySet
  <2>3. CASE s # {}
    <3>1. PICK x \in s : TRUE
      BY <2>3
    <3> DEFINE a == SumFunctionOnSet(f, s \ {x})
               b == SumFunctionOnSet(g, s \ {x})
               n == Cardinality((s \ {x}) \cap T)
    <3>2. b = a + r * n /\ IsFiniteSet(s \ {x})
      BY <2>1
    <3>3. SumFunctionOnSet(f, s) = f[x] + a /\ SumFunctionOnSet(g, s) = g[x] + b
      BY <2>1, SumRemove
    <3>4. IsFiniteSet(s \cap T) /\ IsFiniteSet((s \ {x}) \cap T)
      BY <2>1, <3>2, FS_Subset
    <3>a. \A y \in s : f[y] \in Int /\ g[y] \in Int
      BY <2>1
    <3>b. a \in Int /\ b \in Int
      BY <3>2, <3>a, SumType
    <3>5. a \in Int /\ b \in Int /\ f[x] \in Int /\ g[x] \in Int /\ n \in Nat
      BY <3>a, <3>b, <3>4, FS_CardinalityType
    <3>6. CASE x \in T
      <4>1. s \cap T = ((s \ {x}) \cap T) \cup {x} /\ x \notin (s \ {x}) \cap T
        BY <3>6
      <4>2. Cardinality(s \cap T) = n + 1
        BY <4>1, <3>4, FS_AddElement
      <4>3. g[x] = f[x] + r
        BY <3>6, <2>1
      <4> HIDE DEF a, b, n
      <4>4. r * (n + 1) = r * n + r /\ r * n \in Int
        BY <3>5, SMT
      <4>5. Ok(s)
        BY <3>2, <3>3, <3>5, <4>2, <4>3, <4>4, SMT
      <4>. QED BY <4>5
    <3>7. CASE x \notin T
      <4>1. s \cap T = (s \ {x}) \cap T
        BY <3>7
      <4>2. Cardinality(s \cap T) = n
        BY <4>1
      <4>3. g[x] = f[x]
        BY <3>7, <2>1
      <4> HIDE DEF a, b, n
      <4>4. r * n \in Int
        BY <3>5, SMT
      <4>5. Ok(s)
        BY <3>2, <3>3, <3>5, <4>2, <4>3, <4>4, SMT
      <4>. QED BY <4>5
    <3>. QED BY <3>6, <3>7
  <2>. QED BY <2>2, <2>3
<1>6. Ok(S) /\ S \cap T = T
  BY <1>5
<1>. QED BY <1>6

\* So much on top for each element as another function says, times a factor.
LEMMA SumCombined ==
  ASSUME NEW f, NEW g, NEW h, NEW S, IsFiniteSet(S), NEW r \in Int,
         \A x \in S : f[x] \in Int /\ h[x] \in Int /\ g[x] = f[x] + r * h[x]
  PROVE  SumFunctionOnSet(g, S) = SumFunctionOnSet(f, S) + r * SumFunctionOnSet(h, S)
<1> DEFINE Ok(s) == SumFunctionOnSet(g, s) = SumFunctionOnSet(f, s) + r * SumFunctionOnSet(h, s)
           B == {s \in SUBSET S : ~Ok(s)}
<1>1. B = {}
  <2> SUFFICES ASSUME B # {} PROVE FALSE
    OBVIOUS
  <2>0. B \subseteq SUBSET S
    OBVIOUS
  <2>1. PICK s \in B : /\ IsFiniteSet(s) /\ s \subseteq S
                       /\ \A x \in s : s \ {x} \in (SUBSET S) \ B /\ IsFiniteSet(s \ {x})
    <3> HIDE DEF B
    <3>1. IsFiniteSet(S) /\ B # {}
      OBVIOUS
    <3>. QED BY ONLY <2>0, <3>1, MinimalSubset
  <2>2. CASE s = {}
    <3>1. r * 0 = 0
      BY SMT
    <3>. QED BY <3>1, <2>2, SumEmpty
  <2>3. CASE s # {}
    <3>1. PICK x \in s : TRUE
      BY <2>3
    <3> DEFINE a == SumFunctionOnSet(f, s \ {x})
               b == SumFunctionOnSet(g, s \ {x})
               c == SumFunctionOnSet(h, s \ {x})
    <3>2. b = a + r * c /\ IsFiniteSet(s \ {x})
      BY <2>1
    <3>3. \A y \in s : f[y] \in Int /\ h[y] \in Int /\ g[y] = f[y] + r * h[y]
      BY <2>1
    <3>4. \A y \in s : g[y] \in Int
      BY <3>3, SMT
    <3>5. /\ SumFunctionOnSet(f, s) = f[x] + a /\ SumFunctionOnSet(g, s) = g[x] + b
          /\ SumFunctionOnSet(h, s) = h[x] + c
      BY <2>1, <3>3, <3>4, SumRemove
    <3>6. a \in Int /\ c \in Int
      BY <3>2, <3>3, SumType
    <3>7. f[x] \in Int /\ h[x] \in Int /\ g[x] = f[x] + r * h[x]
      BY <3>3
    <3> HIDE DEF a, b, c
    <3>8. r * (h[x] + c) = r * h[x] + r * c /\ r * h[x] \in Int /\ r * c \in Int
      BY <3>6, <3>7, SMT
    <3>9. Ok(s)
      BY <3>2, <3>5, <3>6, <3>7, <3>8, SMT
    <3>. QED BY <3>9
  <2>. QED BY <2>2, <2>3
<1>2. Ok(S)
  BY <1>1
<1>. QED BY <1>2

\* The same values under other names.
LEMMA SumReindexed ==
  ASSUME NEW f, NEW g, NEW S, IsFiniteSet(S), \A x \in S : g[x] \in Int,
         NEW b, \A x, y \in S : b[x] = b[y] => x = y,
         \A x \in S : f[b[x]] = g[x]
  PROVE  /\ IsFiniteSet({b[x] : x \in S})
         /\ SumFunctionOnSet(f, {b[x] : x \in S}) = SumFunctionOnSet(g, S)
<1> DEFINE I(s) == {b[x] : x \in s}
           Ok(s) == IsFiniteSet(I(s)) /\ SumFunctionOnSet(f, I(s)) = SumFunctionOnSet(g, s)
           B == {s \in SUBSET S : ~Ok(s)}
<1>5. B = {}
  <2> SUFFICES ASSUME B # {} PROVE FALSE
    OBVIOUS
  <2>0. B \subseteq SUBSET S
    OBVIOUS
  <2>1. PICK s \in B : /\ IsFiniteSet(s) /\ s \subseteq S
                       /\ \A x \in s : s \ {x} \in (SUBSET S) \ B /\ IsFiniteSet(s \ {x})
    <3> HIDE DEF B
    <3>1. IsFiniteSet(S) /\ B # {}
      OBVIOUS
    <3>. QED BY ONLY <2>0, <3>1, MinimalSubset
  <2>2. CASE s = {}
    <3>1. I(s) = {}
      BY <2>2
    <3>. QED BY <3>1, <2>2, SumEmpty, FS_EmptySet
  <2>3. CASE s # {}
    <3>1. PICK x \in s : TRUE
      BY <2>3
    <3>2. Ok(s \ {x})
      BY <2>1
    <3>3. I(s) = I(s \ {x}) \cup {b[x]} /\ b[x] \notin I(s \ {x})
      BY <2>1
    <3>4. \A z \in I(s) : f[z] \in Int
      BY <2>1
    <3> DEFINE J == I(s \ {x})
               y == b[x]
    <3>a. IsFiniteSet(J) /\ I(s) = J \cup {y} /\ y \notin J /\ \A z \in J \cup {y} : f[z] \in Int
      BY <3>2, <3>3, <3>4
    <3> HIDE DEF J, y, I
    <3>5. IsFiniteSet(I(s))
      <4>1. IsFiniteSet(J \cup {y})
        BY <3>a, FS_AddElement
      <4>. QED BY <4>1, <3>a
    <3>6. SumFunctionOnSet(f, I(s)) = f[y] + SumFunctionOnSet(f, J)
      <4>1. SumFunctionOnSet(f, J \cup {y}) = f[y] + SumFunctionOnSet(f, J)
        BY <3>a, SumAdd
      <4>. QED BY <4>1, <3>a
    <3>7. SumFunctionOnSet(g, s) = g[x] + SumFunctionOnSet(g, s \ {x})
      BY <2>1, SumRemove
    <3>8. f[b[x]] = g[x]
      BY <2>1
    <3>9. Ok(s)
      BY <3>2, <3>5, <3>6, <3>7, <3>8 DEF J, y
    <3>. QED BY <3>9
  <2>. QED BY <2>2, <2>3
<1>. QED BY <1>5

-----------------------------------------------------------------------------
(* Sums of all values of a function *)

LEMMA FunctionSum ==
  ASSUME NEW S, IsFiniteSet(S), NEW f \in [S -> Nat]
  PROVE  SumFunction(f) = SumFunctionOnSet(f, S) /\ SumFunction(f) \in Nat
<1>1. DOMAIN f = S /\ \A x \in S : f[x] \in Nat
  OBVIOUS
<1>2. SumFunction(f) = SumFunctionOnSet(f, S)
  BY <1>1 DEF SumFunction
<1>. QED BY <1>1, <1>2, SumNat

LEMMA FunctionSumChanged ==
  ASSUME NEW S, IsFiniteSet(S), NEW f \in [S -> Nat], NEW g \in [S -> Nat], NEW a \in S,
         \A x \in S : x # a => g[x] = f[x]
  PROVE  SumFunction(g) = SumFunction(f) - f[a] + g[a]
<1>1. \A x \in S : f[x] \in Int /\ g[x] \in Int
  OBVIOUS
<1>2. SumFunction(f) = SumFunctionOnSet(f, S) /\ SumFunction(g) = SumFunctionOnSet(g, S)
  BY FunctionSum
<1>3. SumFunctionOnSet(g, S) = SumFunctionOnSet(f, S) - f[a] + g[a]
  BY <1>1, SumUpdate
<1>. QED BY <1>2, <1>3

LEMMA FunctionSumZero ==
  ASSUME NEW S, IsFiniteSet(S), NEW f, f = [x \in S |-> 0]
  PROVE  SumFunction(f) = 0
<1> DEFINE B == {s \in SUBSET S : SumFunctionOnSet(f, s) # 0}
<1>1. B = {}
  <2> SUFFICES ASSUME B # {} PROVE FALSE
    OBVIOUS
  <2>0. B \subseteq SUBSET S
    OBVIOUS
  <2>1. PICK s \in B : /\ IsFiniteSet(s) /\ s \subseteq S
                       /\ \A x \in s : s \ {x} \in (SUBSET S) \ B /\ IsFiniteSet(s \ {x})
    <3> HIDE DEF B
    <3>. QED BY <2>0, MinimalSubset
  <2>2. s # {}
    BY SumEmpty
  <2>3. PICK x \in s : TRUE
    BY <2>2
  <2>4. \A y \in s : f[y] = 0
    BY <2>1
  <2>5. SumFunctionOnSet(f, s) = f[x] + SumFunctionOnSet(f, s \ {x})
    BY <2>1, <2>4, SumRemove
  <2>6. SumFunctionOnSet(f, s \ {x}) = 0
    BY <2>1
  <2>. QED BY <2>4, <2>5, <2>6
<1>2. SumFunction(f) = SumFunctionOnSet(f, S)
  BY DEF SumFunction
<1>. QED BY <1>1, <1>2

\* Functions on one set: a sum of sums, and one that is bounded by another.
LEMMA FunctionSumCombined ==
  ASSUME NEW S, IsFiniteSet(S), NEW f \in [S -> Nat], NEW g \in [S -> Nat], NEW h \in [S -> Nat],
         NEW r \in Nat, \A x \in S : g[x] = f[x] + r * h[x]
  PROVE  SumFunction(g) = SumFunction(f) + r * SumFunction(h)
<1>1. \A x \in S : f[x] \in Int /\ h[x] \in Int /\ g[x] = f[x] + r * h[x]
  OBVIOUS
<1>2. r \in Int
  OBVIOUS
<1>3. SumFunctionOnSet(g, S) = SumFunctionOnSet(f, S) + r * SumFunctionOnSet(h, S)
  BY <1>1, <1>2, SumCombined
<1>. QED BY <1>3, FunctionSum

LEMMA FunctionSumBounded ==
  ASSUME NEW S, IsFiniteSet(S), NEW f \in [S -> Nat], NEW g \in [S -> Nat],
         \A x \in S : f[x] <= g[x]
  PROVE  SumFunction(f) <= SumFunction(g)
<1>1. \A x \in S : f[x] \in Int /\ g[x] \in Int /\ f[x] <= g[x]
  OBVIOUS
<1>2. SumFunctionOnSet(f, S) <= SumFunctionOnSet(g, S)
  BY <1>1, SumMonotone
<1>. QED BY <1>2, FunctionSum

-----------------------------------------------------------------------------
(* Turns.  A loop is a function of the turn, and what is said of every turn *)
(* is shown of the least one it could fail for.                             *)

LEMMA NoLeast ==
  ASSUME NEW B, B \subseteq Nat, 0 \notin B, \A k \in Nat : k + 1 \in B => k \in B
  PROVE  B = {}
<1> SUFFICES ASSUME B # {} PROVE FALSE
  OBVIOUS
<1>1. PICK x \in B : \A y \in B : x <= y
  BY LeastNatural
<1>2. x \in Nat /\ x # 0
  BY <1>1
<1>3. x - 1 \in Nat /\ (x - 1) + 1 = x
  BY ONLY <1>2
<1>4. x - 1 \in B
  BY <1>1, <1>3
<1>. QED BY <1>1, <1>2, <1>4

\* IsTurns(F, a, D, g): g starts at a, and every turn up to D is F of the one before.
IsTurns(F, a, D, g) == g = [k \in D |-> IF k = 0 THEN a ELSE F[g[k - 1]]]

\* Turns that stay within a set can be taken as often as one likes.
LEMMA TurnsExist ==
  ASSUME NEW X, NEW F \in [X -> X], NEW a \in X, NEW N \in Nat
  PROVE  \E g \in [0..N -> X] : IsTurns(F, a, 0..N, g)
<1> DEFINE Good(m, g) == g[0] = a /\ \A k \in Nat : k + 1 <= m => g[k + 1] = F[g[k]]
           B == {m \in Nat : ~ \E g \in [0..m -> X] : Good(m, g)}
<1>1. 0 \notin B
  <2>1. [k \in 0..0 |-> a] \in [0..0 -> X] /\ Good(0, [k \in 0..0 |-> a])
    OBVIOUS
  <2>. QED BY <2>1
<1>2. ASSUME NEW m \in Nat, NEW g \in [0..m -> X], Good(m, g)
      PROVE  \E h \in [0..m + 1 -> X] : Good(m + 1, h)
  <2> DEFINE h == [k \in 0..m + 1 |-> IF k <= m THEN g[k] ELSE F[g[m]]]
  <2>1. h \in [0..m + 1 -> X]
    <3>1. ASSUME NEW k \in 0..m + 1 PROVE (IF k <= m THEN g[k] ELSE F[g[m]]) \in X
      <4>1. m \in 0..m /\ g[m] \in X /\ F[g[m]] \in X
        OBVIOUS
      <4>2. k <= m => k \in 0..m /\ g[k] \in X
        OBVIOUS
      <4>. QED BY <4>1, <4>2
    <3>. QED BY <3>1
  <2>2. h[0] = a
    BY <1>2
  <2>3. ASSUME NEW k \in Nat, k + 1 <= m + 1 PROVE h[k + 1] = F[h[k]]
    <3>1. k \in 0..m + 1 /\ k + 1 \in 0..m + 1 /\ k <= m
      BY <2>3
    <3>2. h[k] = g[k] /\ h[k + 1] = IF k + 1 <= m THEN g[k + 1] ELSE F[g[m]]
      BY <3>1
    <3>3. k + 1 <= m \/ k = m
      BY <3>1
    <3> HIDE DEF h
    <3>4. CASE k + 1 <= m
      BY <1>2, <3>2, <3>4
    <3>5. CASE k = m
      BY <3>2, <3>5
    <3>. QED BY <3>3, <3>4, <3>5
  <2> HIDE DEF h
  <2>. QED BY <2>1, <2>2, <2>3
<1>3. B = {}
  <2>1. \A m \in Nat : m + 1 \in B => m \in B
    <3> SUFFICES ASSUME NEW m \in Nat, m \notin B PROVE m + 1 \notin B
      OBVIOUS
    <3>1. PICK g \in [0..m -> X] : Good(m, g)
      OBVIOUS
    <3> HIDE DEF Good
    <3>. QED BY <1>2, <3>1
  <2>2. B \subseteq Nat
    OBVIOUS
  <2> HIDE DEF B
  <2>. QED BY <1>1, <2>1, <2>2, NoLeast
<1>4. PICK g \in [0..N -> X] : Good(N, g)
  BY <1>3
<1>5. \A k \in 0..N : g[k] = IF k = 0 THEN a ELSE F[g[k - 1]]
  <2> SUFFICES ASSUME NEW k \in 0..N, k # 0 PROVE g[k] = F[g[k - 1]]
    BY <1>4
  <2>1. k - 1 \in Nat /\ (k - 1) + 1 <= N /\ (k - 1) + 1 = k
    OBVIOUS
  <2>. QED BY <1>4, <2>1
<1>. QED BY <1>5 DEF IsTurns

\* The same without an end: each turn is where the turns up to it lead.
LEMMA TurnsForever ==
  ASSUME NEW X, NEW F \in [X -> X], NEW a \in X
  PROVE  \E g \in [Nat -> X] : IsTurns(F, a, Nat, g)
<1> DEFINE Turns(N) == {g \in [0..N -> X] : IsTurns(F, a, 0..N, g)}
           T(N) == CHOOSE g : g \in Turns(N)
           G == [k \in Nat |-> T(k)[k]]
<1>1. ASSUME NEW N \in Nat
      PROVE  /\ T(N) \in [0..N -> X] /\ T(N)[0] = a
             /\ \A k \in Nat : k + 1 <= N => T(N)[k + 1] = F[T(N)[k]]
  <2>1. \E g : g \in Turns(N)
    <3>1. PICK g \in [0..N -> X] : IsTurns(F, a, 0..N, g)
      BY TurnsExist
    <3>2. g \in Turns(N)
      BY ONLY <3>1
    <3>. QED BY ONLY <3>2
  <2>2. T(N) \in Turns(N)
    <3> HIDE DEF Turns
    <3>. QED BY <2>1
  <2>3. PICK t : t = T(N)
    OBVIOUS
  <2>4. t \in [0..N -> X] /\ t = [k \in 0..N |-> IF k = 0 THEN a ELSE F[t[k - 1]]]
    BY <2>2, <2>3 DEF Turns, IsTurns
  <2>5. t[0] = a
    BY <2>4
  <2>6. ASSUME NEW k \in Nat, k + 1 <= N PROVE t[k + 1] = F[t[k]]
    <3>1. k + 1 \in 0..N /\ k + 1 # 0 /\ (k + 1) - 1 = k
      BY <2>6
    <3>. QED BY <2>4, <3>1
  <2>. QED BY <2>3, <2>4, <2>5, <2>6
<1> HIDE DEF T
<1>2. ASSUME NEW N \in Nat PROVE T(N + 1)[N] = T(N)[N]
  <2> DEFINE B == {k \in 0..N : T(N + 1)[k] # T(N)[k]}
  <2>1. B \subseteq Nat /\ 0 \notin B
    <3>1. N + 1 \in Nat
      OBVIOUS
    <3>2. T(N)[0] = a /\ T(N + 1)[0] = a
      BY <1>1, <3>1
    <3>. QED BY <3>2
  <2>2. ASSUME NEW k \in Nat, k + 1 \in B PROVE k \in B
    <3>1. k + 1 <= N /\ k + 1 <= N + 1 /\ k \in 0..N /\ N + 1 \in Nat
      BY <2>2
    <3>2. T(N)[k + 1] = F[T(N)[k]] /\ T(N + 1)[k + 1] = F[T(N + 1)[k]]
      BY <1>1, <3>1
    <3>. QED BY <2>2, <3>1, <3>2
  <2>3. B = {}
    <3> HIDE DEF B
    <3>. QED BY <2>1, <2>2, NoLeast
  <2>4. N \in 0..N
    OBVIOUS
  <2>. QED BY <2>3, <2>4
<1>3. G \in [Nat -> X]
  <2>1. \A k \in Nat : T(k)[k] \in X
    BY <1>1
  <2>. QED BY <2>1
<1>4. ASSUME NEW k \in Nat PROVE G[k] = IF k = 0 THEN a ELSE F[G[k - 1]]
  <2>1. CASE k = 0
    BY <1>1, <2>1
  <2>2. CASE k # 0
    <3>1. PICK j \in Nat : k = j + 1 /\ k - 1 = j
      BY <2>2
    <3>2. T(j + 1)[j + 1] = F[T(j + 1)[j]]
      BY <1>1, <3>1
    <3>3. T(j + 1)[j] = T(j)[j]
      BY <1>2
    <3>. QED BY <2>2, <3>1, <3>2, <3>3
  <2>. QED BY <2>1, <2>2
<1> HIDE DEF G
<1>5. G = [k \in Nat |-> IF k = 0 THEN a ELSE F[G[k - 1]]]
  BY <1>3, <1>4
<1>. QED BY <1>3, <1>5 DEF IsTurns

=============================================================================
