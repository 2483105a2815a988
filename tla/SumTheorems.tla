---------------------------- MODULE SumTheorems ----------------------------
(***************************************************************************)
(* Facts about SumFunctionOnSet(f, S), the sum of f over a finite set,     *)
(* which the proofs about pools and wallets cite by name.                  *)
(*                                                                         *)
(* The sum is a fold that takes a chosen element, then the rest.  It is    *)
(* first shown to be a function on the subsets of S that does so, and the  *)
(* facts follow by taking a minimal subset that would break them.          *)
(***************************************************************************)
EXTENDS Integers, FiniteSets, Functions, FiniteSetTheorems, TLAPS

\* A non-empty collection of subsets of a finite set has a minimal member.
LEMMA MinimalSubset ==
  ASSUME NEW S, IsFiniteSet(S), NEW B, B \subseteq SUBSET S, B # {}
  PROVE  \E T \in B : \A U \in B : U \subseteq T => U = T
<1>1. IsWellFoundedOn(StrictSubsetOrdering(S), FiniteSubsetsOf(S))
  BY FS_StrictSubsetOrderingWellFounded
<1>2. B \subseteq FiniteSubsetsOf(S)
  BY FS_Subset DEF FiniteSubsetsOf
<1>3. PICK T \in B : \A U \in B : ~ (<<U, T>> \in StrictSubsetOrdering(S))
  BY <1>1, <1>2, WFMin
<1>4. ASSUME NEW U \in B, U \subseteq T PROVE U = T
  BY <1>3, <1>4 DEF StrictSubsetOrdering
<1> QED BY <1>4

\* One step of the fold: g gives the sums over smaller sets.
Body(f, g, T) ==
  IF T = {} THEN 0
  ELSE LET x == CHOOSE x \in T : TRUE IN f[x] + g[T \ {x}]

\* g gives the sum of f over every subset of S.
Accumulates(f, g, S) == g = [T \in SUBSET S |-> Body(f, g, T)]

\* Two functions of sums agree wherever both are defined.
LEMMA AccumulatesUnique ==
  ASSUME NEW f, NEW S, IsFiniteSet(S), NEW g, NEW h, NEW A, NEW C,
         S \subseteq A, S \subseteq C,
         Accumulates(f, g, A), Accumulates(f, h, C)
  PROVE  g[S] = h[S]
<1> DEFINE B == {T \in SUBSET S : g[T] # h[T]}
<1>1. SUFFICES ASSUME B # {} PROVE FALSE
  OBVIOUS
<1>2. PICK T \in B : \A U \in B : U \subseteq T => U = T
  <2>1. B \subseteq SUBSET S
    OBVIOUS
  <2> HIDE DEF B
  <2> QED BY <1>1, <2>1, MinimalSubset
<1>3. g[T] = Body(f, g, T) /\ h[T] = Body(f, h, T)
  BY DEF Accumulates
<1>4. CASE T = {}
  BY <1>3, <1>4 DEF Body
<1>5. CASE T # {}
  <2>1. PICK x \in T : x = CHOOSE y \in T : TRUE
    BY <1>5
  <2>2. g[T \ {x}] = h[T \ {x}]
    BY <1>2
  <2> QED BY <1>3, <1>5, <2>1, <2>2 DEF Body
<1> QED BY <1>4, <1>5

\* For integer values there is a function of sums, and the sums are integers.
LEMMA AccumulatesExists ==
  ASSUME NEW S, IsFiniteSet(S), NEW f, \A x \in S : f[x] \in Int
  PROVE  \E g \in [SUBSET S -> Int] : Accumulates(f, g, S)
<1> DEFINE Good(T) == \E g \in [SUBSET T -> Int] : Accumulates(f, g, T)
           B == {T \in SUBSET S : ~ Good(T)}
<1>1. SUFFICES ASSUME B # {} PROVE FALSE
  OBVIOUS
<1>2. PICK T \in B : \A U \in B : U \subseteq T => U = T
  <2>1. B \subseteq SUBSET S
    OBVIOUS
  <2> HIDE DEF B
  <2> QED BY <1>1, <2>1, MinimalSubset
<1> DEFINE G(U) == CHOOSE g \in [SUBSET U -> Int] : Accumulates(f, g, U)
           below == [U \in SUBSET T |-> IF U = T THEN 0 ELSE G(U)[U]]
           g0 == [U \in SUBSET T |-> IF U = T THEN Body(f, below, T) ELSE G(U)[U]]
<1>3. ASSUME NEW U \in SUBSET T, U # T
      PROVE  G(U) \in [SUBSET U -> Int] /\ Accumulates(f, G(U), U) /\ IsFiniteSet(U)
  <2>1. Good(U)
    BY <1>2, <1>3
  <2> QED BY <2>1, FS_Subset
<1>4. ASSUME NEW U \in SUBSET T, U # T, NEW V \in SUBSET U
      PROVE  G(U)[V] = G(V)[V]
  <2>1. V # T /\ V \in SUBSET T
    BY <1>4
  <2>2. Accumulates(f, G(U), U) /\ Accumulates(f, G(V), V) /\ IsFiniteSet(V)
    BY <1>3, <1>4, <2>1
  <2> HIDE DEF G
  <2> QED BY <2>2, AccumulatesUnique
<1>5. ASSUME NEW U \in SUBSET T, U # T PROVE g0[U] = Body(f, g0, U)
  <2>1. G(U)[U] = Body(f, G(U), U)
    <3>1. G(U) = [V \in SUBSET U |-> Body(f, G(U), V)]
      BY <1>3, <1>5 DEF Accumulates
    <3> HIDE DEF G
    <3> QED BY <3>1
  <2>2. CASE U = {}
    BY <2>1, <2>2, <1>5 DEF Body
  <2>3. CASE U # {}
    <3>1. PICK x \in U : x = CHOOSE y \in U : TRUE
      BY <2>3
    <3>2. G(U)[U \ {x}] = G(U \ {x})[U \ {x}]
      <4>1. U \ {x} \in SUBSET U
        OBVIOUS
      <4> HIDE DEF G
      <4> QED BY <1>4, <1>5, <4>1
    <3>3. g0[U \ {x}] = G(U \ {x})[U \ {x}]
      BY <1>5
    <3>4. g0[U] = G(U)[U]
      BY <1>5
    <3> HIDE DEF G, g0
    <3> QED BY <2>1, <2>3, <3>1, <3>2, <3>3, <3>4 DEF Body
  <2> QED BY <2>2, <2>3
<1>6. g0[T] = Body(f, g0, T)
  <2>1. g0[T] = Body(f, below, T)
    OBVIOUS
  <2>2. CASE T = {}
    BY <2>1, <2>2 DEF Body
  <2>3. CASE T # {}
    <3>1. PICK x \in T : x = CHOOSE y \in T : TRUE
      BY <2>3
    <3>2. below[T \ {x}] = g0[T \ {x}]
      OBVIOUS
    <3> HIDE DEF g0, below
    <3> QED BY <2>1, <2>3, <3>1, <3>2 DEF Body
  <2> QED BY <2>2, <2>3
<1>7. g0 \in [SUBSET T -> Int]
  <2>1. ASSUME NEW U \in SUBSET T, U # T PROVE G(U)[U] \in Int
    BY <1>3, <2>1
  <2>2. Body(f, below, T) \in Int
    <3>1. CASE T = {}
      BY <3>1 DEF Body
    <3>2. CASE T # {}
      <4>1. PICK x \in T : x = CHOOSE y \in T : TRUE
        BY <3>2
      <4>2. below[T \ {x}] \in Int
        BY <2>1
      <4>3. f[x] \in Int
        OBVIOUS
      <4> HIDE DEF below
      <4> QED BY <3>2, <4>1, <4>2, <4>3 DEF Body
    <3> QED BY <3>1, <3>2
  <2> HIDE DEF below, G
  <2> QED BY <2>1, <2>2
<1>8. g0 = [U \in SUBSET T |-> Body(f, g0, U)]
  <2>1. \A U \in SUBSET T : g0[U] = Body(f, g0, U)
    BY <1>5, <1>6
  <2>2. g0 = [U \in SUBSET T |-> g0[U]]
    OBVIOUS
  <2> HIDE DEF g0
  <2> QED BY <2>1, <2>2
<1> QED
  <2> HIDE DEF g0
  <2>1. Good(T)
    BY <1>7, <1>8 DEF Accumulates
  <2> QED BY <2>1

\* The community module's sum is the one such a function gives.
LEMMA SumIsAccumulated ==
  ASSUME NEW S, IsFiniteSet(S), NEW f, \A x \in S : f[x] \in Int
  PROVE  \E g \in [SUBSET S -> Int] :
            Accumulates(f, g, S) /\ SumFunctionOnSet(f, S) = g[S]
<1> DEFINE c == CHOOSE h : h = [T \in SUBSET S |-> Body(f, h, T)]
<1>1. PICK g \in [SUBSET S -> Int] : Accumulates(f, g, S)
  BY AccumulatesExists
<1>2. c = [T \in SUBSET S |-> Body(f, c, T)]
  BY <1>1, Zenon DEF Accumulates
<1>3. SumFunctionOnSet(f, S) = c[S]
  BY Zenon DEF SumFunctionOnSet, FoldFunctionOnSet, MapThenFoldSet, Body
<1>4. Accumulates(f, c, S)
  BY <1>2 DEF Accumulates
<1>5. c[S] = g[S]
  <2> HIDE DEF c
  <2> QED BY <1>1, <1>4, AccumulatesUnique
<1> QED BY <1>1, <1>3, <1>5

----------------------------------------------------------------------------

\* The empty sum is zero.
THEOREM SumEmpty == ASSUME NEW f PROVE SumFunctionOnSet(f, {}) = 0
<1>1. IsFiniteSet({}) /\ \A x \in {} : f[x] \in Int
  BY FS_EmptySet
<1>2. PICK g \in [SUBSET {} -> Int] :
        Accumulates(f, g, {}) /\ SumFunctionOnSet(f, {}) = g[{}]
  BY <1>1, SumIsAccumulated
<1>3. g[{}] = Body(f, g, {})
  BY <1>2 DEF Accumulates
<1> QED BY <1>2, <1>3 DEF Body

\* A finite sum of integers is an integer.
THEOREM SumType ==
  ASSUME NEW S, IsFiniteSet(S), NEW f, \A x \in S : f[x] \in Int
  PROVE  SumFunctionOnSet(f, S) \in Int
<1>1. PICK g \in [SUBSET S -> Int] : SumFunctionOnSet(f, S) = g[S]
  BY SumIsAccumulated
<1> QED BY <1>1

\* One function of sums gives the sum over every subset.
LEMMA SumOfSubset ==
  ASSUME NEW S, IsFiniteSet(S), NEW f, \A x \in S : f[x] \in Int,
         NEW g, Accumulates(f, g, S), NEW T \in SUBSET S
  PROVE  SumFunctionOnSet(f, T) = g[T] /\ IsFiniteSet(T)
<1>1. IsFiniteSet(T) /\ \A x \in T : f[x] \in Int
  BY FS_Subset
<1>2. PICK h \in [SUBSET T -> Int] :
        Accumulates(f, h, T) /\ SumFunctionOnSet(f, T) = h[T]
  BY <1>1, SumIsAccumulated
<1>3. h[T] = g[T]
  BY <1>1, <1>2, AccumulatesUnique
<1> QED BY <1>1, <1>2, <1>3

\* A sum over a non-empty set takes some element first.
LEMMA SumChosen ==
  ASSUME NEW S, IsFiniteSet(S), S # {}, NEW f, \A x \in S : f[x] \in Int
  PROVE  \E x \in S : SumFunctionOnSet(f, S) = f[x] + SumFunctionOnSet(f, S \ {x})
<1>1. PICK g \in [SUBSET S -> Int] :
        Accumulates(f, g, S) /\ SumFunctionOnSet(f, S) = g[S]
  BY SumIsAccumulated
<1>2. PICK x \in S : Body(f, g, S) = f[x] + g[S \ {x}]
  <2>1. PICK x \in S : x = CHOOSE y \in S : TRUE
    OBVIOUS
  <2> QED BY <2>1 DEF Body
<1>3. g[S] = Body(f, g, S)
  BY <1>1 DEF Accumulates
<1>4. SumFunctionOnSet(f, S \ {x}) = g[S \ {x}]
  BY <1>1, SumOfSubset
<1> QED BY <1>1, <1>2, <1>3, <1>4

\* Any element may be taken out of a sum: the order does not matter.
THEOREM SumRemove ==
  ASSUME NEW S, IsFiniteSet(S), NEW f, \A x \in S : f[x] \in Int, NEW y \in S
  PROVE  SumFunctionOnSet(f, S) = f[y] + SumFunctionOnSet(f, S \ {y})
<1> DEFINE Splits(T, x) ==
             SumFunctionOnSet(f, T) = f[x] + SumFunctionOnSet(f, T \ {x})
           B == {T \in SUBSET S : \E x \in T : ~ Splits(T, x)}
<1>1. SUFFICES ASSUME B # {} PROVE FALSE
  OBVIOUS
<1>2. PICK T \in B : \A U \in B : U \subseteq T => U = T
  <2>1. B \subseteq SUBSET S
    OBVIOUS
  <2> HIDE DEF B
  <2> QED BY <1>1, <2>1, MinimalSubset
<1>3. \A U \in SUBSET T : SumFunctionOnSet(f, U) \in Int
  BY FS_Subset, SumType
<1>4. PICK z \in T : ~ Splits(T, z)
  OBVIOUS
<1>5. PICK x \in T : Splits(T, x)
  <2>1. IsFiniteSet(T) /\ T # {} /\ \A w \in T : f[w] \in Int
    BY FS_Subset
  <2> QED BY <2>1, SumChosen
<1>6. x # z
  BY <1>4, <1>5
<1>7. Splits(T \ {x}, z) /\ Splits(T \ {z}, x)
  <2>1. ASSUME NEW a \in T, NEW c \in T, a # c PROVE Splits(T \ {a}, c)
    <3>1. T \ {a} \in SUBSET S /\ T \ {a} # T /\ T \ {a} \subseteq T /\ c \in T \ {a}
      BY <2>1
    <3>2. T \ {a} \notin B
      <4> HIDE DEF B
      <4> QED BY <1>2, <3>1
    <3> HIDE DEF Splits
    <3> QED BY <3>1, <3>2
  <2> HIDE DEF Splits
  <2> QED BY <1>6, <2>1
<1>8. (T \ {x}) \ {z} = (T \ {z}) \ {x}
  OBVIOUS
<1> DEFINE V == (T \ {x}) \ {z}
<1>9. /\ f[x] \in Int /\ f[z] \in Int
      /\ SumFunctionOnSet(f, V) \in Int
      /\ SumFunctionOnSet(f, T \ {x}) = f[z] + SumFunctionOnSet(f, V)
      /\ SumFunctionOnSet(f, T \ {z}) = f[x] + SumFunctionOnSet(f, V)
      /\ SumFunctionOnSet(f, T) = f[x] + SumFunctionOnSet(f, T \ {x})
  BY <1>3, <1>5, <1>7, <1>8
<1>10. SumFunctionOnSet(f, T) = f[z] + SumFunctionOnSet(f, T \ {z})
  BY <1>9
<1> QED BY <1>4, <1>10

\* A new element adds its value.
THEOREM SumInsert ==
  ASSUME NEW S, IsFiniteSet(S), NEW x, x \notin S,
         NEW f, f[x] \in Int, \A y \in S : f[y] \in Int
  PROVE  SumFunctionOnSet(f, S \cup {x}) = f[x] + SumFunctionOnSet(f, S)
<1>1. IsFiniteSet(S \cup {x}) /\ x \in S \cup {x}
  BY FS_AddElement
<1>2. (S \cup {x}) \ {x} = S
  OBVIOUS
<1>3. \A y \in S \cup {x} : f[y] \in Int
  OBVIOUS
<1> QED BY <1>1, <1>2, <1>3, SumRemove

\* The sum depends only on the values inside the set.
THEOREM SumCongruence ==
  ASSUME NEW S, IsFiniteSet(S), NEW f, NEW g,
         \A x \in S : f[x] \in Int /\ f[x] = g[x]
  PROVE  SumFunctionOnSet(f, S) = SumFunctionOnSet(g, S)
<1> DEFINE B == {T \in SUBSET S : SumFunctionOnSet(f, T) # SumFunctionOnSet(g, T)}
<1>1. SUFFICES ASSUME B # {} PROVE FALSE
  OBVIOUS
<1>2. PICK T \in B : \A U \in B : U \subseteq T => U = T
  <2>1. B \subseteq SUBSET S
    OBVIOUS
  <2> HIDE DEF B
  <2> QED BY <1>1, <2>1, MinimalSubset
<1>3. IsFiniteSet(T) /\ \A x \in T : f[x] \in Int /\ g[x] \in Int
  BY FS_Subset
<1>4. CASE T = {}
  BY <1>4, SumEmpty
<1>5. CASE T # {}
  <2>1. PICK x \in T : TRUE
    BY <1>5
  <2>2. SumFunctionOnSet(f, T) = f[x] + SumFunctionOnSet(f, T \ {x})
    BY <1>3, SumRemove
  <2>3. SumFunctionOnSet(g, T) = g[x] + SumFunctionOnSet(g, T \ {x})
    BY <1>3, SumRemove
  <2>4. SumFunctionOnSet(f, T \ {x}) = SumFunctionOnSet(g, T \ {x})
    BY <1>2
  <2> QED BY <2>2, <2>3, <2>4
<1> QED BY <1>4, <1>5

\* Changing one value changes the sum by the difference.
THEOREM SumChange ==
  ASSUME NEW S, IsFiniteSet(S), NEW x \in S, NEW f, NEW g,
         \A y \in S : f[y] \in Int /\ g[y] \in Int,
         \A y \in S \ {x} : f[y] = g[y]
  PROVE  SumFunctionOnSet(g, S) = SumFunctionOnSet(f, S) - f[x] + g[x]
<1>1. SumFunctionOnSet(f, S) = f[x] + SumFunctionOnSet(f, S \ {x})
  BY SumRemove
<1>2. SumFunctionOnSet(g, S) = g[x] + SumFunctionOnSet(g, S \ {x})
  BY SumRemove
<1>3. IsFiniteSet(S \ {x})
  BY FS_RemoveElement
<1>4. SumFunctionOnSet(f, S \ {x}) = SumFunctionOnSet(g, S \ {x})
  BY <1>3, SumCongruence
<1>5. SumFunctionOnSet(f, S \ {x}) \in Int
  BY <1>3, SumType
<1> QED BY <1>1, <1>2, <1>4, <1>5

\* Larger values, larger sum.
THEOREM SumMonotone ==
  ASSUME NEW S, IsFiniteSet(S), NEW f, NEW g,
         \A x \in S : f[x] \in Int /\ g[x] \in Int /\ f[x] <= g[x]
  PROVE  SumFunctionOnSet(f, S) <= SumFunctionOnSet(g, S)
<1> DEFINE B == {T \in SUBSET S : ~ (SumFunctionOnSet(f, T) <= SumFunctionOnSet(g, T))}
<1>1. SUFFICES ASSUME B # {} PROVE FALSE
  OBVIOUS
<1>2. PICK T \in B : \A U \in B : U \subseteq T => U = T
  <2>1. B \subseteq SUBSET S
    OBVIOUS
  <2> HIDE DEF B
  <2> QED BY <1>1, <2>1, MinimalSubset
<1>3. IsFiniteSet(T) /\ \A x \in T : f[x] \in Int /\ g[x] \in Int /\ f[x] <= g[x]
  BY FS_Subset
<1>4. CASE T = {}
  BY <1>4, SumEmpty
<1>5. CASE T # {}
  <2>1. PICK x \in T : TRUE
    BY <1>5
  <2>2. /\ SumFunctionOnSet(f, T) = f[x] + SumFunctionOnSet(f, T \ {x})
        /\ SumFunctionOnSet(g, T) = g[x] + SumFunctionOnSet(g, T \ {x})
    BY <1>3, SumRemove
  <2>3. SumFunctionOnSet(f, T \ {x}) <= SumFunctionOnSet(g, T \ {x})
    BY <1>2
  <2>4. /\ SumFunctionOnSet(f, T \ {x}) \in Int
        /\ SumFunctionOnSet(g, T \ {x}) \in Int
    BY <1>3, FS_RemoveElement, SumType
  <2> QED BY <1>3, <2>2, <2>3, <2>4
<1> QED BY <1>4, <1>5

\* The sum of two functions added pointwise.
THEOREM SumAdd ==
  ASSUME NEW S, IsFiniteSet(S), NEW f, NEW g, NEW h,
         \A x \in S : f[x] \in Int /\ g[x] \in Int /\ h[x] = f[x] + g[x]
  PROVE  SumFunctionOnSet(h, S) = SumFunctionOnSet(f, S) + SumFunctionOnSet(g, S)
<1> DEFINE B == {T \in SUBSET S : SumFunctionOnSet(h, T)
                     # SumFunctionOnSet(f, T) + SumFunctionOnSet(g, T)}
<1>1. SUFFICES ASSUME B # {} PROVE FALSE
  OBVIOUS
<1>2. PICK T \in B : \A U \in B : U \subseteq T => U = T
  <2>1. B \subseteq SUBSET S
    OBVIOUS
  <2> HIDE DEF B
  <2> QED BY <1>1, <2>1, MinimalSubset
<1>3. /\ IsFiniteSet(T)
      /\ \A x \in T : f[x] \in Int /\ g[x] \in Int /\ h[x] \in Int /\ h[x] = f[x] + g[x]
  BY FS_Subset
<1>4. CASE T = {}
  BY <1>4, SumEmpty
<1>5. CASE T # {}
  <2>1. PICK x \in T : TRUE
    BY <1>5
  <2>2. /\ SumFunctionOnSet(f, T) = f[x] + SumFunctionOnSet(f, T \ {x})
        /\ SumFunctionOnSet(g, T) = g[x] + SumFunctionOnSet(g, T \ {x})
        /\ SumFunctionOnSet(h, T) = h[x] + SumFunctionOnSet(h, T \ {x})
    BY <1>3, SumRemove
  <2>3. SumFunctionOnSet(h, T \ {x})
          = SumFunctionOnSet(f, T \ {x}) + SumFunctionOnSet(g, T \ {x})
    BY <1>2
  <2>4. /\ SumFunctionOnSet(f, T \ {x}) \in Int
        /\ SumFunctionOnSet(g, T \ {x}) \in Int
    BY <1>3, FS_RemoveElement, SumType
  <2> QED BY <1>3, <2>2, <2>3, <2>4
<1> QED BY <1>4, <1>5

\* A sum of integers that are not negative is not negative.
THEOREM SumNonNegative ==
  ASSUME NEW S, IsFiniteSet(S), NEW f, \A x \in S : f[x] \in Nat
  PROVE  SumFunctionOnSet(f, S) \in Nat
<1> DEFINE B == {T \in SUBSET S : SumFunctionOnSet(f, T) \notin Nat}
<1>1. SUFFICES ASSUME B # {} PROVE FALSE
  OBVIOUS
<1>2. PICK T \in B : \A U \in B : U \subseteq T => U = T
  <2>1. B \subseteq SUBSET S
    OBVIOUS
  <2> HIDE DEF B
  <2> QED BY <1>1, <2>1, MinimalSubset
<1>3. IsFiniteSet(T) /\ \A x \in T : f[x] \in Int
  BY FS_Subset
<1>4. CASE T = {}
  BY <1>4, SumEmpty
<1>5. CASE T # {}
  <2>1. PICK x \in T : TRUE
    BY <1>5
  <2>2. SumFunctionOnSet(f, T) = f[x] + SumFunctionOnSet(f, T \ {x})
    BY <1>3, SumRemove
  <2>3. SumFunctionOnSet(f, T \ {x}) \in Nat
    BY <1>2
  <2>4. f[x] \in Nat
    OBVIOUS
  <2> QED BY <2>2, <2>3, <2>4
<1> QED BY <1>4, <1>5

\* A sum splits into the sums over a part and over the rest.
THEOREM SumSplit ==
  ASSUME NEW S, IsFiniteSet(S), NEW f, \A x \in S : f[x] \in Int,
         NEW T \in SUBSET S
  PROVE  SumFunctionOnSet(f, S)
           = SumFunctionOnSet(f, T) + SumFunctionOnSet(f, S \ T)
<1> DEFINE B == {U \in SUBSET T : SumFunctionOnSet(f, S)
                     # SumFunctionOnSet(f, U) + SumFunctionOnSet(f, S \ U)}
<1>1. SUFFICES ASSUME B # {} PROVE FALSE
  OBVIOUS
<1>2. PICK U \in B : \A V \in B : V \subseteq U => V = U
  <2>1. B \subseteq SUBSET T /\ IsFiniteSet(T)
    BY FS_Subset
  <2> HIDE DEF B
  <2> QED BY <1>1, <2>1, MinimalSubset
<1>3. \A V \in SUBSET S : IsFiniteSet(V) /\ SumFunctionOnSet(f, V) \in Int
  BY FS_Subset, SumType
<1>4. CASE U = {}
  <2>1. S \ U = S
    BY <1>4
  <2> QED BY <1>3, <1>4, <2>1, SumEmpty
<1>5. CASE U # {}
  <2>1. PICK x \in U : TRUE
    BY <1>5
  <2> DEFINE V == U \ {x}
  <2>2. SumFunctionOnSet(f, U) = f[x] + SumFunctionOnSet(f, V)
    BY <1>3, SumRemove
  <2>3. SumFunctionOnSet(f, S \ V) = f[x] + SumFunctionOnSet(f, S \ U)
    <3>1. x \in S \ V /\ (S \ V) \ {x} = S \ U /\ S \ V \in SUBSET S
      OBVIOUS
    <3> HIDE DEF V
    <3> QED BY <1>3, <3>1, SumRemove
  <2>4. SumFunctionOnSet(f, S) = SumFunctionOnSet(f, V) + SumFunctionOnSet(f, S \ V)
    BY <1>2
  <2>5. f[x] \in Int /\ SumFunctionOnSet(f, V) \in Int /\ SumFunctionOnSet(f, S \ U) \in Int
    BY <1>3
  <2> QED BY <2>2, <2>3, <2>4, <2>5
<1> QED BY <1>4, <1>5

\* The sum after one element joined the set with its own value.
THEOREM SumJoin ==
  ASSUME NEW S, IsFiniteSet(S), NEW x, x \notin S, NEW f, NEW g, g[x] \in Int,
         \A y \in S : f[y] \in Int /\ g[y] = f[y]
  PROVE  SumFunctionOnSet(g, S \cup {x}) = SumFunctionOnSet(f, S) + g[x]
<1>1. SumFunctionOnSet(g, S \cup {x}) = g[x] + SumFunctionOnSet(g, S)
  BY SumInsert
<1>2. SumFunctionOnSet(f, S) = SumFunctionOnSet(g, S)
  BY SumCongruence
<1>3. SumFunctionOnSet(f, S) \in Int
  BY SumType
<1> QED BY <1>1, <1>2, <1>3

\* The sum after one element left the set.
THEOREM SumLeave ==
  ASSUME NEW S, IsFiniteSet(S), NEW x \in S, NEW f, NEW g,
         \A y \in S : f[y] \in Int, \A y \in S \ {x} : g[y] = f[y]
  PROVE  SumFunctionOnSet(g, S \ {x}) = SumFunctionOnSet(f, S) - f[x]
<1>1. SumFunctionOnSet(f, S) = f[x] + SumFunctionOnSet(f, S \ {x})
  BY SumRemove
<1>2. IsFiniteSet(S \ {x})
  BY FS_RemoveElement
<1>3. SumFunctionOnSet(f, S \ {x}) = SumFunctionOnSet(g, S \ {x})
  BY <1>2, SumCongruence
<1>4. SumFunctionOnSet(f, S \ {x}) \in Int
  BY <1>2, SumType
<1> QED BY <1>1, <1>3, <1>4

\* Every value of a sum of naturals is at most the sum.
THEOREM SumBounds ==
  ASSUME NEW S, IsFiniteSet(S), NEW f, \A y \in S : f[y] \in Nat, NEW x \in S
  PROVE  f[x] <= SumFunctionOnSet(f, S)
<1>1. SumFunctionOnSet(f, S) = f[x] + SumFunctionOnSet(f, S \ {x})
  BY SumRemove
<1>2. SumFunctionOnSet(f, S \ {x}) \in Nat
  BY FS_RemoveElement, SumNonNegative
<1> QED BY <1>1, <1>2

\* A factor comes out of a sum.
THEOREM SumScale ==
  ASSUME NEW S, IsFiniteSet(S), NEW f, NEW g, NEW k \in Int,
         \A x \in S : f[x] \in Int /\ g[x] = k * f[x]
  PROVE  SumFunctionOnSet(g, S) = k * SumFunctionOnSet(f, S)
<1> DEFINE B == {T \in SUBSET S : SumFunctionOnSet(g, T) # k * SumFunctionOnSet(f, T)}
<1>1. SUFFICES ASSUME B # {} PROVE FALSE
  OBVIOUS
<1>2. PICK T \in B : \A U \in B : U \subseteq T => U = T
  <2>1. B \subseteq SUBSET S
    OBVIOUS
  <2> HIDE DEF B
  <2> QED BY <1>1, <2>1, MinimalSubset
<1>3. IsFiniteSet(T) /\ \A x \in T : f[x] \in Int /\ g[x] \in Int /\ g[x] = k * f[x]
  BY FS_Subset
<1>4. CASE T = {}
  BY <1>4, SumEmpty
<1>5. CASE T # {}
  <2>1. PICK x \in T : TRUE
    BY <1>5
  <2>2. /\ SumFunctionOnSet(f, T) = f[x] + SumFunctionOnSet(f, T \ {x})
        /\ SumFunctionOnSet(g, T) = g[x] + SumFunctionOnSet(g, T \ {x})
    BY <1>3, SumRemove
  <2>3. SumFunctionOnSet(g, T \ {x}) = k * SumFunctionOnSet(f, T \ {x})
    BY <1>2
  <2>4. SumFunctionOnSet(f, T \ {x}) \in Int
    BY <1>3, FS_RemoveElement, SumType
  <2>5. k * (f[x] + SumFunctionOnSet(f, T \ {x}))
          = k * f[x] + k * SumFunctionOnSet(f, T \ {x})
    BY <1>3, <2>4
  <2> QED BY <1>3, <2>2, <2>3, <2>5
<1> QED BY <1>4, <1>5

\* The sum of a constant.
THEOREM SumConstant ==
  ASSUME NEW S, IsFiniteSet(S), NEW f, NEW k \in Int, \A x \in S : f[x] = k
  PROVE  SumFunctionOnSet(f, S) = k * Cardinality(S)
<1> DEFINE B == {T \in SUBSET S : SumFunctionOnSet(f, T) # k * Cardinality(T)}
<1>1. SUFFICES ASSUME B # {} PROVE FALSE
  OBVIOUS
<1>2. PICK T \in B : \A U \in B : U \subseteq T => U = T
  <2>1. B \subseteq SUBSET S
    OBVIOUS
  <2> HIDE DEF B
  <2> QED BY <1>1, <2>1, MinimalSubset
<1>3. IsFiniteSet(T) /\ \A x \in T : f[x] \in Int /\ f[x] = k
  BY FS_Subset
<1>4. CASE T = {}
  BY <1>4, SumEmpty, FS_EmptySet
<1>5. CASE T # {}
  <2>1. PICK x \in T : TRUE
    BY <1>5
  <2>2. SumFunctionOnSet(f, T) = k + SumFunctionOnSet(f, T \ {x})
    BY <1>3, SumRemove
  <2>3. SumFunctionOnSet(f, T \ {x}) = k * Cardinality(T \ {x})
    BY <1>2
  <2>4. Cardinality(T \ {x}) = Cardinality(T) - 1 /\ Cardinality(T) \in Nat
    BY <1>3, FS_RemoveElement, FS_CardinalityType
  <2>5. k + k * (Cardinality(T) - 1) = k * Cardinality(T)
    BY <2>4
  <2> QED BY <2>2, <2>3, <2>4, <2>5
<1> QED BY <1>4, <1>5

\* Elements that contribute nothing can be left out.
THEOREM SumRestrict ==
  ASSUME NEW S, IsFiniteSet(S), NEW T \in SUBSET S, NEW f, NEW g,
         \A x \in T : f[x] \in Int /\ g[x] = f[x], \A x \in S \ T : g[x] = 0
  PROVE  SumFunctionOnSet(g, S) = SumFunctionOnSet(f, T)
<1>1. IsFiniteSet(T) /\ IsFiniteSet(S \ T)
  BY FS_Subset
<1>2. \A x \in S : g[x] \in Int
  OBVIOUS
<1>3. SumFunctionOnSet(g, S) = SumFunctionOnSet(g, T) + SumFunctionOnSet(g, S \ T)
  BY <1>2, SumSplit
<1>4. SumFunctionOnSet(g, T) = SumFunctionOnSet(f, T)
  BY <1>1, SumCongruence
<1> DEFINE zero == 0
<1>5. zero \in Int /\ \A x \in S \ T : g[x] = zero
  OBVIOUS
<1>6. SumFunctionOnSet(g, S \ T) = zero * Cardinality(S \ T)
  <2> HIDE DEF zero
  <2> QED BY <1>1, <1>5, SumConstant
<1>7. Cardinality(S \ T) \in Nat
  BY <1>1, FS_CardinalityType
<1>8. SumFunctionOnSet(f, T) \in Int
  BY <1>1, SumType
<1> QED BY <1>3, <1>4, <1>6, <1>7, <1>8

\* The part of S that belongs to u, and the sums of f over these parts.
PartOf(S, owner, u) == {x \in S : owner[x] = u}
SumsPerOwner(f, S, owner, U) ==
  [u \in U |-> SumFunctionOnSet(f, PartOf(S, owner, u))]

\* Summing per owner, then over the owners, is summing at once.
THEOREM SumByOwner ==
  ASSUME NEW S, IsFiniteSet(S), NEW U, IsFiniteSet(U), NEW owner, NEW f,
         \A x \in S : f[x] \in Int /\ owner[x] \in U
  PROVE  SumFunctionOnSet(SumsPerOwner(f, S, owner, U), U) = SumFunctionOnSet(f, S)
<1> USE DEF PartOf, SumsPerOwner
<1> DEFINE Of(T, u) == {x \in T : owner[x] = u}
           G(T) == [u \in U |-> SumFunctionOnSet(f, Of(T, u))]
           B == {T \in SUBSET S : SumFunctionOnSet(G(T), U) # SumFunctionOnSet(f, T)}
<1>1. SUFFICES ASSUME B # {} PROVE FALSE
  OBVIOUS
<1>2. PICK T \in B : \A V \in B : V \subseteq T => V = T
  <2>1. B \subseteq SUBSET S
    OBVIOUS
  <2> HIDE DEF B
  <2> QED BY <1>1, <2>1, MinimalSubset
<1>3. T \in SUBSET S /\ SumFunctionOnSet(G(T), U) # SumFunctionOnSet(f, T)
  BY <1>2
<1>4. \A V \in SUBSET S, u \in U :
        IsFiniteSet(Of(V, u)) /\ SumFunctionOnSet(f, Of(V, u)) \in Int
  <2> SUFFICES ASSUME NEW V \in SUBSET S, NEW u \in U
               PROVE  IsFiniteSet(Of(V, u)) /\ SumFunctionOnSet(f, Of(V, u)) \in Int
    OBVIOUS
  <2>1. IsFiniteSet(Of(V, u)) /\ \A x \in Of(V, u) : f[x] \in Int
    BY FS_Subset
  <2> HIDE DEF Of
  <2> QED BY <2>1, SumType
<1>5. CASE T = {}
  <2> DEFINE zero == 0
  <2>1. \A u \in U : Of(T, u) = {}
    BY <1>5
  <2>2. \A u \in U : G(T)[u] = zero
    BY <2>1, SumEmpty
  <2>3. SumFunctionOnSet(G(T), U) = zero * Cardinality(U)
    <3>1. zero \in Int
      OBVIOUS
    <3> HIDE DEF zero, G
    <3> QED BY <2>2, <3>1, SumConstant
  <2>4. SumFunctionOnSet(f, T) = 0
    BY <1>5, SumEmpty
  <2> QED BY <1>3, <2>3, <2>4, FS_CardinalityType
<1>6. CASE T # {}
  <2>1. PICK x \in T : TRUE
    BY <1>6
  <2> DEFINE R == T \ {x}
             w == owner[x]
  <2>2. R \in SUBSET S /\ w \in U /\ R \subseteq T /\ R # T
    BY <1>3
  <2>3. SumFunctionOnSet(G(R), U) = SumFunctionOnSet(f, R)
    BY <1>2, <2>2
  <2>4. \A u \in U : G(R)[u] \in Int /\ G(T)[u] \in Int
    BY <1>3, <1>4, <2>2
  <2>5. \A u \in U \ {w} : G(R)[u] = G(T)[u]
    <3>1. \A u \in U \ {w} : Of(R, u) = Of(T, u)
      OBVIOUS
    <3> HIDE DEF Of
    <3> QED BY <3>1
  <2>6. G(T)[w] = f[x] + G(R)[w]
    <3>1. x \in Of(T, w) /\ Of(T, w) \ {x} = Of(R, w)
      OBVIOUS
    <3>2. IsFiniteSet(Of(T, w)) /\ \A y \in Of(T, w) : f[y] \in Int
      BY <1>3, <1>4, <2>2
    <3>3. SumFunctionOnSet(f, Of(T, w)) = f[x] + SumFunctionOnSet(f, Of(T, w) \ {x})
      <4> HIDE DEF Of, w
      <4> QED BY <3>1, <3>2, SumRemove
    <3> HIDE DEF Of, R, w
    <3> QED BY <2>2, <3>1, <3>3
  <2>7. SumFunctionOnSet(G(T), U) = SumFunctionOnSet(G(R), U) - G(R)[w] + G(T)[w]
    <3> HIDE DEF G, R, w
    <3> QED BY <2>2, <2>4, <2>5, SumChange
  <2>8. SumFunctionOnSet(f, T) = f[x] + SumFunctionOnSet(f, R)
    <3>1. IsFiniteSet(T) /\ \A y \in T : f[y] \in Int
      BY <1>3, FS_Subset
    <3> QED BY <3>1, SumRemove
  <2>9. SumFunctionOnSet(f, R) \in Int /\ f[x] \in Int
    <3>1. IsFiniteSet(R) /\ \A y \in R : f[y] \in Int
      BY <2>2, FS_Subset
    <3> HIDE DEF R
    <3> QED BY <1>3, <3>1, SumType
  <2>10. G(R)[w] \in Int
    BY <2>2, <2>4
  <2> HIDE DEF G, R, w
  <2> QED BY <1>3, <2>3, <2>6, <2>7, <2>8, <2>9, <2>10
<1> QED BY <1>5, <1>6
=============================================================================
