------------------------------ MODULE Recursion ------------------------------
(***************************************************************************)
(* Facts about what is defined by recursion over a finite set or over the  *)
(* first natural numbers: the sums the ledger of Verification and the      *)
(* counts of UsageAggregation are stated with, and iterations along a      *)
(* sequence.  Each is proved at a minimal counterexample.                  *)
(***************************************************************************)
EXTENDS Functions, FiniteSetTheorems, TLAPS

\* The element a fold takes next.
Pick(T) == CHOOSE x \in T : TRUE

\* h gives the sum of f over every subset of S.
SubsetSums(h, f, S) ==
    h = [T \in SUBSET S |-> IF T = {} THEN 0 ELSE f[Pick(T)] + h[T \ {Pick(T)}]]

LEMMA PickInside == \A T : T # {} => Pick(T) \in T
BY DEF Pick

\* Among the members of a set of subsets of a finite set, one is minimal.
LEMMA MinimalSubset ==
  ASSUME NEW S, IsFiniteSet(S), NEW B, B \subseteq SUBSET S, B # {}
  PROVE  \E T \in B : \A U \in SUBSET T : U # T => U \notin B
<1>1. FiniteSubsetsOf(S) = SUBSET S
  BY FS_FiniteSubsetsOfFinite
<1>2. IsWellFoundedOn(StrictSubsetOrdering(S), SUBSET S)
  BY <1>1, FS_StrictSubsetOrderingWellFounded
<1>3. PICK T \in B : \A U \in B : ~(<<U, T>> \in StrictSubsetOrdering(S))
  BY <1>2, WFMin
<1>4. ASSUME NEW U \in SUBSET T, U # T, U \in B PROVE FALSE
  BY <1>3, <1>4 DEF StrictSubsetOrdering
<1>5. QED
  BY <1>3, <1>4

LEMMA SubsetSumsAgree ==
  ASSUME NEW f, NEW S, IsFiniteSet(S), NEW g, SubsetSums(g, f, S),
         NEW W \in SUBSET S, NEW h, SubsetSums(h, f, W)
  PROVE  g[W] = h[W]
<1> DEFINE Bad == {U \in SUBSET W : g[U] # h[U]}
<1>1. SUFFICES ASSUME Bad # {} PROVE FALSE
  OBVIOUS
<1>2. PICK U \in Bad : \A V \in SUBSET U : V # U => V \notin Bad
  <2>1. IsFiniteSet(W)
    BY FS_Subset
  <2>2. Bad \subseteq SUBSET W
    OBVIOUS
  <2> HIDE DEF Bad
  <2>3. QED
    BY <1>1, <2>1, <2>2, MinimalSubset
<1>3. CASE U = {}
  BY <1>3 DEF SubsetSums
<1>4. CASE U # {}
  <2>1. Pick(U) \in U
    BY <1>4, PickInside
  <2>2. U \ {Pick(U)} \in SUBSET U /\ U \ {Pick(U)} # U
    BY <2>1
  <2>3. g[U \ {Pick(U)}] = h[U \ {Pick(U)}]
    BY <1>2, <2>2
  <2>4. g[U] = f[Pick(U)] + g[U \ {Pick(U)}] /\ h[U] = f[Pick(U)] + h[U \ {Pick(U)}]
    BY <1>4 DEF SubsetSums
  <2>5. QED
    BY <2>3, <2>4
<1>5. QED
  BY <1>2, <1>3, <1>4

LEMMA SubsetSumsExist ==
  ASSUME NEW f, NEW S, IsFiniteSet(S)
  PROVE  \E h : SubsetSums(h, f, S)
<1> DEFINE Bad == {T \in SUBSET S : ~\E h : SubsetSums(h, f, T)}
           Of(U) == CHOOSE h : SubsetSums(h, f, U)
           Rest(U) == U \ {Pick(U)}
<1>1. SUFFICES ASSUME Bad # {} PROVE FALSE
  OBVIOUS
<1>2. PICK T \in Bad : \A U \in SUBSET T : U # T => U \notin Bad
  <2>1. Bad \subseteq SUBSET S
    OBVIOUS
  <2> HIDE DEF Bad
  <2>2. QED
    BY <1>1, <2>1, MinimalSubset
<1>3. ASSUME NEW U \in SUBSET T, U # T PROVE SubsetSums(Of(U), f, U)
  <2>1. \E h : SubsetSums(h, f, U)
    BY <1>2, <1>3
  <2>2. QED
    BY <2>1
<1> DEFINE g == [U \in SUBSET T |-> IF U = {} THEN 0
                                    ELSE f[Pick(U)] + Of(Rest(U))[Rest(U)]]
<1> HIDE DEF Of
<1>4. ASSUME NEW U \in SUBSET T, U # T PROVE g[U] = Of(U)[U]
  <2>1. CASE U = {}
    BY <1>3, <1>4, <2>1 DEF SubsetSums
  <2>2. CASE U # {}
    <3>1. Pick(U) \in U
      BY <2>2, PickInside
    <3>2. Rest(U) \in SUBSET U /\ Rest(U) \in SUBSET T /\ Rest(U) # T
      BY <1>4, <3>1
    <3>3. Of(U)[Rest(U)] = Of(Rest(U))[Rest(U)]
      <4>1. IsFiniteSet(U)
        BY FS_Subset
      <4>2. SubsetSums(Of(U), f, U) /\ SubsetSums(Of(Rest(U)), f, Rest(U))
        BY <1>3, <1>4, <3>2
      <4>3. QED
        BY <3>2, <4>1, <4>2, SubsetSumsAgree
    <3>4. Of(U)[U] = f[Pick(U)] + Of(U)[Rest(U)]
      BY <1>3, <1>4, <2>2 DEF SubsetSums
    <3>5. QED
      BY <2>2, <3>3, <3>4
  <2>3. QED
    BY <2>1, <2>2
<1>5. ASSUME NEW U \in SUBSET T, U # {} PROVE g[U] = f[Pick(U)] + g[Rest(U)]
  <2>1. Pick(U) \in U
    BY <1>5, PickInside
  <2>2. Rest(U) \in SUBSET T /\ Rest(U) # T
    BY <2>1
  <2>3. g[Rest(U)] = Of(Rest(U))[Rest(U)]
    BY <1>4, <2>2
  <2>4. QED
    BY <1>5, <2>3
<1>6. SubsetSums(g, f, T)
  <2>1. g = [U \in SUBSET T |-> g[U]]
    OBVIOUS
  <2>2. g[{}] = 0
    OBVIOUS
  <2>. HIDE DEF g
  <2>3. QED
    BY <1>5, <2>1, <2>2 DEF SubsetSums
<1>7. QED
  BY <1>2, <1>6

-----------------------------------------------------------------------------
LEMMA SumUnfold ==
  ASSUME NEW f, NEW S
  PROVE  SumFunctionOnSet(f, S) = (CHOOSE h : SubsetSums(h, f, S))[S]
BY DEF SumFunctionOnSet, FoldFunctionOnSet, MapThenFoldSet, SubsetSums, Pick

LEMMA SumEmpty == \A f : SumFunctionOnSet(f, {}) = 0
<1> SUFFICES ASSUME NEW f PROVE SumFunctionOnSet(f, {}) = 0
  OBVIOUS
<1>1. PICK h : SubsetSums(h, f, {})
  BY SubsetSumsExist, FS_EmptySet
<1> DEFINE it == CHOOSE k : SubsetSums(k, f, {})
<1>2. SubsetSums(it, f, {})
  BY <1>1
<1> HIDE DEF it
<1>3. it[{}] = 0
  BY <1>2 DEF SubsetSums
<1>4. QED
  BY <1>3, SumUnfold DEF it

LEMMA SumPick ==
  ASSUME NEW f, NEW S, IsFiniteSet(S), S # {}
  PROVE  SumFunctionOnSet(f, S) = f[Pick(S)] + SumFunctionOnSet(f, S \ {Pick(S)})
<1> DEFINE W == S \ {Pick(S)}
           g == CHOOSE k : SubsetSums(k, f, S)
           h == CHOOSE k : SubsetSums(k, f, W)
<1>1. IsFiniteSet(W) /\ W \in SUBSET S
  BY FS_Subset
<1>2. SubsetSums(g, f, S)
  BY SubsetSumsExist
<1>3. SubsetSums(h, f, W)
  BY <1>1, SubsetSumsExist
<1>4. SumFunctionOnSet(f, S) = g[S] /\ SumFunctionOnSet(f, W) = h[W]
  BY SumUnfold
<1> HIDE DEF g, h
<1>5. g[S] = f[Pick(S)] + g[W]
  BY <1>2 DEF SubsetSums
<1>6. g[W] = h[W]
  BY <1>1, <1>2, <1>3, SubsetSumsAgree
<1>7. QED
  BY <1>4, <1>5, <1>6

\* The elements may be taken in any order.
LEMMA SumTake ==
  ASSUME NEW f, NEW S, IsFiniteSet(S), \A x \in S : f[x] \in Int, NEW e \in S
  PROVE  /\ SumFunctionOnSet(f, S) \in Int
         /\ SumFunctionOnSet(f, S) = f[e] + SumFunctionOnSet(f, S \ {e})
<1> DEFINE Sum(T) == SumFunctionOnSet(f, T)
           Good(T) == /\ Sum(T) \in Int
                      /\ \A x \in T : Sum(T) = f[x] + Sum(T \ {x})
           Bad == {T \in SUBSET S : ~Good(T)}
<1>1. SUFFICES ASSUME Bad # {} PROVE FALSE
  OBVIOUS
<1>2. PICK T \in Bad : \A U \in SUBSET T : U # T => U \notin Bad
  <2>1. Bad \subseteq SUBSET S
    OBVIOUS
  <2> HIDE DEF Bad
  <2>2. QED
    BY <1>1, <2>1, MinimalSubset
<1>3. \A U \in SUBSET T : U # T => Good(U)
  BY <1>2
<1>4. IsFiniteSet(T)
  BY <1>2, FS_Subset
<1>5. CASE T = {}
  BY <1>2, <1>5, SumEmpty
<1>6. CASE T # {}
  <2> DEFINE y == Pick(T)
  <2>1. y \in T
    BY <1>6, PickInside
  <2>2. Sum(T) = f[y] + Sum(T \ {y})
    BY <1>4, <1>6, SumPick
  <2> HIDE DEF y, Sum
  <2>3. Good(T \ {y})
    BY <1>3, <2>1
  <2>4. Sum(T) \in Int
    BY <2>1, <2>2, <2>3
  <2>5. ASSUME NEW x \in T PROVE Sum(T) = f[x] + Sum(T \ {x})
    <3>1. CASE x = y
      BY <2>2, <3>1
    <3>2. CASE x # y
      <4>1. x \in T \ {y} /\ y \in T \ {x}
        BY <2>1, <2>5, <3>2
      <4>2. Sum(T \ {y}) = f[x] + Sum((T \ {y}) \ {x})
        BY <2>3, <4>1
      <4>3. Good(T \ {x})
        BY <1>3, <2>5
      <4>4. Sum(T \ {x}) = f[y] + Sum((T \ {x}) \ {y})
        BY <4>1, <4>3
      <4>5. Sum((T \ {x}) \ {y}) = Sum((T \ {y}) \ {x})
        <5>1. (T \ {x}) \ {y} = (T \ {y}) \ {x}
          OBVIOUS
        <5>2. QED
          BY ONLY <5>1, Zenon
      <4>6. Good((T \ {y}) \ {x})
        BY <1>3, <2>1, <4>1
      <4>7. f[x] \in Int /\ f[y] \in Int /\ Sum((T \ {y}) \ {x}) \in Int
        BY <1>2, <2>1, <4>6
      <4>8. QED
        BY <2>2, <4>2, <4>4, <4>5, <4>7
    <3>3. QED
      BY <3>1, <3>2
  <2>6. QED
    BY <1>2, <2>4, <2>5
<1>7. QED
  BY <1>5, <1>6

LEMMA SumType ==
  ASSUME NEW f, NEW S, IsFiniteSet(S), \A x \in S : f[x] \in Int
  PROVE  SumFunctionOnSet(f, S) \in Int
<1>1. CASE S = {}
  BY <1>1, SumEmpty
<1>2. CASE S # {}
  BY <1>2, SumTake
<1>3. QED
  BY <1>1, <1>2

\* Only the values on the set count.
LEMMA SumSame ==
  ASSUME NEW f, NEW g, NEW S, IsFiniteSet(S),
         \A x \in S : f[x] \in Int /\ f[x] = g[x]
  PROVE  SumFunctionOnSet(f, S) = SumFunctionOnSet(g, S)
<1> DEFINE Bad == {T \in SUBSET S : SumFunctionOnSet(f, T) # SumFunctionOnSet(g, T)}
<1>1. SUFFICES ASSUME Bad # {} PROVE FALSE
  OBVIOUS
<1>2. PICK T \in Bad : \A U \in SUBSET T : U # T => U \notin Bad
  <2>1. Bad \subseteq SUBSET S
    OBVIOUS
  <2> HIDE DEF Bad
  <2>2. QED
    BY <1>1, <2>1, MinimalSubset
<1>3. CASE T = {}
  BY <1>2, <1>3, SumEmpty
<1>4. CASE T # {}
  <2> DEFINE y == Pick(T)
  <2>1. y \in T
    BY <1>4, PickInside
  <2>2. IsFiniteSet(T)
    BY FS_Subset
  <2> HIDE DEF y
  <2>3. SumFunctionOnSet(f, T \ {y}) = SumFunctionOnSet(g, T \ {y})
    BY <1>2, <2>1
  <2>4. SumFunctionOnSet(f, T) = f[y] + SumFunctionOnSet(f, T \ {y})
    BY <2>1, <2>2, SumPick DEF y
  <2>5. SumFunctionOnSet(g, T) = g[y] + SumFunctionOnSet(g, T \ {y})
    BY <2>1, <2>2, SumPick DEF y
  <2>6. f[y] = g[y]
    BY <2>1
  <2>7. QED
    BY <1>2, <2>3, <2>4, <2>5, <2>6
<1>5. QED
  BY <1>2, <1>3, <1>4

\* One more element adds its own value, whatever becomes of the function
\* outside the set.
LEMMA SumAdd ==
  ASSUME NEW f, NEW g, NEW S, IsFiniteSet(S), NEW e, e \notin S,
         \A x \in S : f[x] \in Int /\ g[x] = f[x], g[e] \in Int
  PROVE  SumFunctionOnSet(g, S \cup {e}) = SumFunctionOnSet(f, S) + g[e]
<1> DEFINE W == S \cup {e}
<1>1. e \in W /\ IsFiniteSet(W) /\ \A x \in W : g[x] \in Int
  BY FS_AddElement
<1>2. W \ {e} = S
  OBVIOUS
<1> HIDE DEF W
<1>3. SumFunctionOnSet(g, W) = g[e] + SumFunctionOnSet(g, W \ {e})
  BY <1>1, SumTake
<1>4. SumFunctionOnSet(g, W \ {e}) = SumFunctionOnSet(f, S)
  BY <1>2, SumSame
<1>5. SumFunctionOnSet(f, S) \in Int
  BY SumType
<1>6. SumFunctionOnSet(g, W) = SumFunctionOnSet(f, S) + g[e]
  BY <1>3, <1>4, <1>5
<1>7. QED
  BY <1>6 DEF W

\* The same for whole functions: g is f with one more argument.
LEMMA SumExtended ==
  ASSUME NEW f, NEW g, IsFiniteSet(DOMAIN f), NEW e, e \notin DOMAIN f,
         DOMAIN g = DOMAIN f \cup {e},
         \A x \in DOMAIN f : f[x] \in Int /\ g[x] = f[x], g[e] \in Int
  PROVE  SumFunction(g) = SumFunction(f) + g[e]
<1>1. SumFunctionOnSet(g, DOMAIN f \cup {e}) = SumFunctionOnSet(f, DOMAIN f) + g[e]
  BY SumAdd
<1>2. SumFunction(f) = SumFunctionOnSet(f, DOMAIN f)
  BY DEF SumFunction
<1>3. SumFunction(g) = SumFunctionOnSet(g, DOMAIN f \cup {e})
  BY Zenon DEF SumFunction
<1>4. QED
  BY <1>1, <1>2, <1>3

\* The same argument with another value.
LEMMA SumChanged ==
  ASSUME NEW f, NEW g, IsFiniteSet(DOMAIN f), DOMAIN g = DOMAIN f, NEW e \in DOMAIN f,
         \A x \in DOMAIN f : f[x] \in Int /\ g[x] \in Int,
         \A x \in DOMAIN f \ {e} : g[x] = f[x]
  PROVE  /\ SumFunction(f) \in Int
         /\ SumFunction(g) = SumFunction(f) + (g[e] - f[e])
<1> DEFINE S == DOMAIN f
           R == S \ {e}
<1>1. SumFunction(f) = SumFunctionOnSet(f, S) /\ SumFunction(g) = SumFunctionOnSet(g, S)
  BY Zenon DEF SumFunction
<1>2. IsFiniteSet(R)
  BY FS_RemoveElement
<1>3. SumFunctionOnSet(f, S) = f[e] + SumFunctionOnSet(f, R)
  BY SumTake
<1>4. SumFunctionOnSet(g, S) = g[e] + SumFunctionOnSet(g, R)
  BY SumTake
<1>5. SumFunctionOnSet(f, R) = SumFunctionOnSet(g, R) /\ SumFunctionOnSet(f, R) \in Int
  BY <1>2, SumSame, SumType
<1>6. f[e] \in Int /\ g[e] \in Int
  OBVIOUS
<1> HIDE DEF S, R
<1>7. QED
  BY <1>1, <1>3, <1>4, <1>5, <1>6

\* A value is added or replaced: the sum moves by the difference.
LEMMA SumPut ==
  ASSUME NEW f, IsFiniteSet(DOMAIN f), \A c \in DOMAIN f : f[c] \in Nat,
         NEW g, NEW b, DOMAIN g = DOMAIN f \cup {b},
         \A c \in DOMAIN f \ {b} : g[c] = f[c],
         NEW now \in Nat, now = g[b],
         NEW was \in Nat, was = IF b \in DOMAIN f THEN f[b] ELSE 0
  PROVE  /\ SumFunction(f) \in Int
         /\ SumFunction(g) = SumFunction(f) + (now - was)
<1>1. SumFunction(f) \in Int
  BY SumType DEF SumFunction
<1>2. /\ \A c \in DOMAIN f : f[c] \in Int /\ g[c] \in Int
      /\ g[b] \in Int
  OBVIOUS
<1>3. CASE b \in DOMAIN f
  <2>1. DOMAIN g = DOMAIN f
    BY <1>3
  <2>2. SumFunction(g) = SumFunction(f) + (g[b] - f[b])
    BY <1>2, <1>3, <2>1, SumChanged
  <2>3. QED
    BY <1>1, <1>3, <2>2
<1>4. CASE b \notin DOMAIN f
  <2>1. SumFunction(g) = SumFunction(f) + g[b]
    BY <1>2, <1>4, SumExtended
  <2>2. QED
    BY <1>1, <1>2, <1>4, <2>1
<1>5. QED
  BY <1>3, <1>4

-----------------------------------------------------------------------------
LEMMA LeastNumber ==
  ASSUME NEW B \in SUBSET Nat, B # {}
  PROVE  \E n \in B : \A m \in Nat : m < n => m \notin B
<1>1. PICK n \in B : \A m \in B : ~(<<m, n>> \in OpToRel(<, Nat))
  BY NatLessThanWellFounded, WFMin, Zenon
<1>2. ASSUME NEW m \in B, m < n PROVE FALSE
  BY <1>1, <1>2 DEF OpToRel
<1>3. QED
  BY <1>2

\* What N steps from q make, one after the other.
Histories(N, Q, q, step) ==
    {h \in [0..N -> Q] : h[0] = q /\ \A n \in 1..N : h[n] = step[<<h[n - 1], n>>]}

\* N steps can be taken one after the other.
LEMMA Iteration ==
  ASSUME NEW N \in Nat, NEW Q, NEW q \in Q, NEW step \in [Q \X (1..N) -> Q]
  PROVE  Histories(N, Q, q, step) # {}
<1> DEFINE Runs(h, k) == /\ h \in [0..k -> Q]
                         /\ h[0] = q
                         /\ \A n \in 1..k : h[n] = step[<<h[n - 1], n>>]
           Bad == {k \in 0..N : ~\E h : Runs(h, k)}
<1>1. SUFFICES ASSUME ~\E h : Runs(h, N) PROVE FALSE
  BY DEF Histories
<1>2. PICK k \in Bad : \A m \in Nat : m < k => m \notin Bad
  <2>1. Bad \in SUBSET Nat
    OBVIOUS
  <2>2. N \in Bad
    BY <1>1
  <2> HIDE DEF Bad
  <2>3. QED
    BY <2>1, <2>2, LeastNumber
<1>3. CASE k = 0
  <2>1. Runs([i \in 0..0 |-> q], 0)
    OBVIOUS
  <2>2. QED
    BY <1>2, <1>3, <2>1
<1>4. CASE k # 0
  <2>1. k - 1 \in Nat /\ k - 1 < k /\ k - 1 \in 0..N /\ k \in 1..N
    BY <1>2, <1>4
  <2>2. PICK h : Runs(h, k - 1)
    BY <1>2, <2>1
  <2> DEFINE g == [i \in 0..k |-> IF i = k THEN step[<<h[k - 1], k>>] ELSE h[i]]
  <2>3. h[k - 1] \in Q /\ step[<<h[k - 1], k>>] \in Q
    BY <2>1, <2>2
  <2>4. g \in [0..k -> Q]
    BY <2>1, <2>2, <2>3
  <2>5. g[0] = q
    BY <1>4, <2>1, <2>2
  <2>6. ASSUME NEW n \in 1..k PROVE g[n] = step[<<g[n - 1], n>>]
    <3>1. g[n - 1] = h[n - 1]
      BY <2>1
    <3>2. CASE n = k
      <4>1. g[n] = step[<<h[k - 1], k>>]
        BY <3>2
      <4> HIDE DEF g
      <4>2. QED
        BY <3>1, <3>2, <4>1
    <3>3. CASE n # k
      <4>1. n \in 1..(k - 1) /\ g[n] = h[n]
        BY <2>1, <3>3
      <4>2. QED
        BY <2>2, <3>1, <4>1
    <3>4. QED
      BY <3>2, <3>3
  <2>7. Runs(g, k)
    BY <2>4, <2>5, <2>6
  <2>8. QED
    BY <1>2, <2>7
<1>5. QED
  BY <1>3, <1>4
=============================================================================
