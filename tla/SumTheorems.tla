---------------------------- MODULE SumTheorems ------------------------------
(***************************************************************************)
(* Sums over finite sets: what the conservation and minimum balance proofs *)
(* use of SumFunctionOnSet and SumFunction.  The community modules define  *)
(* both by a function that recurses over subsets; here the summed function *)
(* is a value, so that the lemmas can be cited, and every induction is an  *)
(* argument about a smallest set for which the claim fails.                *)
(***************************************************************************)
EXTENDS Integers, Sequences, FiniteSetsExt, Functions, Folds, FiniteSetTheorems, WellFoundedInduction, TLAPS

-----------------------------------------------------------------------------
(* A sum is well defined.                                                  *)

\* Of a set of finite subsets of S that is not empty, some member has no
\* proper subset in it.
LEMMA SmallestSet ==
  ASSUME NEW S, IsFiniteSet(S), NEW Bad \in SUBSET (SUBSET S), Bad # {}
  PROVE  \E s \in Bad : \A t \in SUBSET s : t # s => t \notin Bad
<1> DEFINE R == StrictSubsetOrdering(S)
<1>1. IsWellFoundedOn(R, FiniteSubsetsOf(S))
  BY FS_StrictSubsetOrderingWellFounded
<1>2. Bad \subseteq FiniteSubsetsOf(S)
  BY FS_Subset DEF FiniteSubsetsOf
<1>3. \A s, t \in SUBSET S : t \subseteq s /\ t # s => <<t, s>> \in R
  BY DEF StrictSubsetOrdering
<1> HIDE DEF R
<1>4. PICK s \in Bad : \A t \in Bad : ~ (<<t, s>> \in R)
  BY <1>1, <1>2, WFMin
<1>5. ASSUME NEW t \in SUBSET s, t # s, t \in Bad PROVE FALSE
  BY <1>3, <1>4, <1>5
<1> QED BY <1>5

\* A finite set of numbers has a largest.
LEMMA MaxIsMember ==
  ASSUME NEW S \in SUBSET Int, IsFiniteSet(S), S # {}
  PROVE  Max(S) \in S /\ \A y \in S : Max(S) >= y
<1> DEFINE Bad == {s \in SUBSET S : s # {} /\ ~ \E x \in s : \A y \in s : x >= y}
<1>1. Bad = {}
  <2> SUFFICES ASSUME Bad # {} PROVE FALSE
    OBVIOUS
  <2>1. PICK s \in Bad : \A t \in SUBSET s : t # s => t \notin Bad
    <3>1. Bad \in SUBSET (SUBSET S)
      OBVIOUS
    <3> HIDE DEF Bad
    <3> QED BY <3>1, SmallestSet
  <2>2. PICK z \in s : TRUE
    OBVIOUS
  <2> DEFINE t == s \ {z}
  <2>3. CASE t = {}
    <3>1. \A y \in s : y = z
      BY <2>3
    <3> QED BY <3>1
  <2>4. CASE t # {}
    <3>1. PICK x \in t : \A y \in t : x >= y
      BY <2>1, <2>4
    <3>2. \A y \in s : y \in t \/ y = z
      OBVIOUS
    <3>3. x \in Int /\ z \in Int /\ t \subseteq Int
      OBVIOUS
    <3> HIDE DEF t
    <3>4. x \in s
      BY <3>1 DEF t
    <3>5. CASE x >= z
      BY <3>1, <3>2, <3>4, <3>5
    <3>6. CASE z >= x
      BY <3>1, <3>2, <3>3, <3>6
    <3> QED BY <3>3, <3>5, <3>6
  <2> QED BY <2>3, <2>4
<1>2. \E x \in S : \A y \in S : x >= y
  BY <1>1
<1> QED BY <1>2 DEF Max

Pick(s) == CHOOSE x \in s : TRUE

\* g adds up f over every subset of S, as the definition of a fold does.
Adds(f, S, g) ==
  g = [s \in SUBSET S |-> IF s = {} THEN 0 ELSE f[Pick(s)] + g[s \ {Pick(s)}]]

LEMMA PickIsMember ==
  ASSUME NEW s, s # {}
  PROVE  Pick(s) \in s
  BY DEF Pick

LEMMA AddsValue ==
  ASSUME NEW f, NEW S, NEW g, Adds(f, S, g), NEW s \in SUBSET S
  PROVE  g[s] = IF s = {} THEN 0 ELSE f[Pick(s)] + g[s \ {Pick(s)}]
<1> DEFINE h == [u \in SUBSET S |-> IF u = {} THEN 0 ELSE f[Pick(u)] + g[u \ {Pick(u)}]]
<1>1. g = h
  BY DEF Adds
<1>2. h[s] = IF s = {} THEN 0 ELSE f[Pick(s)] + g[s \ {Pick(s)}]
  OBVIOUS
<1> HIDE DEF h
<1> QED BY <1>1, <1>2

\* Two such functions agree where both are defined.
LEMMA AddsAgree ==
  ASSUME NEW f, NEW S, IsFiniteSet(S), NEW T, NEW g, Adds(f, S, g),
         NEW h, Adds(f, T, h), NEW u \in SUBSET S, u \in SUBSET T
  PROVE  g[u] = h[u]
<1> DEFINE Bad == {s \in SUBSET S : s \in SUBSET T /\ g[s] # h[s]}
<1> SUFFICES ASSUME Bad # {} PROVE FALSE
  OBVIOUS
<1>1. PICK s \in Bad : \A t \in SUBSET s : t # s => t \notin Bad
  <2> HIDE DEF Bad
  <2>1. Bad \in SUBSET (SUBSET S)
    BY DEF Bad
  <2> QED BY <2>1, SmallestSet
<1>2. s \in SUBSET S /\ s \in SUBSET T /\ g[s] # h[s]
  OBVIOUS
<1>3. CASE s = {}
  BY <1>2, <1>3, AddsValue
<1>4. CASE s # {}
  <2> DEFINE p == Pick(s)  t == s \ {p}
  <2>1. p \in s
    BY <1>4, PickIsMember
  <2>2. t \in SUBSET s /\ t # s
    BY <2>1
  <2>3. t \in SUBSET S /\ t \in SUBSET T
    BY <1>2
  <2>4. g[t] = h[t]
    BY <1>1, <2>2, <2>3
  <2>5. g[s] = f[p] + g[t]
    BY <1>2, <1>4, AddsValue
  <2>6. h[s] = f[p] + h[t]
    BY <1>2, <1>4, AddsValue
  <2> QED BY <1>2, <2>4, <2>5, <2>6
<1> QED BY <1>3, <1>4

LEMMA AddsExists ==
  ASSUME NEW f, NEW S, IsFiniteSet(S)
  PROVE  \E g : Adds(f, S, g)
<1> DEFINE Bad == {s \in SUBSET S : ~ \E g : Adds(f, s, g)}
<1>1. SUFFICES ASSUME Bad # {} PROVE FALSE
  BY DEF Bad
<1>2. PICK s \in Bad : \A t \in SUBSET s : t # s => t \notin Bad
  <2>1. Bad \in SUBSET (SUBSET S)
    OBVIOUS
  <2> HIDE DEF Bad
  <2> QED BY <1>1, <2>1, SmallestSet
<1>3. s \in SUBSET S /\ ~ \E g : Adds(f, s, g)
  OBVIOUS
<1>4. \A t \in SUBSET s : t # s => \E g : Adds(f, t, g)
  BY <1>2, <1>3
<1> DEFINE A(t) == CHOOSE g : Adds(f, t, g)
           h == [u \in SUBSET s |-> IF u = {} THEN 0
                                    ELSE f[Pick(u)] + A(u \ {Pick(u)})[u \ {Pick(u)}]]
<1>5. \A t \in SUBSET s : t # s => Adds(f, t, A(t))
  BY <1>4
<1>6. \A t \in SUBSET s : IsFiniteSet(t)
  BY <1>3, FS_Subset
<1> HIDE DEF A
<1>7. \A u \in SUBSET s : u # s => h[u] = A(u)[u]
  <2> SUFFICES ASSUME NEW u \in SUBSET s, u # s PROVE h[u] = A(u)[u]
    OBVIOUS
  <2>1. A(u)[u] = IF u = {} THEN 0 ELSE f[Pick(u)] + A(u)[u \ {Pick(u)}]
    BY <1>5, AddsValue
  <2>2. CASE u = {}
    BY <2>1, <2>2
  <2>3. CASE u # {}
    <3> DEFINE t == u \ {Pick(u)}
    <3>1. Pick(u) \in u
      BY <2>3, PickIsMember
    <3>2. t \in SUBSET s /\ t # s /\ t \in SUBSET u
      BY <3>1
    <3>3. Adds(f, t, A(t)) /\ Adds(f, u, A(u))
      BY <1>5, <3>2
    <3>4. A(t)[t] = A(u)[t]
      <4> HIDE DEF t
      <4> QED BY <3>2, <3>3, <1>6, AddsAgree
    <3>5. h[u] = f[Pick(u)] + A(t)[t]
      BY <2>3
    <3> QED BY <2>1, <2>3, <3>4, <3>5
  <2> QED BY <2>2, <2>3
<1>8. h = [u \in SUBSET s |-> IF u = {} THEN 0 ELSE f[Pick(u)] + h[u \ {Pick(u)}]]
  <2>1. \A u \in SUBSET s : u # {} => A(u \ {Pick(u)})[u \ {Pick(u)}] = h[u \ {Pick(u)}]
    <3> SUFFICES ASSUME NEW u \in SUBSET s, u # {}
                 PROVE  A(u \ {Pick(u)})[u \ {Pick(u)}] = h[u \ {Pick(u)}]
      OBVIOUS
    <3>1. Pick(u) \in u
      BY PickIsMember
    <3>2. u \ {Pick(u)} \in SUBSET s /\ u \ {Pick(u)} # s
      BY <3>1
    <3> HIDE DEF h
    <3> QED BY <3>2, <1>7
  <2> QED BY <2>1
<1>9. Adds(f, s, h)
  <2> HIDE DEF h
  <2> QED BY <1>8 DEF Adds
<1> QED BY <1>3, <1>9

\* A sum over a finite set: 0, or a member's value and the sum over the rest.
LEMMA SumUnfold ==
  ASSUME NEW f, NEW S, IsFiniteSet(S)
  PROVE  SumFunctionOnSet(f, S) =
           IF S = {} THEN 0 ELSE f[Pick(S)] + SumFunctionOnSet(f, S \ {Pick(S)})
<1> DEFINE G(T) == CHOOSE g : Adds(f, T, g)
<1>1. \A T : SumFunctionOnSet(f, T) = G(T)[T]
  BY DEF SumFunctionOnSet, FoldFunctionOnSet, MapThenFoldSet, Adds, Pick
<1>2. \A T \in SUBSET S : IsFiniteSet(T) /\ Adds(f, T, G(T))
  BY FS_Subset, AddsExists
<1> HIDE DEF G
<1>3. G(S)[S] = IF S = {} THEN 0 ELSE f[Pick(S)] + G(S)[S \ {Pick(S)}]
  BY <1>2, AddsValue
<1> DEFINE T == S \ {Pick(S)}
<1>4. G(S)[T] = G(T)[T]
  <2>1. T \in SUBSET S
    OBVIOUS
  <2> HIDE DEF T
  <2>2. Adds(f, S, G(S)) /\ Adds(f, T, G(T)) /\ T \in SUBSET T
    BY <1>2, <2>1
  <2> QED BY <2>1, <2>2, AddsAgree
<1> QED BY <1>1, <1>3, <1>4

-----------------------------------------------------------------------------
(* What a sum is worth.                                                    *)

LEMMA SumEmpty ==
  ASSUME NEW f
  PROVE  SumFunctionOnSet(f, {}) = 0
  BY SumUnfold, FS_EmptySet

LEMMA SumType ==
  ASSUME NEW f, NEW S, IsFiniteSet(S), \A x \in S : f[x] \in Int
  PROVE  SumFunctionOnSet(f, S) \in Int
<1> DEFINE Sum(s) == SumFunctionOnSet(f, s)
           Bad == {s \in SUBSET S : Sum(s) \notin Int}
<1>1. SUFFICES ASSUME Bad # {} PROVE FALSE
  OBVIOUS
<1>2. PICK s \in Bad : \A t \in SUBSET s : t # s => t \notin Bad
  <2>1. Bad \in SUBSET (SUBSET S)
    OBVIOUS
  <2> HIDE DEF Bad
  <2> QED BY <1>1, <2>1, SmallestSet
<1>3. s \in SUBSET S /\ Sum(s) \notin Int /\ IsFiniteSet(s)
  BY FS_Subset
<1>4. \A t \in SUBSET s : t # s => Sum(t) \in Int
  BY <1>2, <1>3
<1>5. Sum(s) = IF s = {} THEN 0 ELSE f[Pick(s)] + Sum(s \ {Pick(s)})
  BY <1>3, SumUnfold
<1> HIDE DEF Sum
<1>6. s # {} /\ Pick(s) \in s
  BY <1>3, <1>5, PickIsMember
<1>7. f[Pick(s)] \in Int /\ Sum(s \ {Pick(s)}) \in Int
  BY <1>3, <1>4, <1>6
<1> QED BY <1>3, <1>5, <1>6, <1>7

\* The order of the additions does not matter: any member can be the first.
LEMMA SumRemove ==
  ASSUME NEW f, NEW S, IsFiniteSet(S), \A x \in S : f[x] \in Int, NEW x \in S
  PROVE  SumFunctionOnSet(f, S) = f[x] + SumFunctionOnSet(f, S \ {x})
<1> DEFINE Sum(s) == SumFunctionOnSet(f, s)
           Bad == {s \in SUBSET S : \E y \in s : Sum(s) # f[y] + Sum(s \ {y})}
<1>1. SUFFICES ASSUME Bad # {} PROVE FALSE
  OBVIOUS
<1>2. PICK s \in Bad : \A t \in SUBSET s : t # s => t \notin Bad
  <2>1. Bad \in SUBSET (SUBSET S)
    OBVIOUS
  <2> HIDE DEF Bad
  <2> QED BY <1>1, <2>1, SmallestSet
<1>3. PICK y \in s : Sum(s) # f[y] + Sum(s \ {y})
  OBVIOUS
<1>4. \A t \in SUBSET s : t # s => \A z \in t : Sum(t) = f[z] + Sum(t \ {z})
  BY <1>2
<1>5. \A t \in SUBSET s : IsFiniteSet(t) /\ \A z \in t : f[z] \in Int
  BY FS_Subset
<1>6. \A t \in SUBSET s : Sum(t) \in Int
  BY <1>5, SumType
<1> DEFINE p == Pick(s)
<1>7. p \in s
  BY <1>3, PickIsMember
<1>8. Sum(s) = f[p] + Sum(s \ {p})
  BY <1>5, <1>7, SumUnfold
<1> HIDE DEF Sum, Bad, p
<1>9. y # p
  BY <1>3, <1>8
<1>10. Sum(s \ {p}) = f[y] + Sum((s \ {p}) \ {y})
  BY <1>4, <1>7, <1>9
<1>11. Sum(s \ {y}) = f[p] + Sum((s \ {y}) \ {p})
  BY <1>4, <1>7, <1>9
<1> DEFINE w == Sum((s \ {y}) \ {p})
<1>12. (s \ {p}) \ {y} = (s \ {y}) \ {p}
  OBVIOUS
<1>13. f[y] \in Int /\ f[p] \in Int /\ w \in Int
  BY <1>5, <1>6, <1>7
<1>14. Sum(s \ {p}) = f[y] + w /\ Sum(s \ {y}) = f[p] + w
  BY <1>10, <1>11, <1>12
<1> HIDE DEF w
<1>15. Sum(s) = f[y] + Sum(s \ {y})
  BY <1>8, <1>13, <1>14
<1> QED BY <1>3, <1>15

\* A new member adds its value.
LEMMA SumAdd ==
  ASSUME NEW f, NEW S, IsFiniteSet(S), NEW x, x \notin S, \A y \in S \cup {x} : f[y] \in Int
  PROVE  SumFunctionOnSet(f, S \cup {x}) = f[x] + SumFunctionOnSet(f, S)
<1>1. IsFiniteSet(S \cup {x}) /\ (S \cup {x}) \ {x} = S
  BY FS_AddElement
<1> QED BY <1>1, SumRemove

\* Only the values on the set matter.
LEMMA SumAgree ==
  ASSUME NEW f, NEW g, NEW S, IsFiniteSet(S), \A x \in S : f[x] = g[x]
  PROVE  SumFunctionOnSet(f, S) = SumFunctionOnSet(g, S)
<1> DEFINE F(s) == SumFunctionOnSet(f, s)
           G(s) == SumFunctionOnSet(g, s)
           Bad == {s \in SUBSET S : F(s) # G(s)}
<1>1. SUFFICES ASSUME Bad # {} PROVE FALSE
  OBVIOUS
<1>2. PICK s \in Bad : \A t \in SUBSET s : t # s => t \notin Bad
  <2>1. Bad \in SUBSET (SUBSET S)
    OBVIOUS
  <2> HIDE DEF Bad
  <2> QED BY <1>1, <2>1, SmallestSet
<1>3. s \in SUBSET S /\ F(s) # G(s) /\ IsFiniteSet(s)
  BY FS_Subset
<1>4. \A t \in SUBSET s : t # s => F(t) = G(t)
  BY <1>2, <1>3
<1>5. F(s) = IF s = {} THEN 0 ELSE f[Pick(s)] + F(s \ {Pick(s)})
  BY <1>3, SumUnfold
<1>6. G(s) = IF s = {} THEN 0 ELSE g[Pick(s)] + G(s \ {Pick(s)})
  BY <1>3, SumUnfold
<1> HIDE DEF F, G
<1>7. s # {} /\ Pick(s) \in s
  BY <1>3, <1>5, <1>6, PickIsMember
<1>8. f[Pick(s)] = g[Pick(s)] /\ F(s \ {Pick(s)}) = G(s \ {Pick(s)})
  BY <1>3, <1>4, <1>7
<1> QED BY <1>3, <1>5, <1>6, <1>7, <1>8

\* Changing the value of one member changes the sum by the difference.
LEMMA SumChange ==
  ASSUME NEW f, NEW g, NEW S, IsFiniteSet(S), NEW x \in S,
         \A y \in S : f[y] \in Int /\ g[y] \in Int,
         \A y \in S : y # x => g[y] = f[y]
  PROVE  SumFunctionOnSet(g, S) = SumFunctionOnSet(f, S) - f[x] + g[x]
<1> DEFINE T == S \ {x}
<1>1. IsFiniteSet(T) /\ \A y \in T : f[y] \in Int /\ g[y] = f[y]
  BY FS_RemoveElement
<1>2. SumFunctionOnSet(f, S) = f[x] + SumFunctionOnSet(f, T)
  BY SumRemove
<1>3. SumFunctionOnSet(g, S) = g[x] + SumFunctionOnSet(g, T)
  BY SumRemove
<1> HIDE DEF T
<1>4. SumFunctionOnSet(f, T) \in Int
  BY <1>1, SumType
<1>5. SumFunctionOnSet(g, T) = SumFunctionOnSet(f, T)
  BY <1>1, SumAgree
<1> QED BY <1>2, <1>3, <1>4, <1>5

LEMMA SumZero ==
  ASSUME NEW f, NEW S, IsFiniteSet(S), \A x \in S : f[x] = 0
  PROVE  SumFunctionOnSet(f, S) = 0
<1> DEFINE Bad == {s \in SUBSET S : SumFunctionOnSet(f, s) # 0}
<1>1. SUFFICES ASSUME Bad # {} PROVE FALSE
  OBVIOUS
<1>2. PICK s \in Bad : \A t \in SUBSET s : t # s => t \notin Bad
  <2>1. Bad \in SUBSET (SUBSET S)
    OBVIOUS
  <2> HIDE DEF Bad
  <2> QED BY <1>1, <2>1, SmallestSet
<1>3. s \in SUBSET S /\ SumFunctionOnSet(f, s) # 0 /\ IsFiniteSet(s)
  BY FS_Subset
<1>4. s # {}
  BY <1>3, SumEmpty
<1>5. Pick(s) \in s /\ f[Pick(s)] = 0
  BY <1>3, <1>4, PickIsMember
<1>6. SumFunctionOnSet(f, s \ {Pick(s)}) = 0
  BY <1>2, <1>3, <1>5
<1>7. SumFunctionOnSet(f, s) = f[Pick(s)] + SumFunctionOnSet(f, s \ {Pick(s)})
  BY <1>3, <1>4, SumUnfold
<1> QED BY <1>3, <1>5, <1>6, <1>7

\* A sum of numbers that are not negative is not negative.
LEMMA SumNat ==
  ASSUME NEW f, NEW S, IsFiniteSet(S), \A x \in S : f[x] \in Nat
  PROVE  SumFunctionOnSet(f, S) \in Nat
<1> DEFINE Sum(s) == SumFunctionOnSet(f, s)
           Bad == {s \in SUBSET S : Sum(s) \notin Nat}
<1>1. SUFFICES ASSUME Bad # {} PROVE FALSE
  OBVIOUS
<1>2. PICK s \in Bad : \A t \in SUBSET s : t # s => t \notin Bad
  <2>1. Bad \in SUBSET (SUBSET S)
    OBVIOUS
  <2> HIDE DEF Bad
  <2> QED BY <1>1, <2>1, SmallestSet
<1>3. s \in SUBSET S /\ Sum(s) \notin Nat /\ IsFiniteSet(s)
  BY FS_Subset
<1>4. \A t \in SUBSET s : t # s => Sum(t) \in Nat
  BY <1>2, <1>3
<1>5. Sum(s) = IF s = {} THEN 0 ELSE f[Pick(s)] + Sum(s \ {Pick(s)})
  BY <1>3, SumUnfold
<1> HIDE DEF Sum
<1>6. s # {} /\ Pick(s) \in s
  BY <1>3, <1>5, PickIsMember
<1>7. f[Pick(s)] \in Nat /\ Sum(s \ {Pick(s)}) \in Nat
  BY <1>3, <1>4, <1>6
<1> QED BY <1>3, <1>5, <1>6, <1>7

-----------------------------------------------------------------------------
(* Sums along a sequence of numbers.                                       *)

LEMMA LeastNumber ==
  ASSUME NEW T \in SUBSET Nat, T # {}
  PROVE  \E x \in T : \A y \in T : x <= y
<1> DEFINE R == OpToRel(<, Nat)
<1>1. IsWellFoundedOn(R, Nat)
  BY NatLessThanWellFounded
<1>2. \A x, y \in Nat : <<y, x>> \in R <=> y < x
  BY DEF OpToRel
<1> HIDE DEF R
<1>3. PICK x \in T : \A y \in T : ~ (<<y, x>> \in R)
  BY <1>1, WFMin
<1>4. ASSUME NEW y \in T PROVE x <= y
  <2>1. x \in Nat /\ y \in Nat
    OBVIOUS
  <2>2. ~ (y < x)
    BY <1>2, <1>3, <2>1, Zenon
  <2> QED BY <2>1, <2>2
<1> QED BY <1>4

\* Renaming the indices 1..n as 2..n+1 leaves the sum as it is.
LEMMA SumShift ==
  ASSUME NEW f, NEW g, NEW n \in Nat, \A i \in 1 .. n : g[i] \in Int /\ f[i + 1] = g[i]
  PROVE  SumFunctionOnSet(f, 2 .. n + 1) = SumFunctionOnSet(g, 1 .. n)
<1> DEFINE F(m) == SumFunctionOnSet(f, 2 .. m + 1)
           G(m) == SumFunctionOnSet(g, 1 .. m)
           Bad == {m \in 0 .. n : F(m) # G(m)}
<1>1. SUFFICES ASSUME Bad # {} PROVE FALSE
  OBVIOUS
<1>2. PICK m \in Bad : \A k \in Bad : m <= k
  <2>1. Bad \in SUBSET Nat
    OBVIOUS
  <2> HIDE DEF Bad
  <2> QED BY <1>1, <2>1, LeastNumber
<1>3. m \in 0 .. n /\ F(m) # G(m)
  OBVIOUS
<1>4. \A k \in 0 .. n : k < m => F(k) = G(k)
  BY <1>2, <1>3
<1> HIDE DEF Bad
<1>5. CASE m = 0
  <2>1. 2 .. m + 1 = {} /\ 1 .. m = {}
    BY <1>5
  <2> QED BY <1>3, <2>1, SumEmpty
<1>6. CASE m # 0
  <2> DEFINE k == m - 1  A == 2 .. m  B == 1 .. k
  <2>1. k \in 0 .. n /\ k < m /\ k + 1 = m /\ m \in 1 .. n
    BY <1>3, <1>6
  <2>2. IsFiniteSet(A) /\ IsFiniteSet(B)
    BY <1>3, FS_Interval
  <2>3. 2 .. m + 1 = A \cup {m + 1} /\ m + 1 \notin A /\ 1 .. m = B \cup {m} /\ m \notin B
    BY <2>1
  <2>4. \A j \in A \cup {m + 1} : f[j] \in Int
    <3> SUFFICES ASSUME NEW j \in A \cup {m + 1} PROVE f[j] \in Int
      OBVIOUS
    <3>1. j - 1 \in 1 .. n /\ (j - 1) + 1 = j
      BY <2>1
    <3> QED BY <3>1
  <2>5. \A j \in B \cup {m} : g[j] \in Int
    BY <2>1
  <2>6. f[m + 1] = g[m]
    BY <2>1
  <2> HIDE DEF A, B
  <2>7. SumFunctionOnSet(f, A \cup {m + 1}) = f[m + 1] + SumFunctionOnSet(f, A)
    BY <2>2, <2>3, <2>4, SumAdd
  <2>8. SumFunctionOnSet(g, B \cup {m}) = g[m] + SumFunctionOnSet(g, B)
    BY <2>2, <2>3, <2>5, SumAdd
  <2>9. SumFunctionOnSet(f, A) = SumFunctionOnSet(g, B)
    <3>1. F(k) = G(k)
      BY <1>4, <2>1
    <3> QED BY <2>1, <3>1 DEF A, B
  <2> QED BY <1>3, <2>3, <2>6, <2>7, <2>8, <2>9
<1> QED BY <1>5, <1>6

\* The sum over a sequence of one more number.
LEMMA SumCons ==
  ASSUME NEW s \in Seq(Int), s # << >>
  PROVE  SumFunction(s) = Head(s) + SumFunction(Tail(s))
<1> DEFINE n == Len(s) - 1  t == Tail(s)  A == 2 .. n + 1
<1>1. n \in Nat /\ Len(s) = n + 1 /\ DOMAIN s = 1 .. n + 1 /\ DOMAIN t = 1 .. n
  OBVIOUS
<1>2. \A i \in 1 .. n : t[i] \in Int /\ s[i + 1] = t[i]
  BY <1>1
<1>3. 1 .. n + 1 = A \cup {1} /\ 1 \notin A /\ IsFiniteSet(A)
  <2>1. 1 .. n + 1 = A \cup {1} /\ 1 \notin A
    BY <1>1
  <2>2. IsFiniteSet(A)
    BY <1>1, FS_Interval
  <2> QED BY <2>1, <2>2
<1>4. \A i \in A \cup {1} : s[i] \in Int
  BY <1>1, <1>3
<1> HIDE DEF n, t, A
<1>5. SumFunctionOnSet(s, A \cup {1}) = s[1] + SumFunctionOnSet(s, A)
  BY <1>3, <1>4, SumAdd
<1>6. SumFunctionOnSet(s, A) = SumFunctionOnSet(t, 1 .. n)
  BY <1>1, <1>2, SumShift DEF A
<1>7. SumFunction(s) = SumFunctionOnSet(s, A \cup {1})
  BY <1>1, <1>3 DEF SumFunction
<1>8. SumFunction(t) = SumFunctionOnSet(t, 1 .. n)
  BY <1>1 DEF SumFunction
<1> QED BY <1>5, <1>6, <1>7, <1>8 DEF t

LEMMA SumNil ==
  SumFunction(<< >>) = 0
  BY SumEmpty DEF SumFunction

\* A function whose sum is taken gains a value, or loses one, or stays the same.
LEMMA SumGrows ==
  ASSUME NEW f, NEW g, IsFiniteSet(DOMAIN f), NEW x, x \notin DOMAIN f,
         DOMAIN g = DOMAIN f \cup {x}, g[x] \in Int,
         \A y \in DOMAIN f : f[y] \in Int /\ g[y] = f[y]
  PROVE  SumFunction(g) = SumFunction(f) + g[x] /\ SumFunction(f) \in Int
<1> DEFINE S == DOMAIN f
<1>1. SumFunctionOnSet(g, S) = SumFunctionOnSet(f, S)
  BY SumAgree
<1>2. SumFunctionOnSet(g, S \cup {x}) = g[x] + SumFunctionOnSet(g, S)
  BY SumAdd
<1>3. SumFunctionOnSet(f, S) \in Int
  BY SumType
<1> QED BY <1>1, <1>2, <1>3 DEF SumFunction

LEMMA SumShrinks ==
  ASSUME NEW f, NEW g, IsFiniteSet(DOMAIN f), NEW x \in DOMAIN f,
         DOMAIN g = DOMAIN f \ {x}, \A y \in DOMAIN f : f[y] \in Int,
         \A y \in DOMAIN g : g[y] = f[y]
  PROVE  SumFunction(g) = SumFunction(f) - f[x] /\ SumFunction(f) \in Int
<1> DEFINE S == DOMAIN f \ {x}
<1>1. IsFiniteSet(S)
  BY FS_Subset
<1>2. SumFunctionOnSet(g, S) = SumFunctionOnSet(f, S)
  BY <1>1, SumAgree
<1>3. SumFunctionOnSet(f, DOMAIN f) = f[x] + SumFunctionOnSet(f, S)
  BY SumRemove
<1>4. SumFunctionOnSet(f, S) \in Int
  BY <1>1, SumType
<1> HIDE DEF S
<1>5. SumFunctionOnSet(f, DOMAIN f) - f[x] = SumFunctionOnSet(f, S)
      /\ SumFunctionOnSet(f, DOMAIN f) \in Int
  BY <1>3, <1>4
<1> QED BY <1>2, <1>5 DEF SumFunction, S

LEMMA SumSame ==
  ASSUME NEW f, NEW g, IsFiniteSet(DOMAIN f), DOMAIN g = DOMAIN f,
         \A y \in DOMAIN f : g[y] = f[y]
  PROVE  SumFunction(g) = SumFunction(f)
BY SumAgree DEF SumFunction

=============================================================================
