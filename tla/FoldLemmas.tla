------------------------------ MODULE FoldLemmas -----------------------------
(***************************************************************************)
(* Induction over data, for the sums and the log queues of the other       *)
(* modules.  The induction theorems of the library take an operator as a   *)
(* parameter; here the same is said of a set, as a consequence of WFMin.   *)
(***************************************************************************)
EXTENDS Functions, Sequences, FiniteSetTheorems, WellFoundedInduction, TLAPS


\* The element a sum over s takes first.
Pick(s) == CHOOSE x \in s : TRUE

\* The recursion that SumFunction is defined by.
Partial(f, S) ==
  CHOOSE g : g = [s \in SUBSET S |-> IF s = {} THEN 0 ELSE f[Pick(s)] + g[s \ {Pick(s)}]]

\* A sum is the last of the partial sums.
LEMMA SumIsPartial ==
  ASSUME NEW f
  PROVE  SumFunction(f) = Partial(f, DOMAIN f)[DOMAIN f]
BY DEF SumFunction, SumFunctionOnSet, FoldFunctionOnSet, MapThenFoldSet, Partial, Pick

\* Induction on the naturals, for a set.
LEMMA NatStep ==
  ASSUME NEW T, 0 \in T, \A n \in Nat : n \in T => n + 1 \in T
  PROVE  Nat \subseteq T
<1> DEFINE B == Nat \ T
<1>1. SUFFICES ASSUME B # {} PROVE FALSE
  OBVIOUS
<1> DEFINE Less == {p \in Nat \X Nat : p[1] < p[2]}
<1>2. IsWellFoundedOn(Less, Nat)
  <2>1. OpToRel(<, Nat) = Less
    BY DEF OpToRel
  <2> QED
    BY <2>1, NatLessThanWellFounded
<1>3. PICK n \in B : \A m \in B : <<m, n>> \notin Less
  <2> HIDE DEF Less
  <2>1. B \subseteq Nat
    OBVIOUS
  <2> QED
    BY <1>1, <1>2, <2>1, WFMin
<1>4. n # 0 /\ n - 1 \in Nat
  OBVIOUS
<1>5. <<n - 1, n>> \in Less
  BY <1>4
<1> QED
  BY <1>3, <1>4, <1>5

\* Induction on the subsets of a finite set, in the order a sum takes them.
LEMMA SubsetStep ==
  ASSUME NEW S, IsFiniteSet(S), NEW T, {} \in T,
         \A s \in SUBSET S : s # {} /\ s \ {Pick(s)} \in T => s \in T
  PROVE  SUBSET S \subseteq T
<1> DEFINE N == {n \in Nat : \A s \in SUBSET S : Cardinality(s) = n => s \in T}
<1>1. ASSUME NEW s \in SUBSET S PROVE IsFiniteSet(s) /\ Cardinality(s) \in Nat
  BY FS_Subset, FS_CardinalityType
<1>2. 0 \in N
  BY <1>1, FS_EmptySet
<1>3. ASSUME NEW n \in Nat, n \in N PROVE n + 1 \in N
  <2> SUFFICES ASSUME NEW s \in SUBSET S, Cardinality(s) = n + 1 PROVE s \in T
    OBVIOUS
  <2>1. s # {}
    BY FS_EmptySet
  <2>2. Pick(s) \in s
    BY <2>1 DEF Pick
  <2>3. Cardinality(s \ {Pick(s)}) = n
    BY <1>1, <2>2, FS_RemoveElement
  <2> QED
    BY <1>3, <2>1, <2>3
<1>4. Nat \subseteq N
  <2> HIDE DEF N
  <2> QED BY <1>2, <1>3, NatStep
<1> QED
  BY <1>1, <1>4

\* F gives every subset of S its sum of f.
Sums(F, f, S) ==
  /\ F[{}] = 0
  /\ \A s \in SUBSET S : s # {} => F[s] = f[Pick(s)] + F[s \ {Pick(s)}]

\* The recursion has a solution, so the sums over S satisfy it.
LEMMA PartialSums ==
  ASSUME NEW f, NEW S, IsFiniteSet(S)
  PROVE  Sums(Partial(f, S), f, S)
<1> DEFINE Small(n) == {s \in SUBSET S : Cardinality(s) <= n}
           Solves(g, n) == g = [s \in Small(n) |->
                                  IF s = {} THEN 0 ELSE f[Pick(s)] + g[s \ {Pick(s)}]]
           N == {n \in Nat : \E g : Solves(g, n)}
<1>1. ASSUME NEW s \in SUBSET S, s # {}
      PROVE  /\ Pick(s) \in s /\ s \ {Pick(s)} \in SUBSET S
             /\ Cardinality(s) \in Nat
             /\ Cardinality(s \ {Pick(s)}) = Cardinality(s) - 1
  <2>1. Pick(s) \in s
    BY <1>1 DEF Pick
  <2> QED
    BY <2>1, FS_Subset, FS_CardinalityType, FS_RemoveElement
<1>2. 0 \in N
  <2>1. ASSUME NEW s \in Small(0) PROVE s = {}
    BY <2>1, FS_Subset, FS_CardinalityType, FS_EmptySet
  <2>2. Solves([s \in Small(0) |-> 0], 0)
    BY <2>1
  <2> QED
    BY <2>2
<1>3. ASSUME NEW n \in Nat, n \in N PROVE n + 1 \in N
  <2>1. PICK g : Solves(g, n)
    BY <1>3
  <2> DEFINE h == [s \in Small(n + 1) |->
                     IF s \in Small(n) THEN g[s] ELSE f[Pick(s)] + g[s \ {Pick(s)}]]
  <2>2. ASSUME NEW s \in Small(n + 1)
        PROVE  h[s] = IF s = {} THEN 0 ELSE f[Pick(s)] + h[s \ {Pick(s)}]
    <3>1. CASE s = {}
      <4>1. s \in Small(n)
        BY <3>1, FS_EmptySet
      <4> QED
        BY <2>1, <3>1, <4>1
    <3>2. CASE s # {}
      <4>1. s \ {Pick(s)} \in Small(n) /\ s \ {Pick(s)} \in Small(n + 1)
        BY <1>1, <3>2
      <4>2. h[s \ {Pick(s)}] = g[s \ {Pick(s)}]
        BY <4>1
      <4>3. s \in Small(n) => g[s] = f[Pick(s)] + g[s \ {Pick(s)}]
        BY <2>1, <3>2
      <4> QED
        BY <3>2, <4>2, <4>3
    <3> QED
      BY <3>1, <3>2
  <2>3. Solves(h, n + 1)
    BY <2>2
  <2>4. \E k : Solves(k, n + 1)
    <3> HIDE DEF h, Solves
    <3> QED
      BY <2>3
  <2> HIDE DEF Solves
  <2> QED
    BY <2>4
<1>4. Cardinality(S) \in N
  <2> HIDE DEF N
  <2> QED
    BY <1>2, <1>3, NatStep, FS_CardinalityType
<1>5. Small(Cardinality(S)) = SUBSET S
  BY FS_Subset, FS_CardinalityType
<1>6. PICK g : g = [s \in SUBSET S |-> IF s = {} THEN 0 ELSE f[Pick(s)] + g[s \ {Pick(s)}]]
  BY <1>4, <1>5
<1>7. PICK F : F = Partial(f, S)
  OBVIOUS
<1>8. F = [s \in SUBSET S |-> IF s = {} THEN 0 ELSE f[Pick(s)] + F[s \ {Pick(s)}]]
  BY <1>6, <1>7 DEF Partial
<1>9. Sums(F, f, S)
  BY <1>8 DEF Sums
<1> QED
  BY <1>7, <1>9

\* What is left of a set when its first element is taken.
LEMMA PickRemoves ==
  ASSUME NEW S, NEW s \in SUBSET S, s # {}
  PROVE  Pick(s) \in s /\ Pick(s) \in S /\ s \ {Pick(s)} \in SUBSET S
BY DEF Pick

\* Sums of integers are integers.
LEMMA SumsType ==
  ASSUME NEW S, IsFiniteSet(S), NEW f \in [S -> Int], NEW F, Sums(F, f, S)
  PROVE  \A s \in SUBSET S : F[s] \in Int
<1> DEFINE T == {s \in SUBSET S : F[s] \in Int}
<1>1. {} \in T
  BY DEF Sums
<1>2. ASSUME NEW s \in SUBSET S, s # {}, s \ {Pick(s)} \in T PROVE s \in T
  <2>1. F[s] = f[Pick(s)] + F[s \ {Pick(s)}]
    BY <1>2 DEF Sums
  <2>2. f[Pick(s)] \in Int
    BY <1>2, PickRemoves
  <2> QED
    BY <1>2, <2>1, <2>2
<1>3. SUBSET S \subseteq T
  <2> HIDE DEF T
  <2> QED
    BY <1>1, <1>2, SubsetStep
<1> QED
  BY <1>3

\* A sum is what its recursion says, and an integer if its terms are.
LEMMA SumUnfolds ==
  ASSUME NEW S, IsFiniteSet(S), NEW f \in [S -> Int]
  PROVE  \E F : Sums(F, f, S) /\ SumFunction(f) = F[S] /\ \A s \in SUBSET S : F[s] \in Int
<1>1. PICK F : F = Partial(f, S)
  OBVIOUS
<1>2. Sums(F, f, S)
  BY <1>1, PartialSums
<1>3. SumFunction(f) = F[S]
  BY <1>1, SumIsPartial
<1> QED
  BY <1>2, <1>3, SumsType

\* So is the sum over the whole domain.
LEMMA SumType ==
  ASSUME NEW S, IsFiniteSet(S), NEW f \in [S -> Int]
  PROVE  SumFunction(f) \in Int
BY SumUnfolds

\* Changing one term changes the sum by as much.
LEMMA SumChange ==
  ASSUME NEW S, IsFiniteSet(S), NEW f \in [S -> Int], NEW g \in [S -> Int],
         NEW x \in S, \A y \in S : y # x => g[y] = f[y]
  PROVE  SumFunction(g) = SumFunction(f) + g[x] - f[x]
<1>1. PICK F : Sums(F, f, S) /\ SumFunction(f) = F[S] /\ \A s \in SUBSET S : F[s] \in Int
  BY SumUnfolds
<1>2. PICK G : Sums(G, g, S) /\ SumFunction(g) = G[S] /\ \A s \in SUBSET S : G[s] \in Int
  BY SumUnfolds
<1> DEFINE T == {s \in SUBSET S : /\ x \in s => G[s] = F[s] + g[x] - f[x]
                                  /\ x \notin s => G[s] = F[s]}
<1>3. {} \in T
  BY <1>1, <1>2 DEF Sums
<1>4. ASSUME NEW s \in SUBSET S, s # {}, s \ {Pick(s)} \in T PROVE s \in T
  <2>1. PICK p \in S, t \in SUBSET S : p = Pick(s) /\ p \in s /\ t = s \ {p}
    BY <1>4, PickRemoves
  <2>2. F[s] = f[p] + F[t] /\ G[s] = g[p] + G[t]
    BY <1>1, <1>2, <1>4, <2>1 DEF Sums
  <2>3. F[t] \in Int /\ G[t] \in Int /\ f[p] \in Int /\ g[p] \in Int /\ f[x] \in Int /\ g[x] \in Int
    BY <1>1, <1>2
  <2>4. (x \in t => G[t] = F[t] + g[x] - f[x]) /\ (x \notin t => G[t] = F[t])
    BY <1>4, <2>1
  <2>5. CASE p = x
    <3>1. x \in s /\ x \notin t
      BY <2>1, <2>5
    <3>2. G[s] = F[s] + g[x] - f[x]
      BY <2>2, <2>3, <2>4, <2>5, <3>1
    <3> QED
      BY <3>1, <3>2
  <2>6. CASE p # x
    <3>1. g[p] = f[p] /\ (x \in s <=> x \in t)
      BY <2>1, <2>6
    <3>2. (x \in s => G[s] = F[s] + g[x] - f[x]) /\ (x \notin s => G[s] = F[s])
      BY <2>2, <2>3, <2>4, <3>1
    <3> QED
      BY <3>2
  <2> QED
    BY <2>5, <2>6
<1>5. SUBSET S \subseteq T
  <2> HIDE DEF T
  <2> QED
    BY <1>3, <1>4, SubsetStep
<1>6. G[S] = F[S] + g[x] - f[x]
  BY <1>5
<1> QED
  BY <1>1, <1>2, <1>6

\* Greater terms, greater sum.
LEMMA SumLeq ==
  ASSUME NEW S, IsFiniteSet(S), NEW f \in [S -> Int], NEW g \in [S -> Int],
         \A y \in S : f[y] <= g[y]
  PROVE  SumFunction(f) <= SumFunction(g)
<1>1. PICK F : Sums(F, f, S) /\ SumFunction(f) = F[S] /\ \A s \in SUBSET S : F[s] \in Int
  BY SumUnfolds
<1>2. PICK G : Sums(G, g, S) /\ SumFunction(g) = G[S] /\ \A s \in SUBSET S : G[s] \in Int
  BY SumUnfolds
<1> DEFINE T == {s \in SUBSET S : F[s] <= G[s]}
<1>3. {} \in T
  BY <1>1, <1>2 DEF Sums
<1>4. ASSUME NEW s \in SUBSET S, s # {}, s \ {Pick(s)} \in T PROVE s \in T
  <2>1. PICK p \in S, t \in SUBSET S : p = Pick(s) /\ t = s \ {p}
    BY <1>4, PickRemoves
  <2>2. F[s] = f[p] + F[t] /\ G[s] = g[p] + G[t]
    BY <1>1, <1>2, <1>4, <2>1 DEF Sums
  <2>3. F[t] \in Int /\ G[t] \in Int /\ f[p] \in Int /\ g[p] \in Int
    BY <1>1, <1>2
  <2>4. F[t] <= G[t] /\ f[p] <= g[p]
    BY <1>4, <2>1
  <2>5. F[s] <= G[s]
    BY <2>2, <2>3, <2>4
  <2> QED
    BY <2>5
<1>5. SUBSET S \subseteq T
  <2> HIDE DEF T
  <2> QED
    BY <1>3, <1>4, SubsetStep
<1>6. F[S] <= G[S]
  BY <1>5
<1> QED
  BY <1>1, <1>2, <1>6

\* A factor of all terms is one of the sum.
LEMMA SumScale ==
  ASSUME NEW S, IsFiniteSet(S), NEW f \in [S -> Int], NEW g \in [S -> Int], NEW c \in Int,
         \A y \in S : g[y] = c * f[y]
  PROVE  SumFunction(g) = c * SumFunction(f)
<1>1. PICK F : Sums(F, f, S) /\ SumFunction(f) = F[S] /\ \A s \in SUBSET S : F[s] \in Int
  BY SumUnfolds
<1>2. PICK G : Sums(G, g, S) /\ SumFunction(g) = G[S] /\ \A s \in SUBSET S : G[s] \in Int
  BY SumUnfolds
<1> DEFINE T == {s \in SUBSET S : G[s] = c * F[s]}
<1>3. {} \in T
  BY <1>1, <1>2 DEF Sums
<1>4. ASSUME NEW s \in SUBSET S, s # {}, s \ {Pick(s)} \in T PROVE s \in T
  <2>1. PICK p \in S, t \in SUBSET S : p = Pick(s) /\ t = s \ {p}
    BY <1>4, PickRemoves
  <2>2. F[s] = f[p] + F[t] /\ G[s] = g[p] + G[t]
    BY <1>1, <1>2, <1>4, <2>1 DEF Sums
  <2>3. F[t] \in Int /\ f[p] \in Int
    BY <1>1
  <2>4. G[t] = c * F[t] /\ g[p] = c * f[p]
    BY <1>4, <2>1
  <2>5. \A a, b \in Int : c * (a + b) = c * a + c * b
    OBVIOUS
  <2>6. G[s] = c * F[s]
    BY <2>2, <2>3, <2>4, <2>5
  <2> QED
    BY <2>6
<1>5. SUBSET S \subseteq T
  <2> HIDE DEF T
  <2> QED
    BY <1>3, <1>4, SubsetStep
<1>6. G[S] = c * F[S]
  BY <1>5
<1> QED
  BY <1>1, <1>2, <1>6

\* A sum of nothing is nothing.
LEMMA SumZero ==
  ASSUME NEW S, IsFiniteSet(S), NEW f \in [S -> Int], \A y \in S : f[y] = 0
  PROVE  SumFunction(f) = 0
<1>1. \A y \in S : f[y] = 0 * f[y]
  OBVIOUS
<1>2. SumFunction(f) = 0 * SumFunction(f)
  BY <1>1, SumScale
<1> QED
  BY <1>2, SumType

\* No term of a sum of naturals exceeds it.
LEMMA SumAtLeast ==
  ASSUME NEW S, IsFiniteSet(S), NEW f \in [S -> Nat]
  PROVE  SumFunction(f) \in Nat /\ \A x \in S : f[x] <= SumFunction(f)
<1>1. f \in [S -> Int]
  OBVIOUS
<1>2. PICK zero \in [S -> Int] : \A y \in S : zero[y] = 0
  <2>1. [y \in S |-> 0] \in [S -> Int] /\ \A y \in S : [z \in S |-> 0][y] = 0
    OBVIOUS
  <2> QED
    BY <2>1
<1>3. SumFunction(zero) = 0
  BY <1>2, SumZero
<1>4. SumFunction(f) \in Int
  BY <1>1, SumType
<1>5. SumFunction(zero) <= SumFunction(f)
  <2>1. \A y \in S : zero[y] <= f[y]
    BY <1>2
  <2> QED
    BY <1>1, <2>1, SumLeq
<1>6. ASSUME NEW x \in S PROVE f[x] <= SumFunction(f)
  <2>1. PICK one \in [S -> Int] : one[x] = f[x] /\ \A y \in S : y # x => one[y] = 0
    <3> DEFINE h == [y \in S |-> IF y = x THEN f[x] ELSE 0]
    <3>1. h \in [S -> Int] /\ h[x] = f[x] /\ \A y \in S : y # x => h[y] = 0
      OBVIOUS
    <3> HIDE DEF h
    <3> QED
      BY <3>1
  <2>2. SumFunction(one) = SumFunction(zero) + one[x] - zero[x]
    BY <1>2, <2>1, SumChange
  <2>3. SumFunction(one) <= SumFunction(f)
    <3>1. \A y \in S : one[y] <= f[y]
      BY <2>1
    <3> QED
      BY <1>1, <2>1, <3>1, SumLeq
  <2> QED
    BY <1>2, <1>3, <1>4, <2>1, <2>2, <2>3
<1> QED
  BY <1>3, <1>4, <1>5, <1>6

-----------------------------------------------------------------------------
(* Queues of logs.  D[l] is what log l is worth to a quantity; a queue owes *)
(* it the sum of what its logs are worth.                                  *)

\* v is the sum of the first n values of w: T holds the subtotals.
Subtotals(w, n, v, T) ==
  /\ T \in [0..n -> Int] /\ T[0] = 0 /\ T[n] = v
  /\ \A i \in 1..n : w[i] = T[i] - T[i - 1]

\* Without the first value, every subtotal is less by it.
LEMMA SubtotalsRest ==
  ASSUME NEW n \in Nat, NEW w, NEW u, \A i \in 1..n : u[i] = w[i + 1],
         NEW v, NEW T, Subtotals(w, n + 1, v, T)
  PROVE  v \in Int /\ Subtotals(u, n, v - w[1], [i \in 0..n |-> T[i + 1] - T[1]])
<1> DEFINE U == [i \in 0..n |-> T[i + 1] - T[1]]
<1>1. /\ T \in [0..n + 1 -> Int] /\ T[0] = 0 /\ T[n + 1] = v
      /\ \A i \in 1..n + 1 : w[i] = T[i] - T[i - 1]
  BY DEF Subtotals
<1>2. T[1] = w[1] /\ T[1] \in Int
  <2>1. w[1] = T[1] - T[1 - 1]
    BY <1>1
  <2> QED
    BY <1>1, <2>1
<1>3. \A i \in 0..n : U[i] = T[i + 1] - T[1] /\ T[i + 1] \in Int
  BY <1>1
<1>4. U \in [0..n -> Int]
  <2>1. ASSUME NEW i \in 0..n PROVE T[i + 1] - T[1] \in Int
    BY <1>2, <1>3
  <2> QED
    BY <2>1
<1> HIDE DEF U
<1>5. U[0] = 0 /\ U[n] = v - w[1] /\ v \in Int
  <2>1. U[0] = T[0 + 1] - T[1] /\ U[n] = T[n + 1] - T[1] /\ T[n + 1] \in Int
    BY <1>3
  <2> QED
    BY <1>1, <1>2, <2>1
<1>6. ASSUME NEW i \in 1..n PROVE u[i] = U[i] - U[i - 1]
  <2>1. w[i + 1] = T[i + 1] - T[i] /\ T[i + 1] \in Int /\ T[i] \in Int
    <3>1. w[i + 1] = T[i + 1] - T[(i + 1) - 1]
      BY <1>1
    <3> QED
      BY <1>1, <3>1
  <2>2. U[i] = T[i + 1] - T[1] /\ U[i - 1] = T[i] - T[1]
    <3>1. U[i - 1] = T[(i - 1) + 1] - T[1]
      BY <1>3
    <3> QED
      BY <1>3, <3>1
  <2> QED
    BY <1>2, <2>1, <2>2
<1> QED
  BY <1>4, <1>5, <1>6 DEF Subtotals, U

\* The subtotals of two rows of values, one after the other.
LEMMA SubtotalsBoth ==
  ASSUME NEW j \in Nat, NEW k \in Nat, NEW w, NEW u, NEW x,
         \A i \in 1..j : x[i] = w[i], \A i \in 1..k : x[j + i] = u[i],
         NEW v, NEW z, NEW T, NEW U, Subtotals(w, j, v, T), Subtotals(u, k, z, U)
  PROVE  /\ v \in Int /\ z \in Int
         /\ Subtotals(x, j + k, v + z, [i \in 0..j + k |-> IF i <= j THEN T[i] ELSE v + U[i - j]])
<1> DEFINE V == [i \in 0..j + k |-> IF i <= j THEN T[i] ELSE v + U[i - j]]
<1>1. /\ T \in [0..j -> Int] /\ T[0] = 0 /\ T[j] = v
      /\ \A i \in 1..j : w[i] = T[i] - T[i - 1]
  BY DEF Subtotals
<1>2. /\ U \in [0..k -> Int] /\ U[0] = 0 /\ U[k] = z
      /\ \A i \in 1..k : u[i] = U[i] - U[i - 1]
  BY DEF Subtotals
<1>3. v \in Int /\ z \in Int
  BY <1>1, <1>2
<1>4. /\ \A i \in 0..j : V[i] = T[i] /\ T[i] \in Int
      /\ \A i \in 0..k : V[j + i] = v + U[i] /\ U[i] \in Int
  <2>1. \A i \in 0..j : V[i] = T[i] /\ T[i] \in Int
    BY <1>1
  <2>2. ASSUME NEW i \in 0..k PROVE V[j + i] = v + U[i] /\ U[i] \in Int
    <3>1. CASE i = 0
      BY <1>1, <1>2, <1>3, <2>1, <3>1
    <3>2. CASE i > 0
      <4>1. j + i \in 0..j + k /\ ~ (j + i <= j) /\ (j + i) - j = i
        BY <3>2
      <4> QED
        BY <1>2, <4>1
    <3> QED
      BY <3>1, <3>2
  <2> QED
    BY <2>1, <2>2
<1>5. V \in [0..j + k -> Int]
  <2>1. ASSUME NEW i \in 0..j + k PROVE (IF i <= j THEN T[i] ELSE v + U[i - j]) \in Int
    <3>1. CASE i <= j
      <4>1. i \in 0..j /\ T[i] \in Int
        BY <1>1, <3>1
      <4> QED
        BY <3>1, <4>1
    <3>2. CASE ~ (i <= j)
      <4>1. i - j \in 0..k
        BY <3>2
      <4>2. U[i - j] \in Int
        BY <1>2, <4>1
      <4> QED
        BY <1>3, <3>2, <4>2
    <3> QED
      BY <3>1, <3>2
  <2> QED
    BY <2>1
<1> HIDE DEF V
<1>6. V[0] = 0 /\ V[j + k] = v + z
  BY <1>1, <1>2, <1>4
<1>7. ASSUME NEW i \in 1..j + k PROVE x[i] = V[i] - V[i - 1]
  <2>1. CASE i <= j
    <3>1. i \in 1..j /\ i \in 0..j /\ i - 1 \in 0..j
      BY <2>1
    <3> QED
      BY <1>1, <1>4, <3>1
  <2>2. CASE i > j
    <3>1. PICK m \in 1..k : i = j + m
      <4>1. i - j \in 1..k /\ i = j + (i - j)
        BY <2>2
      <4> QED
        BY <4>1
    <3>2. x[i] = U[m] - U[m - 1] /\ m \in 0..k /\ m - 1 \in 0..k
      BY <1>2, <3>1
    <3>3. V[i] = v + U[m] /\ U[m] \in Int
      BY <1>4, <3>1, <3>2
    <3>4. V[i - 1] = v + U[m - 1] /\ U[m - 1] \in Int
      <4>1. i - 1 = j + (m - 1)
        BY <3>1
      <4> QED
        BY <1>4, <3>2, <4>1
    <3> QED
      BY <1>3, <3>2, <3>3, <3>4
  <2> QED
    BY <2>1, <2>2
<1> QED
  BY <1>3, <1>5, <1>6, <1>7 DEF Subtotals, V

\* The logs of queue s are together worth v.
Owes(D, s, v) == \E T : Subtotals([i \in 1..Len(s) |-> D[s[i]]], Len(s), v, T)

\* An empty queue owes nothing.
LEMMA OwesNothing ==
  ASSUME NEW D
  PROVE  Owes(D, <<>>, 0) /\ \A v : Owes(D, <<>>, v) => v = 0
<1>1. \A w, v, T : Subtotals(w, 0, v, T) => v = 0
  BY DEF Subtotals
<1>2. \A w : Subtotals(w, 0, 0, [n \in 0..0 |-> 0])
  BY DEF Subtotals
<1>3. Len(<<>>) = 0
  OBVIOUS
<1> QED
  BY <1>1, <1>2, <1>3 DEF Owes

\* A queue of one log owes what the log is worth.
LEMMA OwesOne ==
  ASSUME NEW L, NEW D \in [L -> Int], NEW l \in L
  PROVE  Owes(D, <<l>>, D[l])
<1> DEFINE w == [i \in 1..1 |-> D[<<l>>[i]]]
           T == [i \in 0..1 |-> IF i = 0 THEN 0 ELSE D[l]]
<1>1. Len(<<l>>) = 1 /\ <<l>>[1] = l /\ D[l] \in Int
  OBVIOUS
<1>2. w[1] = D[l]
  BY <1>1
<1>3. T \in [0..1 -> Int] /\ T[0] = 0 /\ T[1] = D[l]
  BY <1>1
<1> HIDE DEF w, T
<1>4. Subtotals(w, 1, D[l], T)
  <2>1. \A i \in 1..1 : i = 1 /\ i - 1 = 0
    OBVIOUS
  <2>2. D[l] = D[l] - 0
    BY <1>1
  <2>3. \A i \in 1..1 : w[i] = T[i] - T[i - 1]
    BY <1>2, <1>3, <2>1, <2>2
  <2> QED
    BY <1>3, <2>3 DEF Subtotals
<1> QED
  BY <1>1, <1>4 DEF Owes, w

\* What a queue owes when its first log is gone.
LEMMA OwesRest ==
  ASSUME NEW L, NEW D \in [L -> Int], NEW s \in Seq(L), s # <<>>, NEW v, Owes(D, s, v)
  PROVE  Tail(s) \in Seq(L) /\ Head(s) \in L /\ v \in Int /\ Owes(D, Tail(s), v - D[Head(s)])
<1>1. /\ Len(s) \in Nat \ {0} /\ Head(s) = s[1] /\ Head(s) \in L /\ Tail(s) \in Seq(L)
      /\ Len(Tail(s)) = Len(s) - 1 /\ \A n \in 1..Len(Tail(s)) : Tail(s)[n] = s[n + 1]
  OBVIOUS
<1>2. PICK k \in Nat : k = Len(Tail(s)) /\ Len(s) = k + 1
  <2>1. Len(s) - 1 \in Nat /\ Len(s) = (Len(s) - 1) + 1
    BY <1>1
  <2> QED
    BY <1>1, <2>1
<1> DEFINE w == [i \in 1..Len(s) |-> D[s[i]]]
           u == [i \in 1..Len(Tail(s)) |-> D[Tail(s)[i]]]
<1>3. PICK T : Subtotals(w, k + 1, v, T)
  BY <1>2 DEF Owes
<1>4. w[1] = D[Head(s)] /\ \A i \in 1..k : u[i] = w[i + 1]
  BY <1>1, <1>2
<1> HIDE DEF w, u
<1>5. v \in Int /\ \E U : Subtotals(u, k, v - w[1], U)
  BY <1>3, <1>4, SubtotalsRest
<1> QED
  BY <1>1, <1>2, <1>4, <1>5 DEF Owes, u

\* Two queues in a row owe what both owe.
LEMMA OwesBoth ==
  ASSUME NEW L, NEW D \in [L -> Int], NEW s \in Seq(L), NEW t \in Seq(L),
         NEW v, NEW z, Owes(D, s, v), Owes(D, t, z)
  PROVE  s \o t \in Seq(L) /\ v \in Int /\ z \in Int /\ Owes(D, s \o t, v + z)
<1>1. PICK j \in Nat, k \in Nat : j = Len(s) /\ k = Len(t)
  OBVIOUS
<1>2. s \o t \in Seq(L) /\ Len(s \o t) = j + k
  BY <1>1
<1>3. \A i \in 1..j : i \in 1..j + k /\ (s \o t)[i] = s[i]
  BY <1>1
<1>4. \A i \in 1..k : j + i \in 1..j + k /\ (s \o t)[j + i] = t[i]
  BY <1>1
<1> DEFINE w == [i \in 1..j |-> D[s[i]]]
           u == [i \in 1..k |-> D[t[i]]]
           x == [i \in 1..j + k |-> D[(s \o t)[i]]]
<1>5. (\E T : Subtotals(w, j, v, T)) /\ (\E T : Subtotals(u, k, z, T))
  BY <1>1 DEF Owes
<1>6. (\A i \in 1..j : x[i] = w[i]) /\ (\A i \in 1..k : x[j + i] = u[i])
  BY <1>3, <1>4
<1> HIDE DEF w, u, x
<1>7. v \in Int /\ z \in Int /\ \E T : Subtotals(x, j + k, v + z, T)
  BY <1>5, <1>6, SubtotalsBoth
<1> QED
  BY <1>2, <1>7 DEF Owes, x
=============================================================================
