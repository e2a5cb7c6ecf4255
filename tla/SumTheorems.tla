---------------------------- MODULE SumTheorems ----------------------------
(***************************************************************************)
(* What SumFunction computes. The quantities of the model are sums over    *)
(* loads, pieces and lines, written with the recursive fold of module      *)
(* Folds; these facts are what the proofs about them need. They are proved *)
(* without the induction theorems of the library: a smallest set of which  *)
(* a statement fails has no smaller one of which it fails.                 *)
(***************************************************************************)
EXTENDS Functions, FiniteSetTheorems, TLAPS

\* The element a fold takes off a set.
Pick(s) == CHOOSE x \in s : TRUE

\* h is the function a fold of f over S is defined by.
IsSum(h, f, S) ==
  h = [s \in SUBSET S |-> IF s = {} THEN 0 ELSE f[Pick(s)] + h[s \ {Pick(s)}]]

\* Among the subsets of a finite set there is a smallest one in every family.
LEMMA Smallest ==
  ASSUME NEW S, IsFiniteSet(S), NEW T, T \subseteq SUBSET S, T # {}
  PROVE  \E s \in T : \A t \in T : t \subseteq s => t = s
<1>1. IsWellFoundedOn(StrictSubsetOrdering(S), SUBSET S)
  BY FS_StrictSubsetOrderingWellFounded, FS_FiniteSubsetsOfFinite
<1>2. \E s \in T : \A t \in T : <<t, s>> \notin StrictSubsetOrdering(S)
  BY <1>1, WFMin
<1>3. QED BY <1>2 DEF StrictSubsetOrdering

LEMMA PickIsMember == ASSUME NEW s, s # {} PROVE Pick(s) \in s
  BY DEF Pick

\* Folds of functions that agree on S agree on S, whatever set each folds over.
LEMMA SumIsUnique ==
  ASSUME NEW S, IsFiniteSet(S), NEW R, NEW Q, S \subseteq R, S \subseteq Q,
         NEW f, NEW g, \A x \in S : f[x] = g[x],
         NEW h, IsSum(h, f, R), NEW k, IsSum(k, g, Q)
  PROVE  h[S] = k[S]
<1> DEFINE T == {s \in SUBSET S : h[s] # k[s]}
<1> SUFFICES ASSUME T # {} PROVE FALSE
  OBVIOUS
<1>1. PICK s \in T : \A t \in T : t \subseteq s => t = s
  <2>1. T \subseteq SUBSET S
    OBVIOUS
  <2> HIDE DEF T
  <2>2. QED BY <2>1, Smallest
<1>2. CASE s = {}
  BY <1>1, <1>2 DEF IsSum
<1>3. CASE s # {}
  <2>1. Pick(s) \in s
    BY <1>3, PickIsMember
  <2>2. s \ {Pick(s)} \in SUBSET S /\ s \ {Pick(s)} \notin T
    BY <1>1, <2>1
  <2>3. h[s \ {Pick(s)}] = k[s \ {Pick(s)}]
    BY <2>2
  <2>4. h[s] = f[Pick(s)] + h[s \ {Pick(s)}]
    BY <1>3 DEF IsSum
  <2>5. k[s] = g[Pick(s)] + k[s \ {Pick(s)}]
    BY <1>3 DEF IsSum
  <2>6. QED BY <2>1, <2>3, <2>4, <2>5
<1>4. QED BY <1>2, <1>3

\* The recursion is well defined: the folds of the smaller sets give the next.
LEMMA SumExists ==
  ASSUME NEW S, IsFiniteSet(S), NEW f
  PROVE  \E h : IsSum(h, f, S)
<1> DEFINE T == {s \in SUBSET S : ~ \E h : IsSum(h, f, s)}
<1> SUFFICES ASSUME T # {} PROVE FALSE
  OBVIOUS
<1>1. PICK s \in T : \A t \in T : t \subseteq s => t = s
  <2>1. T \subseteq SUBSET S
    OBVIOUS
  <2> HIDE DEF T
  <2>2. QED BY <2>1, Smallest
<1> DEFINE k(t) == CHOOSE h : IsSum(h, f, t)
           v(t) == IF t = {} THEN 0 ELSE f[Pick(t)] + k(t \ {Pick(t)})[t \ {Pick(t)}]
           h == [t \in SUBSET s |-> v(t)]
<1>2. \A t \in SUBSET s : t # s => IsSum(k(t), f, t)
  BY <1>1
<1>3. \A t \in SUBSET s : IsFiniteSet(t)
  BY FS_Subset
<1>4. ASSUME NEW t \in SUBSET s, t # s PROVE h[t] = k(t)[t]
  <2>1. IsSum(k(t), f, t)
    BY <1>2, <1>4
  <2>2. CASE t = {}
    BY <2>1, <2>2 DEF IsSum
  <2>3. CASE t # {}
    <3> DEFINE u == t \ {Pick(t)}
    <3>1. Pick(t) \in t /\ u \in SUBSET t /\ u \in SUBSET s /\ u # s
      BY <2>3, PickIsMember
    <3>2. IsSum(k(u), f, u)
      BY <1>2, <3>1
    <3>3. k(t)[u] = k(u)[u]
      <4> HIDE DEF k, u
      <4> QED BY <1>3, <2>1, <3>1, <3>2, SumIsUnique
    <3>4. k(t)[t] = f[Pick(t)] + k(t)[u]
      BY <2>1, <2>3 DEF IsSum
    <3>5. h[t] = f[Pick(t)] + k(u)[u]
      BY <2>3
    <3>6. QED BY <3>3, <3>4, <3>5
  <2>4. QED BY <2>2, <2>3
<1>5. IsSum(h, f, s)
  <2>1. \A t \in SUBSET s : t # {} => t \ {Pick(t)} \in SUBSET s /\ t \ {Pick(t)} # s
    BY PickIsMember
  <2>2. \A t \in SUBSET s : t # {} => h[t \ {Pick(t)}] = k(t \ {Pick(t)})[t \ {Pick(t)}]
    <3> HIDE DEF h, k
    <3> QED BY <1>4, <2>1
  <2>3. h = [t \in SUBSET s |-> IF t = {} THEN 0 ELSE f[Pick(t)] + h[t \ {Pick(t)}]]
    <3> HIDE DEF k
    <3> QED BY <2>2
  <2>4. QED BY <2>3 DEF IsSum
<1>6. QED BY <1>1, <1>5

LEMMA SumIsRecursive ==
  ASSUME NEW S, IsFiniteSet(S), NEW f
  PROVE  \E h : IsSum(h, f, S) /\ SumFunctionOnSet(f, S) = h[S]
<1> DEFINE h == CHOOSE k : IsSum(k, f, S)
<1>1. IsSum(h, f, S)
  BY SumExists
<1>2. SumFunctionOnSet(f, S) = h[S]
  BY DEF SumFunctionOnSet, FoldFunctionOnSet, MapThenFoldSet, IsSum, Pick
<1>3. QED BY <1>1, <1>2

LEMMA SumCongruence ==
  ASSUME NEW S, IsFiniteSet(S), NEW f, NEW g, \A x \in S : f[x] = g[x]
  PROVE  SumFunctionOnSet(f, S) = SumFunctionOnSet(g, S)
<1>1. PICK h : IsSum(h, f, S) /\ SumFunctionOnSet(f, S) = h[S]
  BY SumIsRecursive
<1>2. PICK k : IsSum(k, g, S) /\ SumFunctionOnSet(g, S) = k[S]
  BY SumIsRecursive
<1>3. QED BY <1>1, <1>2, SumIsUnique

LEMMA SumOfNothing == ASSUME NEW f PROVE SumFunctionOnSet(f, {}) = 0
<1>1. PICK h : IsSum(h, f, {}) /\ SumFunctionOnSet(f, {}) = h[{}]
  BY SumIsRecursive, FS_EmptySet
<1>2. QED BY <1>1 DEF IsSum

LEMMA SumOfPicked ==
  ASSUME NEW S, IsFiniteSet(S), NEW f, S # {}
  PROVE  SumFunctionOnSet(f, S) = f[Pick(S)] + SumFunctionOnSet(f, S \ {Pick(S)})
<1> DEFINE R == S \ {Pick(S)}
<1>0. IsFiniteSet(R)
  BY FS_RemoveElement
<1>1. PICK h : IsSum(h, f, S) /\ SumFunctionOnSet(f, S) = h[S]
  BY SumIsRecursive
<1>2. PICK k : IsSum(k, f, R) /\ SumFunctionOnSet(f, R) = k[R]
  BY <1>0, SumIsRecursive
<1>3. h[R] = k[R]
  <2>1. R \subseteq S
    OBVIOUS
  <2> HIDE DEF R
  <2>2. QED BY <1>0, <1>1, <1>2, <2>1, SumIsUnique
<1>4. h[S] = f[Pick(S)] + h[R]
  BY <1>1 DEF IsSum
<1>5. QED BY <1>1, <1>2, <1>3, <1>4

(***************************************************************************)
(* Sums of integers                                                        *)
(***************************************************************************)
LEMMA SumType ==
  ASSUME NEW S, IsFiniteSet(S), NEW f, \A x \in S : f[x] \in Int
  PROVE  SumFunctionOnSet(f, S) \in Int
<1> DEFINE T == {s \in SUBSET S : SumFunctionOnSet(f, s) \notin Int}
<1> SUFFICES ASSUME T # {} PROVE FALSE
  OBVIOUS
<1>1. PICK s \in T : \A t \in T : t \subseteq s => t = s
  <2>1. T \subseteq SUBSET S
    OBVIOUS
  <2> HIDE DEF T
  <2>2. QED BY <2>1, Smallest
<1>2. s # {}
  BY SumOfNothing
<1>3. s \in SUBSET S /\ IsFiniteSet(s)
  BY <1>1, FS_Subset
<1>4. Pick(s) \in s
  BY <1>2, PickIsMember
<1>5. s \ {Pick(s)} \in SUBSET S /\ s \ {Pick(s)} \notin T
  BY <1>1, <1>4
<1>6. SumFunctionOnSet(f, s) = f[Pick(s)] + SumFunctionOnSet(f, s \ {Pick(s)})
  BY <1>2, <1>3, SumOfPicked
<1>7. SumFunctionOnSet(f, s \ {Pick(s)}) \in Int /\ f[Pick(s)] \in Int
  BY <1>3, <1>4, <1>5
<1>8. QED BY <1>1, <1>6, <1>7

\* Nothing but zeros adds up to zero.
LEMMA SumOfZeros ==
  ASSUME NEW S, IsFiniteSet(S), NEW f, \A x \in S : f[x] = 0
  PROVE  SumFunctionOnSet(f, S) = 0
<1> DEFINE T == {s \in SUBSET S : SumFunctionOnSet(f, s) # 0}
<1> SUFFICES ASSUME T # {} PROVE FALSE
  OBVIOUS
<1>1. PICK s \in T : \A t \in T : t \subseteq s => t = s
  <2>1. T \subseteq SUBSET S
    OBVIOUS
  <2> HIDE DEF T
  <2>2. QED BY <2>1, Smallest
<1>2. s # {}
  BY SumOfNothing
<1>3. IsFiniteSet(s)
  BY FS_Subset
<1> DEFINE x == Pick(s)
<1>4. x \in s
  BY <1>2, PickIsMember
<1>5. SumFunctionOnSet(f, s) = f[x] + SumFunctionOnSet(f, s \ {x})
  BY <1>2, <1>3, SumOfPicked
<1>6. SumFunctionOnSet(f, s \ {x}) = 0
  <2>1. s \ {x} \subseteq s /\ s \ {x} # s /\ s \ {x} \in SUBSET S
    BY <1>4
  <2>2. s \ {x} \notin T
    BY <1>1, <2>1
  <2>3. QED BY <2>1, <2>2
<1>7. f[x] = 0
  BY <1>4
<1> HIDE DEF x
<1>8. SumFunctionOnSet(f, s) = 0
  BY <1>5, <1>6, <1>7
<1>9. QED BY <1>8

\* The order in which a sum takes its terms does not matter.
THEOREM SumOfOneAndRest ==
  ASSUME NEW S, IsFiniteSet(S), NEW f, \A x \in S : f[x] \in Int, NEW y \in S
  PROVE  SumFunctionOnSet(f, S) = f[y] + SumFunctionOnSet(f, S \ {y})
<1> DEFINE Sum(s) == SumFunctionOnSet(f, s)
           T == {s \in SUBSET S : \E x \in s : Sum(s) # f[x] + Sum(s \ {x})}
<1>0. \A s \in SUBSET S : IsFiniteSet(s) /\ Sum(s) \in Int
  BY FS_Subset, SumType
<1> SUFFICES ASSUME T # {} PROVE FALSE
  OBVIOUS
<1>1. PICK s \in T : \A t \in T : t \subseteq s => t = s
  <2>1. T \subseteq SUBSET S
    OBVIOUS
  <2> HIDE DEF T
  <2>2. QED BY <2>1, Smallest
<1>2. PICK x \in s : Sum(s) # f[x] + Sum(s \ {x})
  BY <1>1
<1> DEFINE z == Pick(s)
<1>3. z \in s /\ s \in SUBSET S
  BY <1>2, PickIsMember
<1>4. Sum(s) = f[z] + Sum(s \ {z})
  BY <1>0, <1>2, <1>3, SumOfPicked
<1>5. x # z
  BY <1>2, <1>4
<1>6. s \ {z} \notin T /\ s \ {x} \notin T
  BY <1>1, <1>2, <1>3
<1>7. Sum(s \ {z}) = f[x] + Sum((s \ {z}) \ {x})
  BY <1>2, <1>3, <1>5, <1>6
<1>8. Sum(s \ {x}) = f[z] + Sum((s \ {x}) \ {z})
  BY <1>2, <1>3, <1>5, <1>6
<1>9. Sum((s \ {z}) \ {x}) = Sum((s \ {x}) \ {z})
  <2>1. (s \ {z}) \ {x} = (s \ {x}) \ {z}
    OBVIOUS
  <2>2. QED BY <2>1
<1>10. f[x] \in Int /\ f[z] \in Int /\ Sum((s \ {x}) \ {z}) \in Int
  BY <1>0, <1>2, <1>3
<1>11. f[z] + (f[x] + Sum((s \ {x}) \ {z})) = f[x] + (f[z] + Sum((s \ {x}) \ {z}))
  <2> HIDE DEF Sum, z
  <2>1. QED BY <1>10
<1>12. QED BY <1>2, <1>4, <1>7, <1>8, <1>9, <1>11

\* A sum of natural numbers is one, and no less than any of its terms.
THEOREM SumOfNaturals ==
  ASSUME NEW S, IsFiniteSet(S), NEW f, \A x \in S : f[x] \in Nat
  PROVE  /\ SumFunctionOnSet(f, S) \in Nat
         /\ \A x \in S : f[x] <= SumFunctionOnSet(f, S)
<1>1. ASSUME NEW R \in SUBSET S PROVE SumFunctionOnSet(f, R) \in Nat
  <2> DEFINE T == {s \in SUBSET S : SumFunctionOnSet(f, s) \notin Nat}
  <2> SUFFICES ASSUME T # {} PROVE FALSE
    BY <1>1
  <2>1. PICK s \in T : \A t \in T : t \subseteq s => t = s
    <3>1. T \subseteq SUBSET S
      OBVIOUS
    <3> HIDE DEF T
    <3>2. QED BY <3>1, Smallest
  <2>2. s # {}
    BY SumOfNothing
  <2>3. s \in SUBSET S /\ IsFiniteSet(s)
    BY <2>1, FS_Subset
  <2>4. Pick(s) \in s
    BY <2>2, PickIsMember
  <2>5. s \ {Pick(s)} \in SUBSET S /\ s \ {Pick(s)} \notin T
    BY <2>1, <2>4
  <2>6. SumFunctionOnSet(f, s) = f[Pick(s)] + SumFunctionOnSet(f, s \ {Pick(s)})
    BY <2>2, <2>3, SumOfPicked
  <2>7. SumFunctionOnSet(f, s \ {Pick(s)}) \in Nat /\ f[Pick(s)] \in Nat
    BY <2>3, <2>4, <2>5
  <2>8. QED BY <2>1, <2>6, <2>7
<1>2. ASSUME NEW x \in S PROVE f[x] <= SumFunctionOnSet(f, S)
  <2>1. SumFunctionOnSet(f, S) = f[x] + SumFunctionOnSet(f, S \ {x})
    <3>1. \A y \in S : f[y] \in Int
      OBVIOUS
    <3>2. QED BY <3>1, SumOfOneAndRest
  <2>2. SumFunctionOnSet(f, S \ {x}) \in Nat
    BY <1>1
  <2>3. QED BY <2>1, <2>2
<1>3. QED BY <1>1, <1>2

\* Larger terms make a larger sum; with the same sum they are the same terms.
THEOREM SumIsMonotone ==
  ASSUME NEW S, IsFiniteSet(S), NEW f, NEW g,
         \A x \in S : f[x] \in Int /\ g[x] \in Int /\ f[x] <= g[x]
  PROVE  /\ SumFunctionOnSet(f, S) <= SumFunctionOnSet(g, S)
         /\ SumFunctionOnSet(f, S) = SumFunctionOnSet(g, S) => \A x \in S : f[x] = g[x]
<1> DEFINE F(s) == SumFunctionOnSet(f, s)
           G(s) == SumFunctionOnSet(g, s)
<1>1. \A s \in SUBSET S : F(s) \in Int /\ G(s) \in Int /\ IsFiniteSet(s)
  BY FS_Subset, SumType
<1>2. ASSUME NEW R \in SUBSET S PROVE F(R) <= G(R)
  <2> DEFINE T == {s \in SUBSET S : ~ (F(s) <= G(s))}
  <2> SUFFICES ASSUME T # {} PROVE FALSE
    BY <1>2
  <2>1. PICK s \in T : \A t \in T : t \subseteq s => t = s
    <3>1. T \subseteq SUBSET S
      OBVIOUS
    <3> HIDE DEF T
    <3>2. QED BY <3>1, Smallest
  <2>2. s # {}
    <3>1. F({}) = 0 /\ G({}) = 0
      BY SumOfNothing
    <3> HIDE DEF F, G
    <3>2. QED BY <3>1
  <2>3. Pick(s) \in s /\ s \in SUBSET S
    BY <2>2, PickIsMember
  <2>4. s \ {Pick(s)} \in SUBSET S /\ s \ {Pick(s)} \notin T
    BY <2>1, <2>3
  <2>5. F(s) = f[Pick(s)] + F(s \ {Pick(s)}) /\ G(s) = g[Pick(s)] + G(s \ {Pick(s)})
    BY <1>1, <2>2, <2>3, SumOfPicked
  <2>6. F(s \ {Pick(s)}) <= G(s \ {Pick(s)}) /\ ~ (F(s) <= G(s))
    BY <2>1, <2>4
  <2>7. /\ f[Pick(s)] \in Int /\ g[Pick(s)] \in Int /\ f[Pick(s)] <= g[Pick(s)]
        /\ F(s \ {Pick(s)}) \in Int /\ G(s \ {Pick(s)}) \in Int
    BY <1>1, <2>3, <2>4
  <2> HIDE DEF F, G
  <2>8. QED BY <2>5, <2>6, <2>7
<1>3. ASSUME F(S) = G(S), NEW x \in S PROVE f[x] = g[x]
  <2>1. F(S) = f[x] + F(S \ {x}) /\ G(S) = g[x] + G(S \ {x})
    <3>1. (\A y \in S : f[y] \in Int) /\ (\A y \in S : g[y] \in Int)
      OBVIOUS
    <3>2. QED BY <3>1, SumOfOneAndRest
  <2>2. F(S \ {x}) <= G(S \ {x})
    BY <1>2
  <2>3. F(S \ {x}) \in Int /\ G(S \ {x}) \in Int /\ f[x] \in Int /\ g[x] \in Int /\ f[x] <= g[x]
    BY <1>1
  <2>4. \A a, b, c, d \in Int : a + c = b + d /\ a <= b /\ c <= d => a = b
    OBVIOUS
  <2>5. f[x] + F(S \ {x}) = g[x] + G(S \ {x})
    BY <1>3, <2>1
  <2> HIDE DEF F, G
  <2>6. QED BY <2>2, <2>3, <2>4, <2>5
<1>4. QED BY <1>2, <1>3

(***************************************************************************)
(* Folds of a state: step maps an element and a state to the next state,   *)
(* pick takes the next element off a set; whatever every step preserves,   *)
(* the fold preserves                                                      *)
(***************************************************************************)
Picks(pick, S) == \A s \in SUBSET S : s # {} => pick[s] \in s

IsFold(h, step, base, pick, S) ==
  h = [s \in SUBSET S |-> IF s = {} THEN base ELSE step[<<pick[s], h[s \ {pick[s]}]>>]]

LEMMA FoldIsUnique ==
  ASSUME NEW S, IsFiniteSet(S), NEW R, NEW Q, S \subseteq R, S \subseteq Q,
         NEW step, NEW base, NEW pick, Picks(pick, S),
         NEW h, IsFold(h, step, base, pick, R), NEW k, IsFold(k, step, base, pick, Q)
  PROVE  h[S] = k[S]
<1> DEFINE T == {s \in SUBSET S : h[s] # k[s]}
<1> SUFFICES ASSUME T # {} PROVE FALSE
  OBVIOUS
<1>1. PICK s \in T : \A t \in T : t \subseteq s => t = s
  <2>1. T \subseteq SUBSET S
    OBVIOUS
  <2> HIDE DEF T
  <2>2. QED BY <2>1, Smallest
<1>2. CASE s = {}
  BY <1>1, <1>2 DEF IsFold
<1>3. CASE s # {}
  <2>1. pick[s] \in s
    BY <1>1, <1>3 DEF Picks
  <2>2. s \ {pick[s]} \in SUBSET S /\ s \ {pick[s]} \notin T
    BY <1>1, <2>1
  <2>3. h[s \ {pick[s]}] = k[s \ {pick[s]}]
    BY <2>2
  <2>4. h[s] = step[<<pick[s], h[s \ {pick[s]}]>>]
    BY <1>3 DEF IsFold
  <2>5. k[s] = step[<<pick[s], k[s \ {pick[s]}]>>]
    BY <1>3 DEF IsFold
  <2>6. QED BY <2>3, <2>4, <2>5
<1>4. QED BY <1>2, <1>3

LEMMA FoldExists ==
  ASSUME NEW S, IsFiniteSet(S), NEW step, NEW base, NEW pick, Picks(pick, S)
  PROVE  \E h : IsFold(h, step, base, pick, S)
<1> DEFINE T == {s \in SUBSET S : ~ \E h : IsFold(h, step, base, pick, s)}
<1> SUFFICES ASSUME T # {} PROVE FALSE
  OBVIOUS
<1>1. PICK s \in T : \A t \in T : t \subseteq s => t = s
  <2>1. T \subseteq SUBSET S
    OBVIOUS
  <2> HIDE DEF T
  <2>2. QED BY <2>1, Smallest
<1> DEFINE k(t) == CHOOSE h : IsFold(h, step, base, pick, t)
           v(t) == IF t = {} THEN base ELSE step[<<pick[t], k(t \ {pick[t]})[t \ {pick[t]}]>>]
           h == [t \in SUBSET s |-> v(t)]
<1>2. \A t \in SUBSET s : t # s => IsFold(k(t), step, base, pick, t)
  BY <1>1
<1>3. \A t \in SUBSET s : IsFiniteSet(t)
  BY FS_Subset
<1>4. ASSUME NEW t \in SUBSET s, t # s PROVE h[t] = k(t)[t]
  <2>1. IsFold(k(t), step, base, pick, t)
    BY <1>2, <1>4
  <2>2. CASE t = {}
    BY <2>1, <2>2 DEF IsFold
  <2>3. CASE t # {}
    <3> DEFINE u == t \ {pick[t]}
    <3>1. pick[t] \in t /\ u \in SUBSET t /\ u \in SUBSET s /\ u # s
      BY <1>1, <2>3 DEF Picks
    <3>2. IsFold(k(u), step, base, pick, u)
      BY <1>2, <3>1
    <3>3. k(t)[u] = k(u)[u]
      <4> HIDE DEF k, u
      <4>1. Picks(pick, u) /\ Picks(pick, t)
        BY <1>1, <3>1 DEF Picks
      <4>2. IsFiniteSet(u)
        BY <1>3, <3>1
      <4>3. QED BY <2>1, <3>1, <3>2, <4>1, <4>2, FoldIsUnique
    <3>4. k(t)[t] = step[<<pick[t], k(t)[u]>>]
      BY <2>1, <2>3 DEF IsFold
    <3>5. h[t] = step[<<pick[t], k(u)[u]>>]
      BY <2>3
    <3>6. QED BY <3>3, <3>4, <3>5
  <2>4. QED BY <2>2, <2>3
<1>5. IsFold(h, step, base, pick, s)
  <2>1. \A t \in SUBSET s : t # {} => t \ {pick[t]} \in SUBSET s /\ t \ {pick[t]} # s
    BY <1>1 DEF Picks
  <2>2. \A t \in SUBSET s : t # {} => h[t \ {pick[t]}] = k(t \ {pick[t]})[t \ {pick[t]}]
    <3> HIDE DEF h, k
    <3> QED BY <1>4, <2>1
  <2>3. h = [t \in SUBSET s |-> IF t = {} THEN base ELSE step[<<pick[t], h[t \ {pick[t]}]>>]]
    <3> HIDE DEF k
    <3> QED BY <2>2
  <2>4. QED BY <2>3 DEF IsFold
<1>6. QED BY <1>1, <1>5

\* A set of states that holds the base and is closed under the steps holds
\* every fold.
THEOREM FoldStays ==
  ASSUME NEW S, IsFiniteSet(S), NEW D, NEW step, \A x \in S, d \in D : step[<<x, d>>] \in D,
         NEW base \in D, NEW pick, Picks(pick, S), NEW h, IsFold(h, step, base, pick, S)
  PROVE  \A s \in SUBSET S : h[s] \in D
<1> DEFINE T == {s \in SUBSET S : h[s] \notin D}
<1> SUFFICES ASSUME T # {} PROVE FALSE
  OBVIOUS
<1>1. PICK s \in T : \A t \in T : t \subseteq s => t = s
  <2>1. T \subseteq SUBSET S
    OBVIOUS
  <2> HIDE DEF T
  <2>2. QED BY <2>1, Smallest
<1>2. s # {}
  BY DEF IsFold
<1>3. pick[s] \in s
  BY <1>1, <1>2 DEF Picks
<1>4. h[s \ {pick[s]}] \in D
  BY <1>1, <1>3
<1>5. h[s] = step[<<pick[s], h[s \ {pick[s]}]>>]
  BY <1>2 DEF IsFold
<1>6. QED BY <1>1, <1>3, <1>4, <1>5

(***************************************************************************)
(* Induction over the subsets of a finite set, with a set of good subsets  *)
(* in the place of a predicate, and what it says of sums                   *)
(***************************************************************************)
LEMMA SubsetInduction ==
  ASSUME NEW S, IsFiniteSet(S), NEW G, {} \in G,
         \A s \in SUBSET S : s # {} => \E x \in s : s \ {x} \in G => s \in G
  PROVE  S \in G
<1> DEFINE T == {s \in SUBSET S : s \notin G}
<1> SUFFICES ASSUME T # {} PROVE FALSE
  OBVIOUS
<1>1. PICK s \in T : \A t \in T : t \subseteq s => t = s
  <2>1. T \subseteq SUBSET S
    OBVIOUS
  <2> HIDE DEF T
  <2>2. QED BY <2>1, Smallest
<1>2. PICK x \in s : s \ {x} \in G => s \in G
  BY <1>1
<1>3. s \ {x} \notin T
  BY <1>1, <1>2
<1>4. QED BY <1>1, <1>2, <1>3

LEMMA SumOfSums ==
  ASSUME NEW S, IsFiniteSet(S), NEW f, NEW g, NEW h,
         \A x \in S : f[x] \in Int /\ g[x] \in Int /\ h[x] = f[x] + g[x]
  PROVE  SumFunctionOnSet(h, S) = SumFunctionOnSet(f, S) + SumFunctionOnSet(g, S)
<1> DEFINE F(s) == SumFunctionOnSet(f, s)
           G(s) == SumFunctionOnSet(g, s)
           H(s) == SumFunctionOnSet(h, s)
           Good == {s \in SUBSET S : H(s) = F(s) + G(s)}
<1>1. {} \in Good
  <2>1. H({}) = 0 /\ F({}) = 0 /\ G({}) = 0
    BY SumOfNothing
  <2> HIDE DEF F, G, H
  <2>2. QED BY <2>1
<1>2. ASSUME NEW s \in SUBSET S, NEW x \in s, s \ {x} \in Good PROVE s \in Good
  <2> DEFINE r == s \ {x}
  <2>1. IsFiniteSet(s) /\ IsFiniteSet(r)
    BY FS_Subset
  <2>2. F(s) = f[x] + F(r) /\ G(s) = g[x] + G(r)
    BY <2>1, SumOfOneAndRest
  <2>3. H(s) = h[x] + H(r)
    <3>1. \A z \in s : h[z] \in Int
      OBVIOUS
    <3>2. QED BY <2>1, <3>1, SumOfOneAndRest
  <2>4. F(r) \in Int /\ G(r) \in Int
    BY <2>1, SumType
  <2>5. H(r) = F(r) + G(r)
    BY <1>2
  <2>6. f[x] \in Int /\ g[x] \in Int /\ h[x] = f[x] + g[x]
    OBVIOUS
  <2> HIDE DEF F, G, H, r
  <2>7. H(s) = F(s) + G(s)
    BY <2>2, <2>3, <2>4, <2>5, <2>6
  <2>8. QED BY <2>7
<1>3. \A s \in SUBSET S : s # {} => \E x \in s : s \ {x} \in Good => s \in Good
  <2> HIDE DEF Good
  <2>1. QED BY <1>2
<1> HIDE DEF Good
<1>4. S \in Good
  BY <1>1, <1>3, SubsetInduction
<1>5. QED BY <1>4 DEF Good

\* A sum changes by what one member changes by.
LEMMA SumOfOneChange ==
  ASSUME NEW S, IsFiniteSet(S), NEW f, NEW g, NEW y \in S,
         \A x \in S : f[x] \in Int /\ g[x] \in Int /\ (x # y => g[x] = f[x])
  PROVE  SumFunctionOnSet(g, S) = SumFunctionOnSet(f, S) - f[y] + g[y]
<1>1. SumFunctionOnSet(f, S) = f[y] + SumFunctionOnSet(f, S \ {y})
  BY SumOfOneAndRest
<1>2. SumFunctionOnSet(g, S) = g[y] + SumFunctionOnSet(g, S \ {y})
  BY SumOfOneAndRest
<1>3. IsFiniteSet(S \ {y})
  BY FS_RemoveElement
<1>4. SumFunctionOnSet(f, S \ {y}) = SumFunctionOnSet(g, S \ {y})
  BY <1>3, SumCongruence
<1>5. SumFunctionOnSet(f, S \ {y}) \in Int
  BY <1>3, SumType
<1>6. f[y] \in Int /\ g[y] \in Int
  OBVIOUS
<1>7. QED BY <1>1, <1>2, <1>4, <1>5, <1>6

\* What is added up key by key is added up.
LEMMA SumByKey ==
  ASSUME NEW L, IsFiniteSet(L), NEW I, IsFiniteSet(I), NEW f, NEW k,
         \A x \in L : f[x] \in Int /\ k[x] \in I
  PROVE  SumFunctionOnSet([i \in I |-> SumFunctionOnSet(f, {x \in L : k[x] = i})], I)
           = SumFunctionOnSet(f, L)
<1> DEFINE F(s) == SumFunctionOnSet(f, s)
           Of(s, i) == {x \in s : k[x] = i}
           Each(s) == [i \in I |-> F(Of(s, i))]
           Total(s) == SumFunctionOnSet(Each(s), I)
           Good == {s \in SUBSET L : Total(s) = F(s)}
<1>0. \A s \in SUBSET L : IsFiniteSet(s) /\ F(s) \in Int
  BY FS_Subset, SumType
<1>1. {} \in Good
  <2>1. F({}) = 0
    BY SumOfNothing
  <2>2. \A i \in I : Of({}, i) = {}
    OBVIOUS
  <2>3. \A i \in I : Each({})[i] = 0
    <3> HIDE DEF F, Of
    <3>1. QED BY <2>1, <2>2
  <2>4. Total({}) = 0
    <3> HIDE DEF Each
    <3>1. QED BY <2>3, SumOfZeros
  <2> HIDE DEF Total, F
  <2>5. QED BY <2>1, <2>4
<1>2. ASSUME NEW s \in SUBSET L, NEW x \in s, s \ {x} \in Good PROVE s \in Good
  <2> DEFINE r == s \ {x}
             i == k[x]
  <2>1. \A j \in I : j # i => Of(s, j) = Of(r, j)
    OBVIOUS
  <2>2. x \in Of(s, i) /\ Of(s, i) \ {x} = Of(r, i)
    OBVIOUS
  <2>3. F(Of(s, i)) = f[x] + F(Of(r, i))
    <3>1. Of(s, i) \in SUBSET L
      OBVIOUS
    <3>2. IsFiniteSet(Of(s, i)) /\ \A z \in Of(s, i) : f[z] \in Int
      BY <1>0, <3>1
    <3> DEFINE here == Of(s, i)
    <3>3. IsFiniteSet(here) /\ (\A z \in here : f[z] \in Int) /\ x \in here
      BY <2>2, <3>2
    <3>4. here \ {x} = Of(r, i)
      BY <2>2
    <3> HIDE DEF here
    <3>5. F(here) = f[x] + F(here \ {x})
      BY <3>3, SumOfOneAndRest
    <3>6. QED BY <3>4, <3>5 DEF here
  <2>4. F(s) = f[x] + F(r)
    BY <1>0, SumOfOneAndRest
  <2>5. \A j \in I : Of(s, j) \in SUBSET L /\ Of(r, j) \in SUBSET L
    OBVIOUS
  <2>6. i \in I /\ f[x] \in Int
    OBVIOUS
  <2>7. \A j \in I : /\ Each(r)[j] \in Int /\ Each(s)[j] \in Int
                     /\ j # i => Each(s)[j] = Each(r)[j]
    <3> HIDE DEF F, Of, i, r
    <3>1. QED BY <1>0, <2>1, <2>5
  <2>8. Each(s)[i] = f[x] + Each(r)[i]
    <3> HIDE DEF F, Of, i, r
    <3>1. QED BY <2>3, <2>6
  <2>9. Total(s) = Total(r) - Each(r)[i] + Each(s)[i]
    <3> HIDE DEF Each, r, i
    <3>1. QED BY <2>6, <2>7, SumOfOneChange
  <2>10. Total(r) = F(r) /\ F(r) \in Int
    BY <1>0, <1>2
  <2>11. Each(r)[i] \in Int /\ Each(s)[i] \in Int
    BY <2>6, <2>7
  <2> HIDE DEF Each, r, i, F, Total
  <2>12. Total(s) = F(s)
    BY <2>4, <2>6, <2>8, <2>9, <2>10, <2>11
  <2>13. QED BY <2>12
<1>3. \A s \in SUBSET L : s # {} => \E x \in s : s \ {x} \in Good => s \in Good
  <2> HIDE DEF Good
  <2>1. QED BY <1>2
<1>4. L \in Good
  <2> HIDE DEF Good
  <2>1. QED BY <1>1, <1>3, SubsetInduction
<1>5. QED BY <1>4

\* A finite set that is totally ordered has a last member.
LEMMA LastExists ==
  ASSUME NEW S, IsFiniteSet(S), S # {}, NEW R,
         \A a, b \in S : <<a, b>> \in R \/ <<b, a>> \in R,
         \A a, b, c \in S : <<a, b>> \in R /\ <<b, c>> \in R => <<a, c>> \in R
  PROVE  \E a \in S : \A b \in S : <<b, a>> \in R
<1> DEFINE HasLast(s) == \E a \in s : \A b \in s : <<b, a>> \in R
           Good == {s \in SUBSET S : s = {} \/ HasLast(s)}
<1>1. ASSUME NEW s \in SUBSET S, NEW x \in s, s \ {x} \in Good PROVE s \in Good
  <2>1. CASE s \ {x} = {}
    <3>1. \A b \in s : <<b, x>> \in R
      BY <2>1
    <3>2. QED BY <3>1
  <2>2. CASE HasLast(s \ {x})
    <3>1. PICK a \in s \ {x} : \A b \in s \ {x} : <<b, a>> \in R
      BY <2>2
    <3>2. CASE <<x, a>> \in R
      <4>1. \A b \in s : <<b, a>> \in R
        BY <3>1, <3>2
      <4>2. QED BY <4>1
    <3>3. CASE <<a, x>> \in R
      <4>1. \A b \in s : <<b, x>> \in R
        BY <3>1, <3>3
      <4>2. QED BY <4>1
    <3>4. <<x, a>> \in R \/ <<a, x>> \in R
      BY <3>1
    <3>5. QED BY <3>2, <3>3, <3>4
  <2> HIDE DEF HasLast
  <2>3. QED BY <1>1, <2>1, <2>2
<1>2. {} \in Good
  OBVIOUS
<1>3. \A s \in SUBSET S : s # {} => \E x \in s : s \ {x} \in Good => s \in Good
  <2> HIDE DEF Good
  <2>1. QED BY <1>1
<1>4. S \in Good
  <2> HIDE DEF Good
  <2>1. QED BY <1>2, <1>3, SubsetInduction
<1>5. QED BY <1>4
=============================================================================
