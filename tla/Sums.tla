-------------------------------- MODULE Sums --------------------------------
(***************************************************************************)
(* What SumFunction of the community modules returns, for any finite set   *)
(* of arguments and any integer values: the sums of balances, scores,      *)
(* bounties and counts in the models are reasoned about with it.           *)
(*                                                                         *)
(* SumFunction adds up in the order in which CHOOSE picks the arguments.   *)
(* That no order gives another sum is shown by induction over the subsets  *)
(* of the arguments, each statement being a set Q of such subsets.         *)
(***************************************************************************)
EXTENDS Integers, Functions, FiniteSetTheorems, TLAPS

-----------------------------------------------------------------------------
(* A set of subsets of S that has every subset of which it has all the     *)
(* sets with one element less, is the set of all subsets.                  *)
LEMMA SubsetInduction ==
  ASSUME NEW S, IsFiniteSet(S), NEW Q \in SUBSET (SUBSET S),
         \A t \in SUBSET S : (\A x \in t : t \ {x} \in Q) => t \in Q
  PROVE  Q = SUBSET S
<1> SUFFICES ASSUME (SUBSET S) \ Q # {} PROVE FALSE
  OBVIOUS
<1> DEFINE B == (SUBSET S) \ Q
           R == StrictSubsetOrdering(S)
<1>1. FiniteSubsetsOf(S) = SUBSET S
  BY FS_FiniteSubsetsOfFinite
<1>2. IsWellFoundedOn(R, SUBSET S)
  BY <1>1, FS_StrictSubsetOrderingWellFounded
<1>3. B \subseteq SUBSET S /\ B # {}
  OBVIOUS
<1> HIDE DEF R, B
<1>4. PICK t \in B : \A u \in B : ~(<<u, t>> \in R)
  BY <1>2, <1>3, WFMin
<1>5. t \in SUBSET S /\ t \notin Q
  BY DEF B
<1>6. PICK x \in t : t \ {x} \notin Q
  BY <1>5
<1>7. t \ {x} \in B
  BY <1>5, <1>6 DEF B
<1>8. <<t \ {x}, t>> \in R
  BY <1>5, <1>6 DEF R, StrictSubsetOrdering
<1> QED
  BY <1>4, <1>7, <1>8

(* The same over the natural numbers.                                      *)
LEMMA CountingInduction ==
  ASSUME NEW Q \in SUBSET Nat, 0 \in Q, \A n \in Q : n + 1 \in Q
  PROVE  Q = Nat
<1> SUFFICES ASSUME Nat \ Q # {} PROVE FALSE
  OBVIOUS
<1>1. PICK n \in Nat \ Q : \A m \in Nat \ Q : ~(<<m, n>> \in OpToRel(<, Nat))
  BY NatLessThanWellFounded, WFMin
<1>2. n # 0
  OBVIOUS
<1>3. n - 1 \in Nat /\ n - 1 < n /\ (n - 1) + 1 = n
  BY <1>2
<1>4. n - 1 \in Q
  <2>1. <<n - 1, n>> \in OpToRel(<, Nat)
    BY <1>3 DEF OpToRel
  <2> QED
    BY <1>1, <1>3, <2>1
<1> QED
  BY <1>3, <1>4

Pick(s) == CHOOSE x \in s : TRUE

Added(f, h, s) == IF s = {} THEN 0 ELSE f[Pick(s)] + h[s \ {Pick(s)}]

AddsUp(f, D, h) == h = [s \in D |-> Added(f, h, s)]

Iter(f, S) == CHOOSE iter : AddsUp(f, SUBSET S, iter)

LEMMA SumIsIter ==
  ASSUME NEW f
  PROVE  SumFunction(f) = Iter(f, DOMAIN f)[DOMAIN f]
BY DEF SumFunction, SumFunctionOnSet, FoldFunctionOnSet, MapThenFoldSet, Iter, AddsUp, Added, Pick

LEMMA IterExists ==
  ASSUME NEW f, NEW S, IsFiniteSet(S)
  PROVE  AddsUp(f, SUBSET S, Iter(f, S))
<1> DEFINE Small(n) == {s \in SUBSET S : Cardinality(s) <= n}
           Q == {n \in Nat : \E h : AddsUp(f, Small(n), h)}
<1>0. \A s \in SUBSET S : IsFiniteSet(s) /\ Cardinality(s) \in Nat
  BY FS_Subset, FS_CardinalityType
<1>1. \A s \in SUBSET S : s # {} => /\ Pick(s) \in s
                                    /\ Cardinality(s \ {Pick(s)}) = Cardinality(s) - 1
  BY <1>0, FS_RemoveElement DEF Pick
<1>2. 0 \in Q
  <2> DEFINE h == [s \in Small(0) |-> 0]
  <2>1. \A s \in Small(0) : s = {}
    BY <1>0, FS_EmptySet
  <2>2. AddsUp(f, Small(0), h)
    BY <2>1 DEF AddsUp, Added
  <2> QED
    BY <2>2
<1>3. ASSUME NEW n \in Q PROVE n + 1 \in Q
  <2>1. n \in Nat
    OBVIOUS
  <2>2. PICK h : AddsUp(f, Small(n), h)
    OBVIOUS
  <2> DEFINE g == [s \in Small(n + 1) |-> Added(f, h, s)]
  <2>3. ASSUME NEW s \in Small(n + 1), s # {}
        PROVE  g[s \ {Pick(s)}] = h[s \ {Pick(s)}]
    <3>1. s \ {Pick(s)} \in Small(n) /\ s \ {Pick(s)} \in Small(n + 1)
      BY <1>0, <1>1, <2>1, <2>3
    <3> QED
      BY <2>2, <3>1 DEF AddsUp
  <2>4. AddsUp(f, Small(n + 1), g)
    <3> SUFFICES ASSUME NEW s \in Small(n + 1) PROVE g[s] = Added(f, g, s)
      BY Zenon DEF AddsUp
    <3>1. g[s] = Added(f, h, s)
      BY Zenon
    <3> HIDE DEF g
    <3> QED
      BY <2>3, <3>1 DEF Added
  <2> HIDE DEF g
  <2> QED
    BY <2>1, <2>4
<1>4. Q = Nat
  <2> HIDE DEF Q
  <2> QED
    BY <1>2, <1>3, CountingInduction DEF Q
<1>5. Cardinality(S) \in Nat /\ Small(Cardinality(S)) = SUBSET S
  BY FS_Subset, FS_CardinalityType
<1>6. \E h : AddsUp(f, SUBSET S, h)
  <2>1. Cardinality(S) \in Q
    BY <1>4, <1>5
  <2>2. \E h : AddsUp(f, Small(Cardinality(S)), h)
    BY <2>1
  <2> HIDE DEF Q, Small
  <2> QED
    BY <1>5, <2>2, Zenon
<1> HIDE DEF Q, Small
<1> QED
  BY <1>6, Zenon DEF Iter

(* What I adds of f over each subset of S: nothing for the empty set, and  *)
(* else the value of one element to the sum over the others.               *)
Sums(f, S, I) ==
  \A u \in SUBSET S :
    /\ u = {} => I[u] = 0
    /\ u # {} => Pick(u) \in u /\ I[u] = f[Pick(u)] + I[u \ {Pick(u)}]

LEMMA IterStep ==
  ASSUME NEW f, NEW S, IsFiniteSet(S)
  PROVE  Sums(f, S, Iter(f, S))
<1> DEFINE I == Iter(f, S)
<1>1. AddsUp(f, SUBSET S, I)
  BY IterExists
<1> HIDE DEF I
<1>2. I = [s \in SUBSET S |-> Added(f, I, s)]
  BY <1>1, Zenon DEF AddsUp
<1>3. \A u \in SUBSET S : I[u] = Added(f, I, u)
  BY <1>2, Zenon
<1>4. \A u : u # {} => Pick(u) \in u
  BY DEF Pick
<1> QED
  BY <1>3, <1>4, Zenon DEF Added, Sums, I

(* The sum over any subset is a number, and any element of the subset may  *)
(* be the one that is added last.                                          *)
LEMMA IterType ==
  ASSUME NEW S, IsFiniteSet(S), NEW f \in [S -> Int], NEW t \in SUBSET S
  PROVE  Iter(f, S)[t] \in Int
<1> DEFINE I == Iter(f, S)
           Q == {u \in SUBSET S : I[u] \in Int}
<1>0. Sums(f, S, I)
  BY IterStep
<1> HIDE DEF I
<1>1. \A u \in SUBSET S :
        /\ u = {} => I[u] = 0
        /\ u # {} => Pick(u) \in u /\ I[u] = f[Pick(u)] + I[u \ {Pick(u)}]
  BY <1>0, Zenon DEF Sums
<1>2. ASSUME NEW u \in SUBSET S, \A x \in u : u \ {x} \in Q
      PROVE  u \in Q
  <2> SUFFICES I[u] \in Int
    OBVIOUS
  <2>1. CASE u = {}
    <3>1. I[u] = 0
      BY <1>1, <2>1, Zenon
    <3>2. 0 \in Int
      OBVIOUS
    <3> QED
      BY <3>1, <3>2, Zenon
  <2>2. CASE u # {}
    <3>1. Pick(u) \in u
      BY <1>1, <2>2
    <3>2. I[u \ {Pick(u)}] \in Int /\ f[Pick(u)] \in Int
      BY <1>2, <3>1
    <3>3. f[Pick(u)] + I[u \ {Pick(u)}] \in Int
      BY <3>2
    <3>4. I[u] = f[Pick(u)] + I[u \ {Pick(u)}]
      BY <1>1, <2>2
    <3> QED
      BY <3>3, <3>4, Zenon
  <2> QED
    BY <2>1, <2>2
<1>3. Q \in SUBSET (SUBSET S)
  OBVIOUS
<1> HIDE DEF Q
<1>4. Q = SUBSET S
  BY <1>2, <1>3, SubsetInduction
<1> QED
  BY <1>4 DEF Q, I

LEMMA IterSplit ==
  ASSUME NEW S, IsFiniteSet(S), NEW f \in [S -> Int], NEW t \in SUBSET S, NEW z \in t
  PROVE  Iter(f, S)[t] = f[z] + Iter(f, S)[t \ {z}]
<1> DEFINE I == Iter(f, S)
           Q == {u \in SUBSET S : \A x \in u : I[u] = f[x] + I[u \ {x}]}
<1>0. Sums(f, S, I)
  BY IterStep
<1>i. \A u \in SUBSET S : I[u] \in Int
  BY IterType, Zenon
<1> HIDE DEF I
<1>1. \A u \in SUBSET S :
        u # {} => Pick(u) \in u /\ I[u] = f[Pick(u)] + I[u \ {Pick(u)}]
  BY <1>0, Zenon DEF Sums
<1>2. ASSUME NEW u \in SUBSET S, \A x \in u : u \ {x} \in Q
      PROVE  u \in Q
  <2> SUFFICES ASSUME NEW x \in u PROVE I[u] = f[x] + I[u \ {x}]
    OBVIOUS
  <2> DEFINE p == Pick(u)
  <2>1. p \in u
    BY <1>1
  <2>2. I[u] = f[p] + I[u \ {p}]
    BY <1>1
  <2> HIDE DEF p
  <2>3. CASE x = p
    BY <2>2, <2>3
  <2>4. CASE x # p
    <3>1. I[u \ {p}] = f[x] + I[(u \ {p}) \ {x}]
      BY <1>2, <2>1, <2>4
    <3>2. I[u \ {x}] = f[p] + I[(u \ {x}) \ {p}]
      BY <1>2, <2>1, <2>4
    <3>3. (u \ {p}) \ {x} = (u \ {x}) \ {p}
      OBVIOUS
    <3>4. /\ I[(u \ {x}) \ {p}] \in Int /\ I[u \ {x}] \in Int /\ I[u \ {p}] \in Int
          /\ f[x] \in Int /\ f[p] \in Int
      BY <1>i, <2>1
    <3> DEFINE a == f[x]
               b == f[p]
               rest == I[(u \ {x}) \ {p}]
               k == I[u \ {x}]
               j == I[u \ {p}]
    <3>5. /\ a \in Int /\ b \in Int /\ rest \in Int /\ k \in Int /\ j \in Int
          /\ j = a + rest /\ k = b + rest /\ I[u] = b + j
      BY <2>2, <3>1, <3>2, <3>3, <3>4, Zenon
    <3> HIDE DEF a, b, rest, k, j
    <3>6. b + j = a + k
      BY <3>5
    <3>7. I[u] = a + k
      BY <3>5, <3>6, Zenon
    <3> QED
      BY <3>7, Zenon DEF a, k
  <2> QED
    BY <2>3, <2>4
<1>3. Q \in SUBSET (SUBSET S)
  OBVIOUS
<1> HIDE DEF Q
<1>4. Q = SUBSET S
  BY <1>2, <1>3, SubsetInduction
<1> QED
  BY <1>4 DEF Q, I

(* Only the values on the subset count.                                    *)
LEMMA IterAgree ==
  ASSUME NEW S, IsFiniteSet(S), NEW f \in [S -> Int],
         NEW R, IsFiniteSet(R), NEW g \in [R -> Int],
         NEW t, t \subseteq S, t \subseteq R, \A x \in t : f[x] = g[x]
  PROVE  Iter(f, S)[t] = Iter(g, R)[t]
<1> DEFINE I == Iter(f, S)
           J == Iter(g, R)
           Q == {u \in SUBSET t : I[u] = J[u]}
<1>0. Sums(f, S, I) /\ Sums(g, R, J)
  BY IterStep
<1> HIDE DEF I, J
<1>1. \A u \in SUBSET t :
        /\ u = {} => I[u] = 0 /\ J[u] = 0
        /\ u # {} => /\ Pick(u) \in u
                     /\ I[u] = f[Pick(u)] + I[u \ {Pick(u)}]
                     /\ J[u] = g[Pick(u)] + J[u \ {Pick(u)}]
  <2>1. \A u \in SUBSET t : u \in SUBSET S /\ u \in SUBSET R
    OBVIOUS
  <2> QED
    BY <1>0, <2>1, Zenon DEF Sums
<1>2. ASSUME NEW u \in SUBSET t, \A x \in u : u \ {x} \in Q
      PROVE  u \in Q
  <2> SUFFICES I[u] = J[u]
    OBVIOUS
  <2>1. CASE u = {}
    BY <1>1, <2>1
  <2>2. CASE u # {}
    <3>1. Pick(u) \in u
      BY <1>1, <2>2
    <3>2. I[u \ {Pick(u)}] = J[u \ {Pick(u)}] /\ f[Pick(u)] = g[Pick(u)]
      BY <1>2, <3>1
    <3>3. /\ I[u] = f[Pick(u)] + I[u \ {Pick(u)}]
          /\ J[u] = g[Pick(u)] + J[u \ {Pick(u)}]
      BY <1>1, <2>2
    <3> QED
      BY <3>2, <3>3, Zenon
  <2> QED
    BY <2>1, <2>2
<1>3. Q \in SUBSET (SUBSET t) /\ IsFiniteSet(t)
  BY FS_Subset
<1> HIDE DEF Q
<1>4. Q = SUBSET t
  BY <1>2, <1>3, SubsetInduction
<1> QED
  BY <1>4 DEF Q, I, J
-----------------------------------------------------------------------------
(* The sum of the values of a function is a number; without arguments it   *)
(* is zero; one argument more adds its value, whatever the order.          *)
LEMMA SumType ==
  ASSUME NEW S, IsFiniteSet(S), NEW f \in [S -> Int]
  PROVE  SumFunction(f) \in Int
BY SumIsIter, IterType

LEMMA SumEmpty ==
  ASSUME NEW f \in [{} -> Int]
  PROVE  SumFunction(f) = 0
<1>1. Sums(f, {}, Iter(f, {}))
  BY IterStep, FS_EmptySet
<1>2. Iter(f, {})[{}] = 0
  BY <1>1, Zenon DEF Sums
<1> QED
  BY <1>2, SumIsIter

LEMMA SumOneMore ==
  ASSUME NEW S, IsFiniteSet(S), NEW f \in [S -> Int],
         NEW x, x \notin S, NEW g \in [S \cup {x} -> Int],
         \A y \in S : g[y] = f[y]
  PROVE  SumFunction(g) = SumFunction(f) + g[x]
<1> DEFINE R == S \cup {x}
<1>1. IsFiniteSet(R) /\ g \in [R -> Int] /\ x \in R /\ R \ {x} = S /\ S \subseteq R
  BY FS_AddElement
<1> HIDE DEF R
<1>2. Iter(g, R)[R] = g[x] + Iter(g, R)[R \ {x}]
  BY <1>1, IterSplit
<1>3. Iter(g, R)[S] = Iter(f, S)[S]
  BY <1>1, IterAgree
<1>4. SumFunction(g) = Iter(g, R)[R] /\ SumFunction(f) = Iter(f, S)[S]
  <2>1. DOMAIN g = R /\ DOMAIN f = S
    BY <1>1
  <2> QED
    BY <2>1, SumIsIter
<1>5. SumFunction(f) \in Int /\ g[x] \in Int
  BY <1>1, SumType
<1>6. SumFunction(g) = g[x] + SumFunction(f)
  BY <1>1, <1>2, <1>3, <1>4, Zenon
<1> QED
  BY <1>5, <1>6

(* Without values other than zero there is nothing to add up.              *)
LEMMA SumZero ==
  ASSUME NEW S, IsFiniteSet(S)
  PROVE  SumFunction([x \in S |-> 0]) = 0
<1> DEFINE f == [x \in S |-> 0]
           I == Iter(f, S)
           Q == {u \in SUBSET S : I[u] = 0}
<1>0. f \in [S -> Int] /\ \A x \in S : f[x] = 0
  OBVIOUS
<1> HIDE DEF f
<1>1. /\ Sums(f, S, I)
      /\ \A t \in SUBSET S : \A z \in t : I[t] = f[z] + I[t \ {z}]
      /\ SumFunction(f) = I[S]
  BY <1>0, IterStep, IterSplit, SumIsIter
<1> HIDE DEF I
<1>2. ASSUME NEW u \in SUBSET S, \A x \in u : u \ {x} \in Q
      PROVE  u \in Q
  <2>1. CASE u = {}
    <3>1. I[u] = 0
      BY <1>1, <2>1, Zenon DEF Sums
    <3> QED
      BY <3>1
  <2>2. CASE u # {}
    <3>1. PICK x \in u : TRUE
      BY <2>2
    <3>2. I[u \ {x}] = 0 /\ f[x] = 0
      BY <1>0, <1>2, <3>1
    <3>3. I[u] = f[x] + I[u \ {x}]
      BY <1>1, <3>1
    <3> QED
      BY <3>2, <3>3
  <2> QED
    BY <2>1, <2>2
<1>3. Q \in SUBSET (SUBSET S)
  OBVIOUS
<1>4. \A u \in Q : I[u] = 0
  OBVIOUS
<1> HIDE DEF Q
<1>5. Q = SUBSET S
  BY <1>2, <1>3, SubsetInduction
<1> QED
  BY <1>1, <1>4, <1>5 DEF f

(* A sum of natural numbers is one, and no value is more than the sum.     *)
LEMMA SumNat ==
  ASSUME NEW S, IsFiniteSet(S), NEW f \in [S -> Nat]
  PROVE  /\ SumFunction(f) \in Nat
         /\ \A x \in S : f[x] <= SumFunction(f)
<1> DEFINE I == Iter(f, S)
           Q == {u \in SUBSET S : I[u] \in Nat}
<1>0. f \in [S -> Int]
  OBVIOUS
<1>1. /\ Sums(f, S, I)
      /\ \A t \in SUBSET S : \A z \in t : I[t] = f[z] + I[t \ {z}]
      /\ SumFunction(f) = I[S]
  BY <1>0, IterStep, IterSplit, SumIsIter
<1> HIDE DEF I
<1>2. ASSUME NEW u \in SUBSET S, \A x \in u : u \ {x} \in Q
      PROVE  u \in Q
  <2>1. CASE u = {}
    <3>1. I[u] = 0
      BY <1>1, <2>1, Zenon DEF Sums
    <3> QED
      BY <3>1
  <2>2. CASE u # {}
    <3>1. PICK x \in u : TRUE
      BY <2>2
    <3>2. I[u \ {x}] \in Nat /\ f[x] \in Nat
      BY <1>2, <3>1
    <3>3. I[u] = f[x] + I[u \ {x}]
      BY <1>1, <3>1
    <3> QED
      BY <3>2, <3>3
  <2> QED
    BY <2>1, <2>2
<1>3. Q \in SUBSET (SUBSET S)
  OBVIOUS
<1>4. \A u \in Q : I[u] \in Nat
  OBVIOUS
<1> HIDE DEF Q
<1>5. Q = SUBSET S
  BY <1>2, <1>3, SubsetInduction
<1>6. ASSUME NEW x \in S PROVE f[x] <= I[S]
  <2>1. I[S] = f[x] + I[S \ {x}]
    BY <1>1
  <2>2. I[S \ {x}] \in Nat /\ f[x] \in Nat
    BY <1>4, <1>5
  <2> QED
    BY <2>1, <2>2
<1> QED
  BY <1>1, <1>4, <1>5, <1>6

(* Two functions that differ in one argument.                              *)
LEMMA SumOneChanged ==
  ASSUME NEW S, IsFiniteSet(S), NEW f \in [S -> Int], NEW g \in [S -> Int],
         NEW x \in S, \A y \in S \ {x} : g[y] = f[y]
  PROVE  SumFunction(g) = SumFunction(f) - f[x] + g[x]
<1>1. /\ Iter(g, S)[S] = g[x] + Iter(g, S)[S \ {x}]
      /\ Iter(f, S)[S] = f[x] + Iter(f, S)[S \ {x}]
  BY IterSplit
<1>2. Iter(g, S)[S \ {x}] = Iter(f, S)[S \ {x}]
  BY IterAgree
<1>3. SumFunction(g) = Iter(g, S)[S] /\ SumFunction(f) = Iter(f, S)[S]
  BY SumIsIter
<1>4. Iter(f, S)[S \ {x}] \in Int /\ f[x] \in Int /\ g[x] \in Int
  BY IterType
<1> QED
  BY <1>1, <1>2, <1>3, <1>4

(* Two functions that differ in two arguments, and there have the same sum.*)
LEMMA SumBalanced ==
  ASSUME NEW S, IsFiniteSet(S), NEW f \in [S -> Int], NEW g \in [S -> Int],
         NEW x \in S, NEW y \in S, x # y, \A z \in S \ {x, y} : g[z] = f[z],
         g[x] + g[y] = f[x] + f[y]
  PROVE  SumFunction(g) = SumFunction(f)
<1> DEFINE h == [f EXCEPT ![x] = g[x]]
<1>1. /\ h \in [S -> Int] /\ h[x] = g[x] /\ h[y] = f[y]
      /\ \A z \in S \ {x} : h[z] = f[z]
      /\ \A z \in S \ {y} : g[z] = h[z]
  OBVIOUS
<1> HIDE DEF h
<1>2. SumFunction(h) = SumFunction(f) - f[x] + h[x]
  BY <1>1, SumOneChanged
<1>3. SumFunction(g) = SumFunction(h) - h[y] + g[y]
  BY <1>1, SumOneChanged
<1>4. /\ SumFunction(f) \in Int /\ f[x] \in Int /\ f[y] \in Int
      /\ g[x] \in Int /\ g[y] \in Int
  BY SumType
<1> QED
  BY <1>1, <1>2, <1>3, <1>4
=============================================================================
