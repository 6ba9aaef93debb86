----------------------------- MODULE FiniteSums -----------------------------
(***************************************************************************)
(* What SumFunctionOnSet returns for a finite set of indices, whatever the *)
(* function: the facts about sums that the proofs of the wallet, of the    *)
(* secondary market and of the primary offering share.  The sum is a fold  *)
(* over a recursive function that exists only if its equation has a        *)
(* solution, so that is what is proved first; an argument by induction     *)
(* over the subsets of a finite set takes a smallest counterexample.       *)
(***************************************************************************)
EXTENDS Integers, FiniteSets, Functions, FiniteSetTheorems,
        WellFoundedInduction, TLAPS

(* The element a fold takes out first, and one unfolding of the sum of F   *)
(* over the subsets of S.                                                  *)
Pick(s) == CHOOSE x \in s : TRUE

Unfold(F, S, g) ==
  [s \in SUBSET S |-> IF s = {} THEN 0 ELSE F[Pick(s)] + g[s \ {Pick(s)}]]

(* Among subsets of a finite set one is smallest.                          *)
LEMMA SmallestSubset ==
  ASSUME NEW S, IsFiniteSet(S), NEW B \in SUBSET SUBSET S, B # {}
  PROVE  \E s \in B : \A u \in B : u \subseteq s => u = s
<1>1. IsWellFoundedOn(StrictSubsetOrdering(S), SUBSET S)
  BY FS_StrictSubsetOrderingWellFounded, FS_FiniteSubsetsOfFinite
<1>2. \E s \in B : \A u \in B : <<u, s>> \notin StrictSubsetOrdering(S)
  BY <1>1, WFMin
<1> QED
  BY <1>2 DEF StrictSubsetOrdering

(* The sum is what some solution of the equation says, if one exists.      *)
LEMMA SumBySolution ==
  ASSUME NEW F, NEW S, \E g : g = Unfold(F, S, g)
  PROVE  \E g : g = Unfold(F, S, g) /\ SumFunctionOnSet(F, S) = g[S]
<1>1. SumFunctionOnSet(F, S)
        = MapThenFoldSet(+, 0, LAMBDA i : F[i], LAMBDA s : CHOOSE x \in s : TRUE, S)
  BY DEF SumFunctionOnSet, FoldFunctionOnSet
<1>2. MapThenFoldSet(+, 0, LAMBDA i : F[i], LAMBDA s : CHOOSE x \in s : TRUE, S)
        = (CHOOSE g : g = Unfold(F, S, g))[S]
  BY Zenon DEF MapThenFoldSet, Unfold, Pick
<1>3. (CHOOSE g : g = Unfold(F, S, g)) = Unfold(F, S, CHOOSE g : g = Unfold(F, S, g))
  BY Zenon
<1> QED
  BY <1>1, <1>2, <1>3

(* A non-empty set has the element that is picked.                         *)
LEMMA Picked == ASSUME NEW s, s # {} PROVE Pick(s) \in s
BY DEF Pick

(* Two solutions agree on the sets both are defined for.                   *)
LEMMA OneSolution ==
  ASSUME NEW F, NEW A, NEW B, NEW g, NEW k,
         g = Unfold(F, A, g), k = Unfold(F, B, k),
         NEW S, IsFiniteSet(S), S \subseteq A, S \subseteq B
  PROVE  g[S] = k[S]
<1> DEFINE Bad == {s \in SUBSET S : g[s] # k[s]}
<1>1. SUFFICES ASSUME Bad # {} PROVE FALSE
  OBVIOUS
<1>2. PICK s \in Bad : \A u \in Bad : u \subseteq s => u = s
  <2>1. Bad \in SUBSET SUBSET S
    OBVIOUS
  <2> HIDE DEF Bad
  <2> QED
    BY <1>1, <2>1, SmallestSubset
<1>3. /\ g[s] = IF s = {} THEN 0 ELSE F[Pick(s)] + g[s \ {Pick(s)}]
      /\ k[s] = IF s = {} THEN 0 ELSE F[Pick(s)] + k[s \ {Pick(s)}]
  <2>1. s \in SUBSET A /\ s \in SUBSET B
    OBVIOUS
  <2> QED
    BY <2>1, Zenon DEF Unfold
<1>4. s # {}
  BY <1>3
<1>5. s \ {Pick(s)} \in SUBSET S /\ s \ {Pick(s)} # s /\ s \ {Pick(s)} \subseteq s
  BY <1>4, Picked
<1>6. g[s \ {Pick(s)}] = k[s \ {Pick(s)}]
  BY <1>2, <1>5
<1> QED
  BY <1>3, <1>4, <1>6

(* The equation has a solution over the subsets of a finite set.           *)
LEMMA SolutionExists ==
  ASSUME NEW F, NEW S, IsFiniteSet(S)
  PROVE  \E g : g = Unfold(F, S, g)
<1> DEFINE Bad == {s \in SUBSET S : ~ \E g : g = Unfold(F, s, g)}
<1>1. SUFFICES ASSUME Bad # {} PROVE FALSE
  OBVIOUS
<1>2. PICK s \in Bad : \A u \in Bad : u \subseteq s => u = s
  <2>1. Bad \in SUBSET SUBSET S
    OBVIOUS
  <2> HIDE DEF Bad
  <2> QED
    BY <1>1, <2>1, SmallestSubset
<1> DEFINE Sol(u) == CHOOSE g : g = Unfold(F, u, g)
           Val(u) == Sol(u)[u]
           G == [u \in SUBSET s |->
                   IF u = {} THEN 0 ELSE F[Pick(u)] + Val(u \ {Pick(u)})]
<1>3. ASSUME NEW u \in SUBSET s, u # s
      PROVE  Sol(u) = Unfold(F, u, Sol(u))
  <2>1. u \in SUBSET S /\ u \notin Bad
    BY <1>2, <1>3
  <2>2. \E g : g = Unfold(F, u, g)
    BY <2>1
  <2> QED
    BY <2>2, Zenon
<1>4. ASSUME NEW u \in SUBSET s, u # s
      PROVE  G[u] = Val(u)
  <2>1. Val(u) = IF u = {} THEN 0 ELSE F[Pick(u)] + Sol(u)[u \ {Pick(u)}]
    <3>1. u \in SUBSET u
      OBVIOUS
    <3>2. Sol(u)[u] = Unfold(F, u, Sol(u))[u]
      BY <1>3, <1>4
    <3> HIDE DEF Sol
    <3> QED
      BY <3>1, <3>2, Zenon DEF Unfold
  <2>2. CASE u = {}
    BY <2>1, <2>2
  <2>3. CASE u # {}
    <3> DEFINE w == u \ {Pick(u)}
    <3>1. w \in SUBSET s /\ w # s /\ w \subseteq u
      BY <2>3, Picked, <1>4
    <3>2. Sol(w) = Unfold(F, w, Sol(w)) /\ Sol(u) = Unfold(F, u, Sol(u))
      BY <1>3, <1>4, <3>1
    <3>3. IsFiniteSet(w)
      BY <3>1, FS_Subset, s \in SUBSET S
    <3> HIDE DEF Sol, w
    <3>4. Sol(u)[w] = Sol(w)[w]
      BY <3>1, <3>2, <3>3, OneSolution, w \subseteq w
    <3> QED
      BY <2>1, <2>3, <3>4, Zenon DEF w
  <2> QED
    BY <2>2, <2>3
<1>5. G = Unfold(F, s, G)
  <2>1. ASSUME NEW u \in SUBSET s, u # {}
        PROVE  Val(u \ {Pick(u)}) = G[u \ {Pick(u)}]
    <3>1. u \ {Pick(u)} \in SUBSET s /\ u \ {Pick(u)} # s
      BY <2>1, Picked
    <3> QED
      BY <1>4, <3>1
  <2> HIDE DEF Val
  <2>2. \A u \in SUBSET s :
          (IF u = {} THEN 0 ELSE F[Pick(u)] + Val(u \ {Pick(u)}))
            = (IF u = {} THEN 0 ELSE F[Pick(u)] + G[u \ {Pick(u)}])
    BY <2>1
  <2> QED
    BY <2>2, Zenon DEF Unfold
<1> QED
  BY <1>2, <1>5

---------------------------------------------------------------------------
(* The sum over a finite set, one element at a time.                       *)

LEMMA SumEmpty == \A F : SumFunctionOnSet(F, {}) = 0
<1>1. TAKE F
<1>2. PICK g : g = Unfold(F, {}, g) /\ SumFunctionOnSet(F, {}) = g[{}]
  BY SumBySolution, SolutionExists, FS_EmptySet
<1> QED
  BY <1>2 DEF Unfold

LEMMA SumPicked ==
  ASSUME NEW F, NEW S, IsFiniteSet(S), S # {}
  PROVE  SumFunctionOnSet(F, S)
           = F[Pick(S)] + SumFunctionOnSet(F, S \ {Pick(S)})
<1> DEFINE R == S \ {Pick(S)}
<1>1. IsFiniteSet(R)
  BY FS_RemoveElement
<1>2. PICK g : g = Unfold(F, S, g) /\ SumFunctionOnSet(F, S) = g[S]
  BY SumBySolution, SolutionExists
<1>3. PICK k : k = Unfold(F, R, k) /\ SumFunctionOnSet(F, R) = k[R]
  BY <1>1, SumBySolution, SolutionExists
<1>4. g[R] = k[R]
  BY <1>1, <1>2, <1>3, OneSolution, R \subseteq S, R \subseteq R
<1>5. g[S] = F[Pick(S)] + g[R]
  <2>1. S \in SUBSET S
    OBVIOUS
  <2> QED
    BY <1>2, <2>1, Zenon DEF Unfold
<1> QED
  BY <1>2, <1>3, <1>4, <1>5

(* A sum of integers is an integer.                                        *)
LEMMA SumInt ==
  ASSUME NEW F, NEW S, IsFiniteSet(S), \A x \in S : F[x] \in Int
  PROVE  SumFunctionOnSet(F, S) \in Int
<1> DEFINE Bad == {s \in SUBSET S : SumFunctionOnSet(F, s) \notin Int}
<1>1. SUFFICES ASSUME Bad # {} PROVE FALSE
  OBVIOUS
<1>2. PICK s \in Bad : \A u \in Bad : u \subseteq s => u = s
  <2>1. Bad \in SUBSET SUBSET S
    OBVIOUS
  <2> HIDE DEF Bad
  <2> QED
    BY <1>1, <2>1, SmallestSubset
<1>3. s # {} /\ IsFiniteSet(s)
  <2>1. s # {}
    BY SumEmpty
  <2>2. IsFiniteSet(s)
    BY FS_Subset
  <2> QED
    BY <2>1, <2>2
<1>4. Pick(s) \in s
  BY <1>3, Picked
<1>5. SumFunctionOnSet(F, s \ {Pick(s)}) \in Int
  BY <1>2, <1>4
<1> QED
  BY <1>3, <1>4, <1>5, SumPicked

(* Any element may be taken out of a sum: a smallest set of which this is  *)
(* false would have another element that is picked first.                  *)
LEMMA SumRemove ==
  ASSUME NEW F, NEW S, IsFiniteSet(S), \A x \in S : F[x] \in Int, NEW e \in S
  PROVE  SumFunctionOnSet(F, S) = F[e] + SumFunctionOnSet(F, S \ {e})
<1> DEFINE Holds(s, x) ==
             SumFunctionOnSet(F, s) = F[x] + SumFunctionOnSet(F, s \ {x})
           Bad == {s \in SUBSET S : \E x \in s : ~ Holds(s, x)}
<1>1. SUFFICES ASSUME Bad # {} PROVE FALSE
  OBVIOUS
<1>2. PICK s \in Bad : \A u \in Bad : u \subseteq s => u = s
  <2>1. Bad \in SUBSET SUBSET S
    OBVIOUS
  <2> HIDE DEF Bad
  <2> QED
    BY <1>1, <2>1, SmallestSubset
<1>3. PICK x \in s : ~ Holds(s, x)
  BY <1>2
<1>4. ASSUME NEW u \in SUBSET s, u # s, NEW y \in u
      PROVE  Holds(u, y)
  BY <1>2, <1>4
<1> DEFINE p == Pick(s)
           D == s \ {p, x}
<1>5. IsFiniteSet(s) /\ s # {} /\ p \in s
  BY FS_Subset, Picked
<1>6. Holds(s, p)
  BY <1>5, SumPicked
<1>7. p # x
  BY <1>3, <1>6
<1>8. Holds(s \ {p}, x) /\ Holds(s \ {x}, p)
  <2>1. /\ s \ {p} \in SUBSET s /\ s \ {p} # s /\ x \in s \ {p}
        /\ s \ {x} \in SUBSET s /\ s \ {x} # s /\ p \in s \ {x}
    BY <1>5, <1>7
  <2> HIDE DEF Holds, p
  <2> QED
    BY <1>4, <2>1
<1>9. (s \ {p}) \ {x} = D /\ (s \ {x}) \ {p} = D
  OBVIOUS
<1>10. SumFunctionOnSet(F, D) \in Int /\ F[x] \in Int /\ F[p] \in Int
  <2>1. IsFiniteSet(D) /\ \A y \in D : F[y] \in Int
    BY <1>5, FS_Subset, D \in SUBSET S
  <2> QED
    BY <1>5, <2>1, SumInt
<1>11. /\ SumFunctionOnSet(F, s) = F[p] + (F[x] + SumFunctionOnSet(F, D))
       /\ SumFunctionOnSet(F, s \ {x}) = F[p] + SumFunctionOnSet(F, D)
  <2> HIDE DEF D, p
  <2> QED
    BY <1>6, <1>8, <1>9
<1>12. SumFunctionOnSet(F, s) = F[x] + SumFunctionOnSet(F, s \ {x})
  <2> HIDE DEF D, p
  <2> QED
    BY <1>10, <1>11
<1> QED
  BY <1>3, <1>12

(* An element may be added.                                                *)
LEMMA SumAdd ==
  ASSUME NEW F, NEW S, IsFiniteSet(S), NEW e, e \notin S,
         \A x \in S \cup {e} : F[x] \in Int
  PROVE  SumFunctionOnSet(F, S \cup {e}) = F[e] + SumFunctionOnSet(F, S)
<1>1. IsFiniteSet(S \cup {e}) /\ (S \cup {e}) \ {e} = S /\ e \in S \cup {e}
  BY FS_AddElement
<1> QED
  BY <1>1, SumRemove

(* The sum over one index.                                                 *)
LEMMA SumSingle ==
  ASSUME NEW F, NEW e, F[e] \in Int
  PROVE  SumFunctionOnSet(F, {e}) = F[e]
<1>1. SumFunctionOnSet(F, {} \cup {e}) = F[e] + SumFunctionOnSet(F, {})
  BY SumAdd, FS_EmptySet
<1>2. SumFunctionOnSet(F, {}) = 0
  BY SumEmpty
<1>3. {} \cup {e} = {e}
  OBVIOUS
<1> HIDE DEF SumFunctionOnSet
<1> QED
  BY <1>1, <1>2, <1>3

(* Functions that agree on the indices have the same sum.                  *)
LEMMA SumAgree ==
  ASSUME NEW F, NEW G, NEW S, IsFiniteSet(S), \A x \in S : F[x] = G[x]
  PROVE  SumFunctionOnSet(F, S) = SumFunctionOnSet(G, S)
<1> DEFINE Bad == {s \in SUBSET S : SumFunctionOnSet(F, s) # SumFunctionOnSet(G, s)}
<1>1. SUFFICES ASSUME Bad # {} PROVE FALSE
  OBVIOUS
<1>2. PICK s \in Bad : \A u \in Bad : u \subseteq s => u = s
  <2>1. Bad \in SUBSET SUBSET S
    OBVIOUS
  <2> HIDE DEF Bad
  <2> QED
    BY <1>1, <2>1, SmallestSubset
<1>3. s # {} /\ IsFiniteSet(s)
  <2>1. s # {}
    BY SumEmpty
  <2>2. IsFiniteSet(s)
    BY FS_Subset
  <2> QED
    BY <2>1, <2>2
<1>4. Pick(s) \in s
  BY <1>3, Picked
<1>5. SumFunctionOnSet(F, s \ {Pick(s)}) = SumFunctionOnSet(G, s \ {Pick(s)})
  BY <1>2, <1>4
<1> QED
  BY <1>3, <1>4, <1>5, SumPicked

(* A sum grows with its terms.                                             *)
LEMMA SumMonotone ==
  ASSUME NEW F, NEW G, NEW S, IsFiniteSet(S),
         \A x \in S : F[x] \in Int /\ G[x] \in Int /\ F[x] <= G[x]
  PROVE  SumFunctionOnSet(F, S) <= SumFunctionOnSet(G, S)
<1> DEFINE Bad == {s \in SUBSET S :
                     ~ (SumFunctionOnSet(F, s) <= SumFunctionOnSet(G, s))}
<1>1. SUFFICES ASSUME Bad # {} PROVE FALSE
  OBVIOUS
<1>2. PICK s \in Bad : \A u \in Bad : u \subseteq s => u = s
  <2>1. Bad \in SUBSET SUBSET S
    OBVIOUS
  <2> HIDE DEF Bad
  <2> QED
    BY <1>1, <2>1, SmallestSubset
<1>3. s # {} /\ IsFiniteSet(s)
  <2>1. s # {}
    BY SumEmpty
  <2>2. IsFiniteSet(s)
    BY FS_Subset
  <2> QED
    BY <2>1, <2>2
<1>4. Pick(s) \in s
  BY <1>3, Picked
<1> DEFINE r == s \ {Pick(s)}
<1>5. SumFunctionOnSet(F, r) <= SumFunctionOnSet(G, r)
  BY <1>2, <1>4
<1>6. SumFunctionOnSet(F, r) \in Int /\ SumFunctionOnSet(G, r) \in Int
  BY <1>3, FS_Subset, SumInt, r \in SUBSET s
<1>7. /\ SumFunctionOnSet(F, s) = F[Pick(s)] + SumFunctionOnSet(F, r)
      /\ SumFunctionOnSet(G, s) = G[Pick(s)] + SumFunctionOnSet(G, r)
  BY <1>3, SumPicked
<1> HIDE DEF r
<1> QED
  BY <1>4, <1>5, <1>6, <1>7

(* A sum of zeros is zero.                                                 *)
LEMMA SumZero ==
  ASSUME NEW F, NEW S, IsFiniteSet(S), \A x \in S : F[x] = 0
  PROVE  SumFunctionOnSet(F, S) = 0
<1> DEFINE Bad == {s \in SUBSET S : SumFunctionOnSet(F, s) # 0}
<1>1. SUFFICES ASSUME Bad # {} PROVE FALSE
  OBVIOUS
<1>2. PICK s \in Bad : \A u \in Bad : u \subseteq s => u = s
  <2>1. Bad \in SUBSET SUBSET S
    OBVIOUS
  <2> HIDE DEF Bad
  <2> QED
    BY <1>1, <2>1, SmallestSubset
<1>3. s # {} /\ IsFiniteSet(s)
  <2>1. s # {}
    BY SumEmpty
  <2>2. IsFiniteSet(s)
    BY FS_Subset
  <2> QED
    BY <2>1, <2>2
<1>4. Pick(s) \in s
  BY <1>3, Picked
<1>5. SumFunctionOnSet(F, s \ {Pick(s)}) = 0
  BY <1>2, <1>4
<1> QED
  BY <1>3, <1>4, <1>5, SumPicked

---------------------------------------------------------------------------
(* What follows for the sums of the models.                                *)

(* A sum of naturals is one.                                               *)
LEMMA SumNat ==
  ASSUME NEW F, NEW S, IsFiniteSet(S), \A x \in S : F[x] \in Nat
  PROVE  SumFunctionOnSet(F, S) \in Nat
<1> DEFINE Z == [x \in S |-> 0]
<1>1. SumFunctionOnSet(Z, S) = 0
  BY SumZero
<1>2. SumFunctionOnSet(Z, S) <= SumFunctionOnSet(F, S)
  BY SumMonotone
<1>3. SumFunctionOnSet(F, S) \in Int
  BY SumInt
<1> QED
  BY <1>1, <1>2, <1>3

(* One term changes.                                                       *)
LEMMA SumChange ==
  ASSUME NEW F, NEW G, NEW S, IsFiniteSet(S), NEW e \in S,
         \A x \in S : F[x] \in Int /\ G[x] \in Int,
         \A x \in S \ {e} : F[x] = G[x]
  PROVE  SumFunctionOnSet(G, S) = (SumFunctionOnSet(F, S) - F[e]) + G[e]
<1> DEFINE R == S \ {e}
<1>1. IsFiniteSet(R)
  BY FS_RemoveElement
<1>2. SumFunctionOnSet(F, R) = SumFunctionOnSet(G, R)
  BY <1>1, SumAgree
<1>3. SumFunctionOnSet(F, R) \in Int
  BY <1>1, SumInt
<1>4. /\ SumFunctionOnSet(F, S) = F[e] + SumFunctionOnSet(F, R)
      /\ SumFunctionOnSet(G, S) = G[e] + SumFunctionOnSet(G, R)
  BY SumRemove
<1> HIDE DEF R
<1> QED
  BY <1>2, <1>3, <1>4

(* Fewer naturals have no larger sum.                                      *)
LEMMA SumSubset ==
  ASSUME NEW F, NEW S, IsFiniteSet(S), \A x \in S : F[x] \in Nat,
         NEW T \in SUBSET S
  PROVE  SumFunctionOnSet(F, T) <= SumFunctionOnSet(F, S)
<1> DEFINE Bad == {s \in SUBSET S : \E t \in SUBSET s :
                     ~ (SumFunctionOnSet(F, t) <= SumFunctionOnSet(F, s))}
<1>1. SUFFICES ASSUME Bad # {} PROVE FALSE
  OBVIOUS
<1>2. PICK s \in Bad : \A u \in Bad : u \subseteq s => u = s
  <2>1. Bad \in SUBSET SUBSET S
    OBVIOUS
  <2> HIDE DEF Bad
  <2> QED
    BY <1>1, <2>1, SmallestSubset
<1>3. PICK t \in SUBSET s : ~ (SumFunctionOnSet(F, t) <= SumFunctionOnSet(F, s))
  BY <1>2
<1>4. IsFiniteSet(s) /\ \A x \in s : F[x] \in Int /\ F[x] >= 0
  BY FS_Subset
<1>5. SumFunctionOnSet(F, s) \in Int
  BY <1>4, SumInt
<1>6. PICK x \in s : x \notin t
  <2>1. t # s
    BY <1>3, <1>5
  <2> QED
    BY <2>1
<1> DEFINE r == s \ {x}
<1>7. SumFunctionOnSet(F, s) = F[x] + SumFunctionOnSet(F, r)
  BY <1>4, SumRemove
<1>8. IsFiniteSet(r) /\ IsFiniteSet(t)
  BY <1>4, FS_Subset, r \in SUBSET s
<1>9. SumFunctionOnSet(F, r) \in Int /\ SumFunctionOnSet(F, t) \in Int
  BY <1>4, <1>8, SumInt
<1>10. SumFunctionOnSet(F, t) <= SumFunctionOnSet(F, r)
  <2>1. r \notin Bad
    BY <1>2, r # s, r \subseteq s
  <2> QED
    BY <1>6, <2>1
<1> HIDE DEF r, Bad
<1> QED
  BY <1>3, <1>4, <1>5, <1>7, <1>9, <1>10

(* A term is no larger than the sum of naturals it is in.                  *)
LEMMA SumCovers ==
  ASSUME NEW F, NEW S, IsFiniteSet(S), \A x \in S : F[x] \in Nat, NEW e \in S
  PROVE  F[e] <= SumFunctionOnSet(F, S)
<1>1. SumFunctionOnSet(F, S) = F[e] + SumFunctionOnSet(F, S \ {e})
  BY SumRemove
<1>2. SumFunctionOnSet(F, S \ {e}) \in Nat
  BY FS_RemoveElement, SumNat
<1> QED
  BY <1>1, <1>2

(* The sum of a sum of two functions.                                      *)
LEMMA SumPlus ==
  ASSUME NEW F, NEW G, NEW H, NEW S, IsFiniteSet(S),
         \A x \in S : F[x] \in Int /\ G[x] \in Int /\ H[x] = F[x] + G[x]
  PROVE  SumFunctionOnSet(H, S) = SumFunctionOnSet(F, S) + SumFunctionOnSet(G, S)
<1> DEFINE Bad == {s \in SUBSET S : SumFunctionOnSet(H, s)
                     # SumFunctionOnSet(F, s) + SumFunctionOnSet(G, s)}
<1>1. SUFFICES ASSUME Bad # {} PROVE FALSE
  OBVIOUS
<1>2. PICK s \in Bad : \A u \in Bad : u \subseteq s => u = s
  <2>1. Bad \in SUBSET SUBSET S
    OBVIOUS
  <2> HIDE DEF Bad
  <2> QED
    BY <1>1, <2>1, SmallestSubset
<1>3. s # {} /\ IsFiniteSet(s)
  <2>0. /\ SumFunctionOnSet(H, {}) = 0
        /\ SumFunctionOnSet(F, {}) = 0
        /\ SumFunctionOnSet(G, {}) = 0
    BY SumEmpty
  <2>1. SumFunctionOnSet(H, {}) = SumFunctionOnSet(F, {}) + SumFunctionOnSet(G, {})
    BY <2>0
  <2>2. s # {}
    BY <2>1, Zenon
  <2>3. IsFiniteSet(s)
    BY FS_Subset
  <2> QED
    BY <2>2, <2>3
<1>4. Pick(s) \in s
  BY <1>3, Picked
<1> DEFINE r == s \ {Pick(s)}
<1>5. SumFunctionOnSet(H, r) = SumFunctionOnSet(F, r) + SumFunctionOnSet(G, r)
  BY <1>2, <1>4
<1>6. SumFunctionOnSet(F, r) \in Int /\ SumFunctionOnSet(G, r) \in Int
  BY <1>3, FS_Subset, SumInt, r \in SUBSET s
<1>7. /\ SumFunctionOnSet(F, s) = F[Pick(s)] + SumFunctionOnSet(F, r)
      /\ SumFunctionOnSet(G, s) = G[Pick(s)] + SumFunctionOnSet(G, r)
      /\ SumFunctionOnSet(H, s) = H[Pick(s)] + SumFunctionOnSet(H, r)
  BY <1>3, SumPicked
<1> HIDE DEF r
<1> QED
  BY <1>4, <1>5, <1>6, <1>7

(* What is left out of a sum may as well count as zero.                    *)
LEMMA SumPadded ==
  ASSUME NEW F, NEW G, NEW S, IsFiniteSet(S), NEW T \in SUBSET S,
         \A x \in T : F[x] \in Int /\ G[x] = F[x],
         \A x \in S \ T : G[x] = 0
  PROVE  SumFunctionOnSet(F, T) = SumFunctionOnSet(G, S)
<1> DEFINE Bad == {s \in SUBSET S :
                     SumFunctionOnSet(F, T \cap s) # SumFunctionOnSet(G, s)}
<1>1. SUFFICES ASSUME Bad # {} PROVE FALSE
  <2>1. S \notin Bad => SumFunctionOnSet(F, T \cap S) = SumFunctionOnSet(G, S)
    OBVIOUS
  <2>2. T \cap S = T
    OBVIOUS
  <2> QED
    BY <2>1, <2>2
<1>2. PICK s \in Bad : \A u \in Bad : u \subseteq s => u = s
  <2>1. Bad \in SUBSET SUBSET S
    OBVIOUS
  <2> HIDE DEF Bad
  <2> QED
    BY <1>1, <2>1, SmallestSubset
<1>3. s # {} /\ IsFiniteSet(s)
  <2>1. SumFunctionOnSet(F, T \cap {}) = SumFunctionOnSet(G, {})
    BY SumEmpty, T \cap {} = {}
  <2>2. s # {}
    BY <2>1, Zenon
  <2>3. IsFiniteSet(s)
    BY FS_Subset
  <2> QED
    BY <2>2, <2>3
<1>4. Pick(s) \in s
  BY <1>3, Picked
<1> DEFINE p == Pick(s)
           r == s \ {p}
<1>5. SumFunctionOnSet(F, T \cap r) = SumFunctionOnSet(G, r)
  BY <1>2, <1>4
<1>6. SumFunctionOnSet(G, s) = G[p] + SumFunctionOnSet(G, r)
  BY <1>3, SumPicked
<1>7. CASE p \in T
  <2> DEFINE t == T \cap s
  <2>1. t \ {p} = T \cap r
    OBVIOUS
  <2>2. IsFiniteSet(t) /\ p \in t /\ \A x \in t : F[x] \in Int
    BY <1>3, <1>4, <1>7, FS_Subset, t \in SUBSET s
  <2> HIDE DEF t, p
  <2>3. SumFunctionOnSet(F, t) = F[p] + SumFunctionOnSet(F, t \ {p})
    BY <2>2, SumRemove
  <2>4. SumFunctionOnSet(F, t) = SumFunctionOnSet(G, s)
    BY <1>5, <1>6, <1>7, <2>1, <2>3
  <2> QED
    BY <2>4 DEF t
<1>8. CASE p \notin T
  <2>1. T \cap r = T \cap s
    BY <1>8
  <2>2. G[p] = 0
    BY <1>4, <1>8
  <2>3. SumFunctionOnSet(G, r) \in Int
    <3>1. IsFiniteSet(r) /\ \A x \in r : G[x] \in Int
      BY <1>3, FS_Subset, r \in SUBSET s
    <3> QED
      BY <3>1, SumInt
  <2> HIDE DEF r, p
  <2> QED
    BY <1>5, <1>6, <2>1, <2>2, <2>3
<1> QED
  BY <1>7, <1>8

(* What an index contributes to a sum over T.                              *)
At(F, T, x) == IF x \in T THEN F[x] ELSE 0

(* When the contribution of one index alone changes, the sum changes by    *)
(* the difference.                                                         *)
LEMMA SumShift ==
  ASSUME NEW S, IsFiniteSet(S), NEW F, NEW G, NEW T \in SUBSET S,
         NEW U \in SUBSET S, \A x \in S : F[x] \in Int /\ G[x] \in Int,
         NEW e \in S, \A x \in S \ {e} : At(F, T, x) = At(G, U, x)
  PROVE  SumFunctionOnSet(G, U)
           = (SumFunctionOnSet(F, T) - At(F, T, e)) + At(G, U, e)
<1> DEFINE P == [x \in S |-> At(F, T, x)]
           Q == [x \in S |-> At(G, U, x)]
<1>1. /\ \A x \in T : F[x] \in Int /\ P[x] = F[x]
      /\ \A x \in S \ T : P[x] = 0
      /\ \A x \in U : G[x] \in Int /\ Q[x] = G[x]
      /\ \A x \in S \ U : Q[x] = 0
      /\ \A x \in S : P[x] \in Int /\ Q[x] \in Int
      /\ \A x \in S \ {e} : P[x] = Q[x]
      /\ P[e] = At(F, T, e) /\ Q[e] = At(G, U, e)
  BY DEF At
<1> HIDE DEF P, Q
<1>2. SumFunctionOnSet(F, T) = SumFunctionOnSet(P, S)
  BY <1>1, SumPadded
<1>3. SumFunctionOnSet(G, U) = SumFunctionOnSet(Q, S)
  BY <1>1, SumPadded
<1>4. SumFunctionOnSet(Q, S) = (SumFunctionOnSet(P, S) - P[e]) + Q[e]
  BY <1>1, SumChange
<1> QED
  BY <1>1, <1>2, <1>3, <1>4
=============================================================================
