-------------------------------- MODULE Sums --------------------------------
(***************************************************************************)
(* Facts about SumFunctionOnSet of the community modules.                  *)
(***************************************************************************)
EXTENDS Integers, FiniteSets, Functions, FiniteSetTheorems, TLAPS

(* Induction over the subsets of a finite set, as the existence of a       *)
(* minimal element.                                                        *)
LEMMA MinimalSubset ==
  ASSUME NEW S, IsFiniteSet(S), NEW B \in SUBSET SUBSET S, B # {}
  PROVE  \E T \in B : \A U \in B : U \subseteq T => U = T
<1>1. FiniteSubsetsOf(S) = SUBSET S
  BY FS_FiniteSubsetsOfFinite
<1>2. IsWellFoundedOn(StrictSubsetOrdering(S), SUBSET S)
  BY <1>1, FS_StrictSubsetOrderingWellFounded
<1>3. PICK T \in B : \A U \in B : ~(<<U, T>> \in StrictSubsetOrdering(S))
  BY <1>2, WFMin
<1>4. ASSUME NEW U \in B, U \subseteq T, U # T PROVE FALSE
  <2>1. <<U, T>> \in (SUBSET S) \X (SUBSET S)
    OBVIOUS
  <2>2. <<U, T>> \in StrictSubsetOrdering(S)
    BY <2>1, <1>4 DEF StrictSubsetOrdering
  <2> QED BY <1>3, <2>2
<1> QED BY <1>3, <1>4

Pick(s) == CHOOSE x \in s : TRUE

(* The member a fold takes first is one.                                   *)
LEMMA PickIn == ASSUME NEW s, s # {} PROVE Pick(s) \in s
BY DEF Pick

(* The functions that the definition of a sum chooses among.               *)
Adds(g, f, S) ==
  g = [s \in SUBSET S |-> IF s = {} THEN 0 ELSE f[Pick(s)] + g[s \ {Pick(s)}]]

(* The sum of the community modules is the value of such a function.       *)
LEMMA SumIsChosen ==
  ASSUME NEW f, NEW S
  PROVE  SumFunctionOnSet(f, S) = (CHOOSE g : Adds(g, f, S))[S]
BY DEF SumFunctionOnSet, FoldFunctionOnSet, MapThenFoldSet, Adds, Pick

TheAdds(f, S) == CHOOSE g : Adds(g, f, S)

(* Two of them agree on every set both are defined for: a minimal set      *)
(* where they differ would have a smaller one.                             *)
LEMMA AddsUnique ==
  ASSUME NEW f, NEW S, IsFiniteSet(S), NEW U, NEW V, S \subseteq U, S \subseteq V,
         NEW g, Adds(g, f, U), NEW h, Adds(h, f, V)
  PROVE  g[S] = h[S]
<1> DEFINE Bad == {s \in SUBSET S : g[s] # h[s]}
<1> SUFFICES ASSUME Bad # {} PROVE FALSE
  OBVIOUS
<1>1. Bad \in SUBSET SUBSET S
  OBVIOUS
<1>2. PICK T \in Bad : \A W \in Bad : W \subseteq T => W = T
  <2> HIDE DEF Bad
  <2> QED BY <1>1, MinimalSubset
<1>3. /\ g[T] = IF T = {} THEN 0 ELSE f[Pick(T)] + g[T \ {Pick(T)}]
      /\ h[T] = IF T = {} THEN 0 ELSE f[Pick(T)] + h[T \ {Pick(T)}]
  BY DEF Adds
<1>4. T # {}
  BY <1>3
<1>5. T \ {Pick(T)} \notin Bad
  BY <1>2, <1>4, PickIn
<1>6. g[T \ {Pick(T)}] = h[T \ {Pick(T)}]
  BY <1>5
<1> QED BY <1>3, <1>6

(* There is one for every finite set: a minimal set without one would get  *)
(* it from its parts.                                                      *)
LEMMA AddsExists ==
  ASSUME NEW f, NEW S, IsFiniteSet(S)
  PROVE  Adds(TheAdds(f, S), f, S)
<1> DEFINE Bad == {s \in SUBSET S : ~ Adds(TheAdds(f, s), f, s)}
           sum(s) == TheAdds(f, s)[s]
<1> SUFFICES ASSUME Bad # {} PROVE FALSE
  OBVIOUS
<1>0. Bad \in SUBSET SUBSET S
  OBVIOUS
<1>1. PICK T \in Bad : \A W \in Bad : W \subseteq T => W = T
  <2> HIDE DEF Bad
  <2> QED BY <1>0, MinimalSubset
<1>2. \A s \in SUBSET T : s # T => Adds(TheAdds(f, s), f, s)
  BY <1>1
<1> DEFINE below(s) == IF s = {} THEN 0 ELSE f[Pick(s)] + sum(s \ {Pick(s)})
           G == [s \in SUBSET T |-> below(s)]
<1>3. ASSUME NEW s \in SUBSET T, s # T PROVE sum(s) = below(s)
  <2>0. Adds(TheAdds(f, s), f, s)
    BY <1>2, <1>3
  <2>1. s = {} => sum(s) = 0
    BY <2>0 DEF Adds
  <2>2. ASSUME s # {} PROVE sum(s) = below(s)
    <3> DEFINE r == s \ {Pick(s)}
    <3>1. r \in SUBSET T /\ r # T /\ r \subseteq s /\ IsFiniteSet(r)
      BY <1>3, <2>2, PickIn, FS_Subset
    <3>2. Adds(TheAdds(f, r), f, r)
      BY <1>2, <3>1
    <3>3. TheAdds(f, s)[r] = sum(r)
      BY <2>0, <3>1, <3>2, AddsUnique
    <3>4. TheAdds(f, s)[s] = f[Pick(s)] + TheAdds(f, s)[r]
      BY <2>0, <2>2 DEF Adds
    <3> QED BY <3>3, <3>4, <2>2
  <2> QED BY <2>1, <2>2
<1>4. \A s \in SUBSET T : s # {} => s \ {Pick(s)} \in SUBSET T /\ s \ {Pick(s)} # T
  BY PickIn
<1>5. Adds(G, f, T)
  <2>1. ASSUME NEW s \in SUBSET T
        PROVE  G[s] = IF s = {} THEN 0 ELSE f[Pick(s)] + G[s \ {Pick(s)}]
    <3>1. CASE s = {}
      BY <3>1
    <3>2. CASE s # {}
      <4> DEFINE r == s \ {Pick(s)}
      <4>1. r \in SUBSET T /\ r # T
        BY <1>4, <3>2
      <4>2. G[r] = sum(r)
        <5>1. G[r] = below(r)
          BY <4>1
        <5>2. sum(r) = below(r)
          BY <4>1, <1>3
        <5> QED BY <5>1, <5>2
      <4>3. G[s] = f[Pick(s)] + sum(r)
        BY <3>2
      <4> QED BY <4>2, <4>3, <3>2
    <3> QED BY <3>1, <3>2
  <2> HIDE DEF below
  <2>2. G = [s \in SUBSET T |-> IF s = {} THEN 0 ELSE f[Pick(s)] + G[s \ {Pick(s)}]]
    BY <2>1
  <2> QED BY <2>2 DEF Adds
<1> HIDE DEF G
<1>6. Adds(TheAdds(f, T), f, T)
  BY <1>5 DEF TheAdds
<1> QED BY <1>1, <1>6

(* A sum is what its definition says.                                      *)
LEMMA SumUnfolds ==
  ASSUME NEW f, NEW S, IsFiniteSet(S)
  PROVE  /\ SumFunctionOnSet(f, {}) = 0
         /\ S # {} => SumFunctionOnSet(f, S)
                        = f[Pick(S)] + SumFunctionOnSet(f, S \ {Pick(S)})
<1> DEFINE r == S \ {Pick(S)}
<1>1. IsFiniteSet({}) /\ IsFiniteSet(r)
  BY FS_EmptySet, FS_Subset
<1>2. Adds(TheAdds(f, S), f, S) /\ Adds(TheAdds(f, r), f, r) /\ Adds(TheAdds(f, {}), f, {})
  BY <1>1, AddsExists
<1>3. TheAdds(f, {})[{}] = 0
  BY <1>2 DEF Adds
<1>4. S # {} => TheAdds(f, S)[S] = f[Pick(S)] + TheAdds(f, S)[r]
  BY <1>2 DEF Adds
<1>5. TheAdds(f, S)[r] = TheAdds(f, r)[r]
  BY <1>1, <1>2, AddsUnique
<1>6. \A s : SumFunctionOnSet(f, s) = TheAdds(f, s)[s]
  BY SumIsChosen DEF TheAdds
<1> QED BY <1>3, <1>4, <1>5, <1>6

(* Sums of integers are integers, and may be taken in any order.           *)
LEMMA SumType ==
  ASSUME NEW S, IsFiniteSet(S), NEW f, NEW D \in {Nat, Int}, \A x \in S : f[x] \in D
  PROVE  SumFunctionOnSet(f, S) \in D
<1> DEFINE Bad == {s \in SUBSET S : SumFunctionOnSet(f, s) \notin D}
<1> SUFFICES ASSUME Bad # {} PROVE FALSE
  OBVIOUS
<1>1. Bad \in SUBSET SUBSET S
  OBVIOUS
<1>2. PICK T \in Bad : \A W \in Bad : W \subseteq T => W = T
  <2> HIDE DEF Bad
  <2> QED BY <1>1, MinimalSubset
<1>3. IsFiniteSet(T)
  BY FS_Subset
<1>4. T # {}
  <2>1. SumFunctionOnSet(f, {}) = 0
    BY <1>3, SumUnfolds
  <2>2. 0 \in D
    OBVIOUS
  <2> QED BY <2>1, <2>2
<1>5. Pick(T) \in T /\ f[Pick(T)] \in D
  BY <1>4, PickIn
<1>6. SumFunctionOnSet(f, T \ {Pick(T)}) \in D
  BY <1>2, <1>5
<1>7. SumFunctionOnSet(f, T) = f[Pick(T)] + SumFunctionOnSet(f, T \ {Pick(T)})
  BY <1>3, <1>4, SumUnfolds
<1> QED BY <1>5, <1>6, <1>7

(* A sum is any one of its terms and the sum of the rest, whichever terms  *)
(* the fold itself takes first.                                            *)
LEMMA SumWithout ==
  ASSUME NEW S, IsFiniteSet(S), NEW f, \A y \in S : f[y] \in Int, NEW x \in S
  PROVE  SumFunctionOnSet(f, S) = f[x] + SumFunctionOnSet(f, S \ {x})
<1> DEFINE Bad == {s \in SUBSET S : \E y \in s :
                     SumFunctionOnSet(f, s) # f[y] + SumFunctionOnSet(f, s \ {y})}
<1> SUFFICES ASSUME Bad # {} PROVE FALSE
  OBVIOUS
<1>1. Bad \in SUBSET SUBSET S
  OBVIOUS
<1>2. PICK T \in Bad : \A W \in Bad : W \subseteq T => W = T
  <2> HIDE DEF Bad
  <2> QED BY <1>1, MinimalSubset
<1>3. PICK y \in T : SumFunctionOnSet(f, T) # f[y] + SumFunctionOnSet(f, T \ {y})
  BY <1>2
<1> DEFINE p == Pick(T)
<1>4. p \in T
  BY PickIn
<1> HIDE DEF p
<1>5. IsFiniteSet(T) /\ IsFiniteSet((T \ {y}) \ {p})
  BY FS_Subset
<1>6. SumFunctionOnSet(f, T) = f[p] + SumFunctionOnSet(f, T \ {p})
  BY <1>5, SumUnfolds DEF p
<1>7. p # y
  BY <1>3, <1>6
<1>8. SumFunctionOnSet(f, T \ {p}) = f[y] + SumFunctionOnSet(f, (T \ {p}) \ {y})
  <2>1. T \ {p} \notin Bad
    BY <1>2, <1>4
  <2> QED BY <2>1, <1>7
<1>9. SumFunctionOnSet(f, T \ {y}) = f[p] + SumFunctionOnSet(f, (T \ {y}) \ {p})
  <2>1. T \ {y} \notin Bad
    BY <1>2
  <2> QED BY <2>1, <1>4, <1>7
<1>10. (T \ {p}) \ {y} = (T \ {y}) \ {p}
  OBVIOUS
<1>11. f[p] \in Int /\ f[y] \in Int /\ SumFunctionOnSet(f, (T \ {y}) \ {p}) \in Int
  BY <1>4, <1>5, SumType
<1>12. \A a, b, c \in Int : a + (b + c) = b + (a + c)
  OBVIOUS
<1>13. /\ SumFunctionOnSet(f, T) = f[p] + (f[y] + SumFunctionOnSet(f, (T \ {y}) \ {p}))
       /\ f[y] + SumFunctionOnSet(f, T \ {y}) = f[y] + (f[p] + SumFunctionOnSet(f, (T \ {y}) \ {p}))
  <2> HIDE DEF Bad
  <2> QED BY <1>6, <1>8, <1>9, <1>10
<1> QED BY <1>3, <1>11, <1>12, <1>13

(* A sum depends on the terms alone.                                       *)
LEMMA SumAgrees ==
  ASSUME NEW S, IsFiniteSet(S), NEW f, NEW g, \A x \in S : f[x] = g[x]
  PROVE  SumFunctionOnSet(f, S) = SumFunctionOnSet(g, S)
<1> DEFINE Bad == {s \in SUBSET S : SumFunctionOnSet(f, s) # SumFunctionOnSet(g, s)}
<1> SUFFICES ASSUME Bad # {} PROVE FALSE
  OBVIOUS
<1>1. Bad \in SUBSET SUBSET S
  OBVIOUS
<1>2. PICK T \in Bad : \A W \in Bad : W \subseteq T => W = T
  <2> HIDE DEF Bad
  <2> QED BY <1>1, MinimalSubset
<1>3. IsFiniteSet(T)
  BY FS_Subset
<1>4. T # {}
  BY <1>3, SumUnfolds
<1>5. Pick(T) \in T
  BY <1>4, PickIn
<1>6. SumFunctionOnSet(f, T \ {Pick(T)}) = SumFunctionOnSet(g, T \ {Pick(T)})
  BY <1>2, <1>5
<1> QED BY <1>3, <1>4, <1>5, <1>6, SumUnfolds

(* A sum follows a change of one of its terms.                             *)
LEMMA SumChanges ==
  ASSUME NEW S, IsFiniteSet(S), NEW f, NEW g, NEW x \in S,
         \A y \in S : f[y] \in Int /\ g[y] \in Int,
         \A y \in S \ {x} : f[y] = g[y]
  PROVE  SumFunctionOnSet(g, S) = SumFunctionOnSet(f, S) - f[x] + g[x]
<1>1. IsFiniteSet(S \ {x})
  BY FS_Subset
<1>2. SumFunctionOnSet(f, S \ {x}) = SumFunctionOnSet(g, S \ {x})
  BY <1>1, SumAgrees
<1>3. SumFunctionOnSet(f, S \ {x}) \in Int
  BY <1>1, SumType
<1>4. /\ SumFunctionOnSet(f, S) = f[x] + SumFunctionOnSet(f, S \ {x})
      /\ SumFunctionOnSet(g, S) = g[x] + SumFunctionOnSet(g, S \ {x})
  BY SumWithout
<1> QED BY <1>2, <1>3, <1>4

(* Terms that are not negative only add. *)
LEMMA SumMonotonic ==
  ASSUME NEW S, IsFiniteSet(S), NEW f, \A x \in S : f[x] \in Nat, NEW T \in SUBSET S
  PROVE  SumFunctionOnSet(f, T) <= SumFunctionOnSet(f, S)
<1> DEFINE sum(s) == SumFunctionOnSet(f, s)
           Bad == {s \in SUBSET S : T \subseteq s /\ ~(sum(T) <= sum(s))}
<1> SUFFICES ASSUME Bad # {} PROVE FALSE
  OBVIOUS
<1>1. Bad \in SUBSET SUBSET S
  OBVIOUS
<1>2. PICK U \in Bad : \A W \in Bad : W \subseteq U => W = U
  <2> HIDE DEF Bad
  <2> QED BY <1>1, MinimalSubset
<1>3. IsFiniteSet(U) /\ IsFiniteSet(T)
  BY FS_Subset
<1>4. sum(T) \in Nat
  BY <1>3, SumType
<1>5. PICK x \in U : x \notin T
  BY <1>4
<1>6. sum(T) <= sum(U \ {x})
  <2>1. U \ {x} \notin Bad
    BY <1>2, <1>5
  <2> QED BY <2>1, <1>5
<1>7. sum(U) = f[x] + sum(U \ {x})
  BY <1>3, SumWithout
<1>8. f[x] \in Nat /\ sum(U \ {x}) \in Nat
  <2>1. IsFiniteSet(U \ {x})
    BY <1>3, FS_Subset
  <2> QED BY <2>1, SumType
<1> QED BY <1>4, <1>6, <1>7, <1>8

(* No term is greater than the sum. *)
LEMMA SumBounds ==
  ASSUME NEW S, IsFiniteSet(S), NEW f, \A y \in S : f[y] \in Nat, NEW x \in S
  PROVE  f[x] <= SumFunctionOnSet(f, S)
<1>1. IsFiniteSet(S \ {x})
  BY FS_Subset
<1>2. SumFunctionOnSet(f, S \ {x}) \in Nat
  BY <1>1, SumType
<1> QED BY <1>2, SumWithout

(* Terms that are each within two others are so together. *)
LEMMA SumWithin ==
  ASSUME NEW S, IsFiniteSet(S), NEW f, NEW g, NEW h,
         \A x \in S : /\ f[x] \in Int /\ g[x] \in Int /\ h[x] \in Int
                      /\ f[x] <= g[x] + h[x]
  PROVE  SumFunctionOnSet(f, S) <= SumFunctionOnSet(g, S) + SumFunctionOnSet(h, S)
<1> DEFINE sum(k, s) == SumFunctionOnSet(k, s)
           Bad == {s \in SUBSET S : ~(sum(f, s) <= sum(g, s) + sum(h, s))}
<1> SUFFICES ASSUME Bad # {} PROVE FALSE
  OBVIOUS
<1>1. Bad \in SUBSET SUBSET S
  OBVIOUS
<1>2. PICK T \in Bad : \A W \in Bad : W \subseteq T => W = T
  <2> HIDE DEF Bad
  <2> QED BY <1>1, MinimalSubset
<1>3. IsFiniteSet(T)
  BY FS_Subset
<1>4. sum(f, {}) = 0 /\ sum(g, {}) = 0 /\ sum(h, {}) = 0
  BY <1>3, SumUnfolds
<1>5. T \subseteq S /\ ~(sum(f, T) <= sum(g, T) + sum(h, T))
  OBVIOUS
<1>6. T # {}
  <2> SUFFICES ASSUME T = {} PROVE FALSE
    OBVIOUS
  <2>1. sum(f, T) = 0 /\ sum(g, T) = 0 /\ sum(h, T) = 0
    BY <1>4
  <2> HIDE DEF sum
  <2> QED BY <1>5, <2>1
<1>7. PICK x \in T : TRUE
  BY <1>6
<1> DEFINE R == T \ {x}
<1>8. IsFiniteSet(R)
  BY <1>3, FS_Subset
<1>9. sum(f, R) <= sum(g, R) + sum(h, R)
  BY <1>2, <1>7
<1>10. sum(f, R) \in Int /\ sum(g, R) \in Int /\ sum(h, R) \in Int
  BY <1>8, SumType
<1>11. sum(f, T) = f[x] + sum(f, R) /\ sum(g, T) = g[x] + sum(g, R) /\ sum(h, T) = h[x] + sum(h, R)
  BY <1>3, SumWithout
<1> HIDE DEF sum, R
<1> QED BY <1>9, <1>10, <1>11, <1>5

(* Nothing adds up to nothing.                                             *)
LEMMA SumOfNothing ==
  ASSUME NEW S, IsFiniteSet(S), NEW f, \A x \in S : f[x] = 0
  PROVE  SumFunctionOnSet(f, S) = 0
<1> DEFINE Bad == {s \in SUBSET S : SumFunctionOnSet(f, s) # 0}
<1> SUFFICES ASSUME Bad # {} PROVE FALSE
  OBVIOUS
<1>1. Bad \in SUBSET SUBSET S
  OBVIOUS
<1>2. PICK T \in Bad : \A W \in Bad : W \subseteq T => W = T
  <2> HIDE DEF Bad
  <2> QED BY <1>1, MinimalSubset
<1>3. IsFiniteSet(T)
  BY FS_Subset
<1>4. T # {}
  BY <1>3, SumUnfolds
<1>5. Pick(T) \in T /\ f[Pick(T)] = 0
  BY <1>4, PickIn
<1>6. SumFunctionOnSet(f, T \ {Pick(T)}) = 0
  BY <1>2, <1>5
<1>7. SumFunctionOnSet(f, T) = f[Pick(T)] + SumFunctionOnSet(f, T \ {Pick(T)})
  BY <1>3, <1>4, SumUnfolds
<1> QED BY <1>5, <1>6, <1>7
=============================================================================
