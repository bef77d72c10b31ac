------------------------------ MODULE SumProofs ------------------------------
(***************************************************************************)
(* Sums of amounts over the accounts of a finite set: that the fold which  *)
(* defines them is well defined, and how they change with one account.     *)
(***************************************************************************)
EXTENDS Integers, Functions, FiniteSetTheorems, TLAPS

(* A nonempty family of subsets of a finite set has a minimal member.  All *)
(* inductions below look at a minimal set for which a claim fails.         *)
LEMMA MinimalSubset ==
    ASSUME NEW S, IsFiniteSet(S), NEW D, D \subseteq SUBSET S, D # {}
    PROVE  \E T \in D : \A U \in D : U \subseteq T => U = T
<1>1. IsWellFoundedOn(StrictSubsetOrdering(S), SUBSET S)
    BY FS_StrictSubsetOrderingWellFounded, FS_FiniteSubsetsOfFinite
<1>2. PICK T \in D : \A U \in D : <<U, T>> \notin StrictSubsetOrdering(S)
    BY <1>1, WFMin
<1>3. ASSUME NEW U \in D, U \subseteq T, U # T PROVE FALSE
    BY <1>2, <1>3 DEF StrictSubsetOrdering
<1> QED
    BY <1>3

Picked(T) == CHOOSE x \in T : TRUE

LEMMA PickedIn == ASSUME NEW T, T # {} PROVE Picked(T) \in T
BY DEF Picked

(* The equation a sum over the subsets of S obeys.                         *)
SumStep(f, g, T) ==
    IF T = {} THEN 0 ELSE f[Picked(T)] + g[T \ {Picked(T)}]

Sums(f, S, g) == g = [T \in SUBSET S |-> SumStep(f, g, T)]

SumsOf(f, S) == CHOOSE g : Sums(f, S, g)

LEMMA SumUnfolds == \A f, S : SumFunctionOnSet(f, S) = SumsOf(f, S)[S]
BY DEF SumFunctionOnSet, FoldFunctionOnSet, MapThenFoldSet,
       SumsOf, Sums, SumStep, Picked

LEMMA SumsAt ==
    ASSUME NEW f, NEW S, NEW g, Sums(f, S, g), NEW T \in SUBSET S
    PROVE  g[T] = SumStep(f, g, T)
BY DEF Sums

LEMMA SumsUnique ==
    ASSUME NEW S, IsFiniteSet(S), NEW f, NEW g, NEW h,
           Sums(f, S, g), Sums(f, S, h)
    PROVE  g = h
<1> DEFINE D == {T \in SUBSET S : g[T] # h[T]}
<1>1. ASSUME D # {} PROVE FALSE
    <2>1. PICK T \in D : \A U \in D : U \subseteq T => U = T
        <3>1. D \subseteq SUBSET S
            OBVIOUS
        <3> HIDE DEF D
        <3> QED
            BY <1>1, <3>1, MinimalSubset
    <2>2. g[T] = SumStep(f, g, T) /\ h[T] = SumStep(f, h, T)
        BY SumsAt
    <2>3. T # {}
        BY <2>2 DEF SumStep
    <2>4. T \ {Picked(T)} \notin D
        BY <2>1, <2>3, PickedIn
    <2>5. g[T \ {Picked(T)}] = h[T \ {Picked(T)}]
        BY <2>4
    <2> QED
        BY <2>2, <2>3, <2>5 DEF SumStep
<1>2. \A T \in SUBSET S : g[T] = h[T]
    BY <1>1
<1>3. g = [T \in SUBSET S |-> g[T]] /\ h = [T \in SUBSET S |-> h[T]]
    BY DEF Sums
<1> QED
    BY <1>2, <1>3

LEMMA SumsWithin ==
    ASSUME NEW S, NEW f, NEW g, Sums(f, S, g), NEW T \in SUBSET S
    PROVE  Sums(f, T, [U \in SUBSET T |-> g[U]])
<1> DEFINE r == [U \in SUBSET T |-> g[U]]
<1>1. ASSUME NEW U \in SUBSET T PROVE r[U] = SumStep(f, r, U)
    <2>1. g[U] = SumStep(f, g, U)
        BY SumsAt
    <2>2. U \ {Picked(U)} \in SUBSET T
        OBVIOUS
    <2> QED
        BY <2>1, <2>2 DEF SumStep
<1>2. r = [U \in SUBSET T |-> r[U]]
    OBVIOUS
<1> HIDE DEF r
<1>3. Sums(f, T, r)
    BY <1>1, <1>2 DEF Sums
<1> QED
    BY <1>3 DEF r

LEMMA SumsExist ==
    ASSUME NEW S, IsFiniteSet(S), NEW f
    PROVE  Sums(f, S, SumsOf(f, S))
<1> DEFINE D == {T \in SUBSET S : ~ \E g : Sums(f, T, g)}
<1>1. ASSUME D # {} PROVE FALSE
    <2>1. PICK T \in D : \A U \in D : U \subseteq T => U = T
        <3>1. D \subseteq SUBSET S
            OBVIOUS
        <3> HIDE DEF D
        <3> QED
            BY <1>1, <3>1, MinimalSubset
    <2> DEFINE val(V) == SumsOf(f, V)[V]
               g == [V \in SUBSET T |->
                        IF V = {} THEN 0
                        ELSE f[Picked(V)] + val(V \ {Picked(V)})]
    <2>2. ASSUME NEW W \in SUBSET T, W # T PROVE Sums(f, W, SumsOf(f, W))
        <3>1. \E h : Sums(f, W, h)
            BY <2>1, <2>2
        <3> QED
            BY <3>1 DEF SumsOf
    <2>3. ASSUME NEW W \in SUBSET T, W # T PROVE g[W] = val(W)
        <3> DEFINE h == SumsOf(f, W)
                   V == W \ {Picked(W)}
        <3>1. Sums(f, W, h)
            BY <2>2, <2>3
        <3>2. h[W] = SumStep(f, h, W)
            BY <3>1, SumsAt
        <3>3. ASSUME W # {} PROVE h[V] = val(V)
            <4>1. Sums(f, V, [U \in SUBSET V |-> h[U]])
                <5>1. V \in SUBSET W
                    OBVIOUS
                <5> HIDE DEF h, V
                <5> QED
                    BY <3>1, <5>1, SumsWithin
            <4>2. V \in SUBSET T /\ V # T
                BY <3>3, PickedIn
            <4>3. Sums(f, V, SumsOf(f, V))
                BY <4>2, <2>2
            <4>4. IsFiniteSet(V)
                BY FS_Subset
            <4>5. [U \in SUBSET V |-> h[U]] = SumsOf(f, V)
                BY <4>1, <4>3, <4>4, SumsUnique
            <4> HIDE DEF h, V
            <4>6. [U \in SUBSET V |-> h[U]][V] = h[V]
                OBVIOUS
            <4> QED
                BY <4>5, <4>6
        <3> QED
            BY <3>2, <3>3 DEF SumStep
    <2>4. ASSUME NEW V \in SUBSET T PROVE g[V] = SumStep(f, g, V)
        <3>1. ASSUME V # {} PROVE g[V \ {Picked(V)}] = val(V \ {Picked(V)})
            BY <2>3, <3>1, PickedIn
        <3>2. g[V] = IF V = {} THEN 0
                     ELSE f[Picked(V)] + val(V \ {Picked(V)})
            OBVIOUS
        <3> HIDE DEF g, val
        <3> QED
            BY <3>1, <3>2 DEF SumStep
    <2>5. g = [V \in SUBSET T |-> g[V]]
        OBVIOUS
    <2> HIDE DEF g
    <2>6. Sums(f, T, g)
        BY <2>4, <2>5 DEF Sums
    <2> QED
        BY <2>1, <2>6
<1>2. \E g : Sums(f, S, g)
    BY <1>1
<1> QED
    BY <1>2 DEF SumsOf

-----------------------------------------------------------------------------
LEMMA SumOfNone == ASSUME NEW f PROVE SumFunctionOnSet(f, {}) = 0
<1>1. Sums(f, {}, SumsOf(f, {}))
    BY SumsExist, FS_EmptySet
<1> QED
    BY <1>1, SumsAt, SumUnfolds DEF SumStep

LEMMA SumPicked ==
    ASSUME NEW S, IsFiniteSet(S), S # {}, NEW f
    PROVE  SumFunctionOnSet(f, S) =
               f[Picked(S)] + SumFunctionOnSet(f, S \ {Picked(S)})
<1> DEFINE T == S \ {Picked(S)}
           g == SumsOf(f, S)
<1>1. IsFiniteSet(T) /\ T \in SUBSET S
    BY FS_Subset
<1>2. Sums(f, S, g) /\ Sums(f, T, SumsOf(f, T))
    BY <1>1, SumsExist
<1>3. Sums(f, T, [U \in SUBSET T |-> g[U]])
    BY <1>1, <1>2, SumsWithin
<1>4. [U \in SUBSET T |-> g[U]] = SumsOf(f, T)
    BY <1>1, <1>2, <1>3, SumsUnique
<1>5. g[S] = f[Picked(S)] + g[T]
    BY <1>2, SumsAt DEF SumStep
<1> HIDE DEF g, T
<1>6. [U \in SUBSET T |-> g[U]][T] = g[T]
    OBVIOUS
<1>7. g[T] = SumFunctionOnSet(f, T)
    BY <1>4, <1>6, SumUnfolds
<1> QED
    BY <1>5, <1>7, SumUnfolds DEF g, T

LEMMA SumNat ==
    ASSUME NEW S, IsFiniteSet(S), NEW f, \A x \in S : f[x] \in Nat
    PROVE  SumFunctionOnSet(f, S) \in Nat
<1> DEFINE D == {T \in SUBSET S : SumFunctionOnSet(f, T) \notin Nat}
<1>1. ASSUME D # {} PROVE FALSE
    <2>1. PICK T \in D : \A U \in D : U \subseteq T => U = T
        <3>1. D \subseteq SUBSET S
            OBVIOUS
        <3> HIDE DEF D
        <3> QED
            BY <1>1, <3>1, MinimalSubset
    <2>2. T # {}
        BY SumOfNone
    <2>3. Picked(T) \in T /\ T \ {Picked(T)} \notin D
        BY <2>1, <2>2, PickedIn
    <2>4. SumFunctionOnSet(f, T \ {Picked(T)}) \in Nat
        BY <2>3
    <2>5. IsFiniteSet(T) /\ f[Picked(T)] \in Nat
        BY <2>3, FS_Subset
    <2>6. SumFunctionOnSet(f, T) =
              f[Picked(T)] + SumFunctionOnSet(f, T \ {Picked(T)})
        BY <2>2, <2>5, SumPicked
    <2>7. SumFunctionOnSet(f, T) \in Nat
        BY <2>4, <2>5, <2>6
    <2> QED
        BY <2>7
<1> QED
    BY <1>1

(* Any account may be taken out of a sum.                                  *)
LEMMA SumWithout ==
    ASSUME NEW S, IsFiniteSet(S), NEW f, \A x \in S : f[x] \in Nat,
           NEW a \in S
    PROVE  SumFunctionOnSet(f, S) = f[a] + SumFunctionOnSet(f, S \ {a})
<1> DEFINE Sum(T) == SumFunctionOnSet(f, T)
           D == {T \in SUBSET S :
                    ~ \A x \in T : Sum(T) = f[x] + Sum(T \ {x})}
<1> HIDE DEF Sum
<1>1. ASSUME D # {} PROVE FALSE
    <2>1. PICK T \in D : \A U \in D : U \subseteq T => U = T
        <3>1. D \subseteq SUBSET S
            OBVIOUS
        <3> HIDE DEF D
        <3> QED
            BY <1>1, <3>1, MinimalSubset
    <2>2. PICK x \in T : Sum(T) # f[x] + Sum(T \ {x})
        OBVIOUS
    <2> DEFINE c == Picked(T)
               U == T \ {c}
               V == T \ {x}
    <2>3. c \in T
        BY <2>2, PickedIn
    <2>4. IsFiniteSet(T) /\ IsFiniteSet(U \ {x})
        BY FS_Subset
    <2>5. Sum(T) = f[c] + Sum(U)
        BY <2>2, <2>4, SumPicked DEF Sum
    <2>6. c # x
        BY <2>2, <2>5
    <2>7. U \notin D /\ V \notin D
        BY <2>1, <2>3
    <2>8. x \in U /\ c \in V
        BY <2>3, <2>6
    <2>9. Sum(U) = f[x] + Sum(U \ {x}) /\ Sum(V) = f[c] + Sum(V \ {c})
        BY <2>7, <2>8
    <2>10. V \ {c} = U \ {x}
        OBVIOUS
    <2>11. Sum(U \ {x}) \in Nat
        BY <2>4, SumNat DEF Sum
    <2> HIDE DEF U, V, c
    <2>12. f[x] \in Nat /\ f[c] \in Nat
        BY <2>3
    <2>13. Sum(V) = f[c] + Sum(U \ {x})
        BY <2>9, <2>10
    <2>14. Sum(T) = f[c] + (f[x] + Sum(U \ {x}))
        BY <2>5, <2>9
    <2>15. Sum(T) = f[x] + Sum(V)
        BY <2>11, <2>12, <2>13, <2>14
    <2> QED
        BY <2>2, <2>15 DEF V
<1> QED
    BY <1>1 DEF Sum

LEMMA SumEqual ==
    ASSUME NEW S, IsFiniteSet(S), NEW f, NEW g, \A x \in S : f[x] = g[x]
    PROVE  SumFunctionOnSet(f, S) = SumFunctionOnSet(g, S)
<1> DEFINE D == {T \in SUBSET S :
                    SumFunctionOnSet(f, T) # SumFunctionOnSet(g, T)}
<1>1. ASSUME D # {} PROVE FALSE
    <2>1. PICK T \in D : \A U \in D : U \subseteq T => U = T
        <3>1. D \subseteq SUBSET S
            OBVIOUS
        <3> HIDE DEF D
        <3> QED
            BY <1>1, <3>1, MinimalSubset
    <2>2. T # {}
        BY SumOfNone
    <2>3. Picked(T) \in T /\ T \ {Picked(T)} \notin D
        BY <2>1, <2>2, PickedIn
    <2>4. IsFiniteSet(T)
        BY FS_Subset
    <2> QED
        BY <2>2, <2>3, <2>4, SumPicked
<1> QED
    BY <1>1

(* One account changes: the sum changes by as much.                        *)
LEMMA SumUpdate ==
    ASSUME NEW S, IsFiniteSet(S), NEW A, S \subseteq A,
           NEW f \in [A -> Nat], NEW a \in S, NEW v \in Nat
    PROVE  SumFunctionOnSet([f EXCEPT ![a] = v], S) + f[a]
               = SumFunctionOnSet(f, S) + v
<1> DEFINE g == [f EXCEPT ![a] = v]
           R == S \ {a}
<1>1. g \in [A -> Nat] /\ g[a] = v /\ \A x \in R : g[x] = f[x]
    OBVIOUS
<1>2. IsFiniteSet(R)
    BY FS_Subset
<1> HIDE DEF g
<1>3. SumFunctionOnSet(g, R) = SumFunctionOnSet(f, R)
    BY <1>1, <1>2, SumEqual
<1>4. SumFunctionOnSet(f, R) \in Nat
    BY <1>2, SumNat
<1>5. SumFunctionOnSet(g, S) = g[a] + SumFunctionOnSet(g, R)
    BY <1>1, SumWithout
<1>6. SumFunctionOnSet(f, S) = f[a] + SumFunctionOnSet(f, R)
    BY SumWithout
<1>7. f[a] \in Nat
    OBVIOUS
<1> HIDE DEF R
<1>8. SumFunctionOnSet(g, S) + f[a] = SumFunctionOnSet(f, S) + v
    BY <1>1, <1>3, <1>4, <1>5, <1>6, <1>7
<1> QED
    BY <1>8 DEF g

(* The same when there are no other accounts.                              *)
LEMMA SumUpdateAll ==
    ASSUME NEW S, IsFiniteSet(S), NEW f \in [S -> Nat],
           NEW a \in S, NEW v \in Nat
    PROVE  SumFunctionOnSet([f EXCEPT ![a] = v], S) + f[a]
               = SumFunctionOnSet(f, S) + v
<1> DEFINE g == [f EXCEPT ![a] = v]
           R == S \ {a}
<1>1. g \in [S -> Nat] /\ g[a] = v /\ \A x \in R : g[x] = f[x]
    OBVIOUS
<1>2. IsFiniteSet(R)
    BY FS_Subset
<1> HIDE DEF g
<1>3. SumFunctionOnSet(g, R) = SumFunctionOnSet(f, R)
    BY <1>1, <1>2, SumEqual
<1>4. SumFunctionOnSet(f, R) \in Nat
    BY <1>2, SumNat
<1>5. SumFunctionOnSet(g, S) = g[a] + SumFunctionOnSet(g, R)
    BY <1>1, SumWithout
<1>6. SumFunctionOnSet(f, S) = f[a] + SumFunctionOnSet(f, R)
    BY SumWithout
<1>7. f[a] \in Nat
    OBVIOUS
<1> HIDE DEF R
<1>8. SumFunctionOnSet(g, S) + f[a] = SumFunctionOnSet(f, S) + v
    BY <1>1, <1>3, <1>4, <1>5, <1>6, <1>7
<1> QED
    BY <1>8 DEF g

(* Equal amounts add up to a product.                                      *)
LEMMA SumOfEquals ==
    ASSUME NEW S, IsFiniteSet(S), NEW f, NEW k \in Nat,
           \A x \in S : f[x] = k
    PROVE  SumFunctionOnSet(f, S) = k * Cardinality(S)
<1> DEFINE D == {T \in SUBSET S :
                    SumFunctionOnSet(f, T) # k * Cardinality(T)}
<1>1. ASSUME D # {} PROVE FALSE
    <2>1. PICK T \in D : \A U \in D : U \subseteq T => U = T
        <3>1. D \subseteq SUBSET S
            OBVIOUS
        <3> HIDE DEF D
        <3> QED
            BY <1>1, <3>1, MinimalSubset
    <2>2. T # {}
        BY SumOfNone, FS_EmptySet
    <2> DEFINE U == T \ {Picked(T)}
    <2>3. Picked(T) \in T /\ U \notin D
        BY <2>1, <2>2, PickedIn
    <2>4. IsFiniteSet(T)
        BY FS_Subset
    <2>5. /\ IsFiniteSet(U)
          /\ Cardinality(U) = Cardinality(T) - 1
        BY <2>3, <2>4, FS_RemoveElement
    <2>6. Cardinality(U) \in Nat /\ Cardinality(T) \in Nat
        BY <2>4, <2>5, FS_CardinalityType
    <2>7. SumFunctionOnSet(f, U) = k * Cardinality(U)
        BY <2>3
    <2>8. SumFunctionOnSet(f, T) = k + SumFunctionOnSet(f, U)
        BY <2>2, <2>3, <2>4, SumPicked
    <2> HIDE DEF U
    <2>9. k + k * Cardinality(U) = k * Cardinality(T)
        BY <2>5, <2>6
    <2> QED
        BY <2>7, <2>8, <2>9
<1> QED
    BY <1>1

(* The pairs of a key in T and a member of its set: how many there are is  *)
(* the sum of the sizes of the sets.                                       *)
Pairs(T, B) == UNION {{t} \X B[t] : t \in T}

LEMMA PairsCounted ==
    ASSUME NEW S, IsFiniteSet(S), NEW B,
           \A t \in S : IsFiniteSet(B[t])
    PROVE  /\ IsFiniteSet(Pairs(S, B))
           /\ Cardinality(Pairs(S, B))
                  = SumFunctionOnSet([t \in S |-> Cardinality(B[t])], S)
<1> DEFINE size == [t \in S |-> Cardinality(B[t])]
           Good(T) == /\ IsFiniteSet(Pairs(T, B))
                      /\ Cardinality(Pairs(T, B)) = SumFunctionOnSet(size, T)
           D == {T \in SUBSET S : ~Good(T)}
<1>1. ASSUME D # {} PROVE FALSE
    <2>1. PICK T \in D : \A U \in D : U \subseteq T => U = T
        <3>1. D \subseteq SUBSET S
            OBVIOUS
        <3> HIDE DEF D
        <3> QED
            BY <1>1, <3>1, MinimalSubset
    <2> DEFINE t == Picked(T)
               U == T \ {t}
               row == {t} \X B[t]
    <2>2. T # {}
        <3>1. Pairs({}, B) = {}
            BY DEF Pairs
        <3>2. Good({})
            BY <3>1, SumOfNone, FS_EmptySet
        <3> HIDE DEF Good
        <3> QED
            BY <2>1, <3>2
    <2>3. t \in T /\ t \in S /\ U \in SUBSET S
        BY <2>2, PickedIn
    <2>4. Good(U)
        <3> HIDE DEF Good
        <3> QED
            BY <2>1, <2>3
    <2>5. IsFiniteSet(B[t]) /\ Cardinality(B[t]) \in Nat
        BY <2>3, FS_CardinalityType
    <2>6. IsFiniteSet(row) /\ Cardinality(row) = Cardinality(B[t])
        <3>1. IsFiniteSet({t}) /\ Cardinality({t}) = 1
            BY FS_Singleton
        <3> QED
            BY <2>5, <3>1, FS_Product
    <2>7. Pairs(T, B) = Pairs(U, B) \cup row /\ Pairs(U, B) \cap row = {}
        <3>1. T = U \cup {t}
            BY <2>3
        <3>2. \A e \in Pairs(U, B) : e[1] \in U
            BY DEF Pairs
        <3>3. \A e \in row : e[1] = t
            OBVIOUS
        <3>4. t \notin U
            OBVIOUS
        <3> HIDE DEF U, t
        <3>5. Pairs(U \cup {t}, B) = Pairs(U, B) \cup ({t} \X B[t])
            BY DEF Pairs
        <3>6. Pairs(U, B) \cap row = {}
            BY <3>2, <3>3, <3>4
        <3> QED
            BY <3>1, <3>5, <3>6
    <2>8. IsFiniteSet(T)
        BY FS_Subset
    <2>9. SumFunctionOnSet(size, T)
              = Cardinality(B[t]) + SumFunctionOnSet(size, U)
        BY <2>2, <2>3, <2>8, SumPicked
    <2>10. Cardinality(Pairs(U, B)) \in Nat
        BY <2>4, FS_CardinalityType
    <2> HIDE DEF size, row, U
    <2>11. /\ IsFiniteSet(Pairs(T, B))
           /\ Cardinality(Pairs(T, B))
                  = Cardinality(Pairs(U, B)) + Cardinality(row)
        <3>1. Cardinality({}) = 0
            BY FS_EmptySet
        <3>2. Cardinality(row) \in Nat
            BY <2>5, <2>6
        <3>3. /\ IsFiniteSet(Pairs(U, B) \cup row)
              /\ Cardinality(Pairs(U, B) \cup row)
                     = Cardinality(Pairs(U, B)) + Cardinality(row)
                           - Cardinality(Pairs(U, B) \cap row)
            BY <2>4, <2>6, FS_Union
        <3>4. Cardinality(Pairs(U, B)) + Cardinality(row) - 0
                  = Cardinality(Pairs(U, B)) + Cardinality(row)
            BY <2>10, <3>2
        <3> QED
            BY <2>7, <3>1, <3>3, <3>4, Zenon
    <2>12. Good(T)
        BY <2>4, <2>5, <2>6, <2>9, <2>10, <2>11
    <2> HIDE DEF Good
    <2> QED
        BY <2>12
<1>2. Good(S)
    <2> HIDE DEF Good
    <2> QED
        BY <1>1
<1> QED
    BY <1>2

(* A common factor may be taken out of a sum.                              *)
LEMMA SumOfMultiples ==
    ASSUME NEW S, IsFiniteSet(S), NEW f, NEW g, NEW k \in Nat,
           \A x \in S : g[x] \in Nat /\ f[x] = k * g[x]
    PROVE  SumFunctionOnSet(f, S) = k * SumFunctionOnSet(g, S)
<1> DEFINE D == {T \in SUBSET S :
                    SumFunctionOnSet(f, T) # k * SumFunctionOnSet(g, T)}
<1>1. ASSUME D # {} PROVE FALSE
    <2>1. PICK T \in D : \A U \in D : U \subseteq T => U = T
        <3>1. D \subseteq SUBSET S
            OBVIOUS
        <3> HIDE DEF D
        <3> QED
            BY <1>1, <3>1, MinimalSubset
    <2>2. T # {}
        <3>1. k * 0 = 0
            OBVIOUS
        <3> QED
            BY <2>1, <3>1, SumOfNone
    <2> DEFINE x == Picked(T)
               U == T \ {x}
    <2>3. x \in T /\ U \notin D
        BY <2>1, <2>2, PickedIn
    <2>4. IsFiniteSet(T) /\ IsFiniteSet(U)
        BY FS_Subset
    <2>5. SumFunctionOnSet(f, U) = k * SumFunctionOnSet(g, U)
        BY <2>3
    <2>6. /\ SumFunctionOnSet(f, T) = f[x] + SumFunctionOnSet(f, U)
          /\ SumFunctionOnSet(g, T) = g[x] + SumFunctionOnSet(g, U)
        BY <2>2, <2>4, SumPicked
    <2>7. SumFunctionOnSet(g, U) \in Nat
        BY <2>4, SumNat
    <2>8. g[x] \in Nat /\ f[x] = k * g[x]
        BY <2>3
    <2> HIDE DEF x, U
    <2>9. k * (g[x] + SumFunctionOnSet(g, U))
              = k * g[x] + k * SumFunctionOnSet(g, U)
        BY <2>7, <2>8
    <2>10. SumFunctionOnSet(f, T) = k * SumFunctionOnSet(g, T)
        BY <2>5, <2>6, <2>8, <2>9
    <2> QED
        BY <2>10
<1> QED
    BY <1>1
(* The sum of a difference and what was taken off is the sum of the whole. *)
LEMMA SumOfParts ==
    ASSUME NEW S, IsFiniteSet(S), NEW f, NEW g, NEW h,
           \A x \in S : g[x] \in Nat /\ h[x] \in Nat /\ f[x] = g[x] + h[x]
    PROVE  SumFunctionOnSet(f, S)
               = SumFunctionOnSet(g, S) + SumFunctionOnSet(h, S)
<1> DEFINE Good(T) == SumFunctionOnSet(f, T)
                          = SumFunctionOnSet(g, T) + SumFunctionOnSet(h, T)
           D == {T \in SUBSET S : ~Good(T)}
<1>1. ASSUME D # {} PROVE FALSE
    <2>1. PICK T \in D : \A U \in D : U \subseteq T => U = T
        <3>1. D \subseteq SUBSET S
            OBVIOUS
        <3> HIDE DEF D
        <3> QED
            BY <1>1, <3>1, MinimalSubset
    <2>2. T # {}
        <3>1. Good({})
            BY SumOfNone
        <3> HIDE DEF Good
        <3> QED
            BY <2>1, <3>1
    <2> DEFINE x == Picked(T)
               U == T \ {x}
    <2>3. x \in T /\ U \notin D /\ U \in SUBSET S
        BY <2>1, <2>2, PickedIn
    <2>4. IsFiniteSet(T) /\ IsFiniteSet(U)
        BY FS_Subset
    <2>5. Good(U)
        BY <2>3
    <2>6. /\ SumFunctionOnSet(f, T) = f[x] + SumFunctionOnSet(f, U)
          /\ SumFunctionOnSet(g, T) = g[x] + SumFunctionOnSet(g, U)
          /\ SumFunctionOnSet(h, T) = h[x] + SumFunctionOnSet(h, U)
        BY <2>2, <2>4, SumPicked
    <2>7. SumFunctionOnSet(g, U) \in Nat /\ SumFunctionOnSet(h, U) \in Nat
        BY <2>4, SumNat
    <2>8. g[x] \in Nat /\ h[x] \in Nat /\ f[x] = g[x] + h[x]
        BY <2>3
    <2> HIDE DEF x, U
    <2>9. Good(T)
        BY <2>5, <2>6, <2>7, <2>8
    <2> QED
        BY <2>9
<1> QED
    BY <1>1

(* Amounts that are each within another add up to no more.                 *)
LEMMA SumWithin ==
    ASSUME NEW S, IsFiniteSet(S), NEW f, NEW g,
           \A x \in S : f[x] \in Nat /\ g[x] \in Nat /\ f[x] <= g[x]
    PROVE  SumFunctionOnSet(f, S) <= SumFunctionOnSet(g, S)
<1> DEFINE h == [x \in S |-> g[x] - f[x]]
<1>1. \A x \in S : f[x] \in Nat /\ h[x] \in Nat /\ g[x] = f[x] + h[x]
    OBVIOUS
<1> HIDE DEF h
<1>2. SumFunctionOnSet(g, S)
          = SumFunctionOnSet(f, S) + SumFunctionOnSet(h, S)
    BY <1>1, SumOfParts
<1>3. SumFunctionOnSet(f, S) \in Nat /\ SumFunctionOnSet(h, S) \in Nat
    BY <1>1, SumNat
<1> QED
    BY <1>2, <1>3

(* Accounts picked out by different keys hold no more than all do.         *)
LEMMA SumOfSome ==
    ASSUME NEW S, IsFiniteSet(S), NEW R, IsFiniteSet(R),
           NEW f, \A y \in R : f[y] \in Nat,
           NEW key, \A x \in S : key[x] \in R,
           \A x, y \in S : key[x] = key[y] => x = y
    PROVE  SumFunctionOnSet([x \in S |-> f[key[x]]], S)
               <= SumFunctionOnSet(f, R)
<1> DEFINE g == [x \in S |-> f[key[x]]]
           Rest(T) == R \ {key[x] : x \in T}
           Good(T) == SumFunctionOnSet(g, T) + SumFunctionOnSet(f, Rest(T))
                          = SumFunctionOnSet(f, R)
           D == {T \in SUBSET S : ~Good(T)}
<1>1. ASSUME D # {} PROVE FALSE
    <2>1. PICK T \in D : \A U \in D : U \subseteq T => U = T
        <3>1. D \subseteq SUBSET S
            OBVIOUS
        <3> HIDE DEF D
        <3> QED
            BY <1>1, <3>1, MinimalSubset
    <2>2. T # {}
        <3>1. Rest({}) = R
            OBVIOUS
        <3>2. SumFunctionOnSet(f, R) \in Nat
            BY SumNat
        <3>3. Good({})
            BY <3>1, <3>2, SumOfNone
        <3> HIDE DEF Good
        <3> QED
            BY <2>1, <3>3
    <2> DEFINE c == Picked(T)
               U == T \ {c}
    <2>3. c \in T /\ U \notin D /\ U \in SUBSET S /\ c \in S
        BY <2>1, <2>2, PickedIn
    <2>4. IsFiniteSet(T) /\ IsFiniteSet(U)
        BY FS_Subset
    <2>5. Good(U)
        <3> HIDE DEF Good
        <3> QED
            BY <2>3
    <2>6. SumFunctionOnSet(g, T) = f[key[c]] + SumFunctionOnSet(g, U)
        BY <2>2, <2>3, <2>4, SumPicked
    <2>7. key[c] \in Rest(U) /\ Rest(T) = Rest(U) \ {key[c]}
        <3>1. \A x \in U : key[x] # key[c]
            BY <2>3
        <3>2. T = U \cup {c}
            BY <2>3
        <3> HIDE DEF U, c
        <3> QED
            BY <2>3, <3>1, <3>2
    <2>8. IsFiniteSet(Rest(U)) /\ IsFiniteSet(Rest(T))
        BY FS_Subset
    <2>9. SumFunctionOnSet(f, Rest(U))
              = f[key[c]] + SumFunctionOnSet(f, Rest(T))
        <3>1. \A y \in Rest(U) : f[y] \in Nat
            OBVIOUS
        <3> HIDE DEF Rest, U, c
        <3>2. SumFunctionOnSet(f, Rest(U))
                  = f[key[c]] + SumFunctionOnSet(f, Rest(U) \ {key[c]})
            BY <2>7, <2>8, <3>1, SumWithout
        <3> QED
            BY <2>7, <3>2
    <2>10. /\ SumFunctionOnSet(g, U) \in Nat /\ f[key[c]] \in Nat
           /\ SumFunctionOnSet(f, Rest(T)) \in Nat
        BY <2>3, <2>4, <2>8, SumNat
    <2> HIDE DEF g, Rest, U, c
    <2>11. Good(T)
        BY <2>5, <2>6, <2>9, <2>10
    <2> HIDE DEF Good
    <2> QED
        BY <2>11
<1>2. Good(S)
    <2> HIDE DEF Good
    <2> QED
        BY <1>1
<1>3. /\ SumFunctionOnSet(g, S) \in Nat
      /\ SumFunctionOnSet(f, Rest(S)) \in Nat
    <2>1. IsFiniteSet(Rest(S))
        BY FS_Subset
    <2> QED
        BY <2>1, SumNat
<1> HIDE DEF Rest, g
<1>4. SumFunctionOnSet(g, S) <= SumFunctionOnSet(f, R)
    BY <1>2, <1>3
<1> QED
    BY <1>4 DEF g
=============================================================================
