----------------------------- MODULE DataLemmas -----------------------------
(***************************************************************************)
(* Facts about data: what SumFunctionOnSet of the community modules        *)
(* computes, the sum of a function over a finite set in whatever order the *)
(* elements are chosen, and sequences without repetitions.  Induction goes *)
(* over families of subsets of a finite set, which have smallest members,  *)
(* and over sets of natural numbers, which have a least one.               *)
(***************************************************************************)
EXTENDS Integers, SequencesExt, FiniteSetTheorems, SequenceTheorems, WellFoundedInduction, TLAPS

\* Every family of subsets of a finite set has a smallest member.
LEMMA SmallestSubset ==
    ASSUME NEW S, IsFiniteSet(S), NEW F, F \subseteq SUBSET S, F # {}
    PROVE  \E m \in F : \A k \in F : ~(k \subseteq m /\ k # m)
<1>1. F \subseteq FiniteSubsetsOf(S)
  BY FS_Subset DEF FiniteSubsetsOf
<1>2. PICK m \in F : \A k \in F : <<k, m>> \notin StrictSubsetOrdering(S)
  BY <1>1, WFMin, FS_StrictSubsetOrderingWellFounded
<1> QED
  BY <1>1, <1>2 DEF StrictSubsetOrdering

\* Every set of natural numbers has a smallest member.
LEMMA SmallestNat ==
    ASSUME NEW T, T \subseteq Nat, T # {}
    PROVE  \E m \in T : \A k \in T : ~(k < m)
<1>1. IsWellFoundedOn(OpToRel(<, Nat), Nat)
  BY NatLessThanWellFounded
<1>2. PICK m \in T : \A k \in T : <<k, m>> \notin OpToRel(<, Nat)
  BY <1>1, WFMin
<1>3. \A k \in T : <<k, m>> \in OpToRel(<, Nat) <=> k < m
  BY DEF OpToRel
<1> QED
  BY <1>2, <1>3

\* A set that has 0 and the successor of each of its members up to n has all
\* numbers up to n.
LEMMA InductionUpTo ==
    ASSUME NEW n \in Nat, NEW T, 0 \in T,
           \A k \in 0..(n - 1) : k \in T => k + 1 \in T
    PROVE  \A k \in 0..n : k \in T
<1> SUFFICES ASSUME {k \in 0..n : k \notin T} # {}
             PROVE  FALSE
  OBVIOUS
<1>1. PICK m \in {k \in 0..n : k \notin T} :
          \A k \in {j \in 0..n : j \notin T} : ~(k < m)
  BY SmallestNat, {k \in 0..n : k \notin T} \subseteq Nat
<1>2. m # 0 /\ m - 1 \in 0..(n - 1) /\ m - 1 < m
  BY <1>1
<1>3. m - 1 \in T
  BY <1>1, <1>2
<1> QED
  BY <1>1, <1>2, <1>3

-----------------------------------------------------------------------------
\* The recursion behind SumFunctionOnSet: IsSum(s, f, S) says that s[T] is the
\* sum over T, for all subsets T of S.
First(T) == CHOOSE x \in T : TRUE
Rest(T) == T \ {First(T)}
SumStep(f, s, T) == IF T = {} THEN 0 ELSE f[First(T)] + s[Rest(T)]
IsSum(s, f, S) == s = [T \in SUBSET S |-> SumStep(f, s, T)]

\* The element that is taken first, and what is left.
LEMMA FirstAndRest ==
    ASSUME NEW T, T # {}
    PROVE  First(T) \in T /\ Rest(T) \subseteq T /\ Rest(T) # T
BY DEF First, Rest

\* The recursion has one solution at most.
LEMMA SumIsUnique ==
    ASSUME NEW f, NEW S, IsFiniteSet(S), NEW U \in SUBSET S, NEW V \in SUBSET S,
           NEW s, NEW t, IsSum(s, f, U), IsSum(t, f, V)
    PROVE  \A T \in SUBSET (U \cap V) : s[T] = t[T]
<1> DEFINE F == {T \in SUBSET (U \cap V) : s[T] # t[T]}
<1> SUFFICES ASSUME F # {}
             PROVE  FALSE
  OBVIOUS
<1>1. PICK m \in F : \A k \in F : ~(k \subseteq m /\ k # m)
  <2>1. F \subseteq SUBSET S
    OBVIOUS
  <2> HIDE DEF F
  <2> QED
    BY <2>1, SmallestSubset
<1>2. s[m] = SumStep(f, s, m) /\ t[m] = SumStep(f, t, m)
  BY <1>1 DEF IsSum
<1>3. m # {}
  BY <1>1, <1>2 DEF SumStep
<1>4. Rest(m) \subseteq m /\ Rest(m) # m
  BY <1>3, FirstAndRest
<1>5. s[Rest(m)] = t[Rest(m)]
  BY <1>1, <1>4
<1> QED
  BY <1>1, <1>2, <1>3, <1>5 DEF SumStep

\* The recursion has a solution.
LEMMA SumExists ==
    ASSUME NEW f, NEW S, IsFiniteSet(S)
    PROVE  \E s : IsSum(s, f, S)
<1> DEFINE F == {T \in SUBSET S : ~\E s : IsSum(s, f, T)}
<1> SUFFICES ASSUME F # {}
             PROVE  FALSE
  OBVIOUS
<1>1. PICK m \in F : \A k \in F : ~(k \subseteq m /\ k # m)
  <2>1. F \subseteq SUBSET S
    OBVIOUS
  <2> HIDE DEF F
  <2> QED
    BY <2>1, SmallestSubset
<1>2. \A U \in SUBSET m : U # m => \E s : IsSum(s, f, U)
  BY <1>1
<1> DEFINE G(U) == CHOOSE s : IsSum(s, f, U)
           g == [U \in SUBSET m |->
                    IF U = m /\ m # {} THEN f[First(m)] + G(Rest(m))[Rest(m)]
                    ELSE IF U = {} THEN 0 ELSE G(U)[U]]
<1>3. \A U \in SUBSET m : U # m => IsSum(G(U), f, U)
  BY <1>2
<1>4. ASSUME NEW U \in SUBSET m
      PROVE  g[U] = SumStep(f, g, U)
  <2>1. CASE U = {}
    BY <2>1 DEF SumStep
  <2>2. CASE U # {} /\ U = m
    <3>1. Rest(m) \in SUBSET m /\ Rest(m) # m
      BY <2>2, FirstAndRest
    <3>2. Rest(m) = {} => G(Rest(m))[Rest(m)] = 0
      <4>1. IsSum(G(Rest(m)), f, Rest(m))
        BY <3>1, <1>3
      <4> HIDE DEF G
      <4> QED
        BY <4>1 DEF IsSum, SumStep
    <3>3. g[Rest(m)] = G(Rest(m))[Rest(m)]
      BY <3>1, <3>2
    <3> QED
      BY <2>2, <3>3 DEF SumStep
  <2>3. CASE U # {} /\ U # m
    <3>1. Rest(U) \in SUBSET m /\ Rest(U) \subseteq U /\ Rest(U) # m
      BY <2>3, FirstAndRest
    <3>2. IsSum(G(U), f, U) /\ IsSum(G(Rest(U)), f, Rest(U))
      BY <1>3, <2>3, <3>1
    <3>3. G(U)[U] = f[First(U)] + G(U)[Rest(U)]
      BY <3>2, <2>3 DEF IsSum, SumStep
    <3>4. G(U)[Rest(U)] = G(Rest(U))[Rest(U)]
      <4>1. U \in SUBSET S /\ Rest(U) \in SUBSET S
        BY <1>1, <3>1
      <4>2. Rest(U) \in SUBSET (U \cap Rest(U))
        BY <3>1
      <4>3. ASSUME NEW a, NEW b, IsSum(a, f, U), IsSum(b, f, Rest(U))
            PROVE  a[Rest(U)] = b[Rest(U)]
        BY <4>1, <4>2, <4>3, SumIsUnique
      <4> HIDE DEF G
      <4> QED
        BY <3>2, <4>3
    <3>5. Rest(U) = {} => G(Rest(U))[Rest(U)] = 0
      <4> HIDE DEF G
      <4> QED
        BY <3>2 DEF IsSum, SumStep
    <3>6. g[Rest(U)] = G(Rest(U))[Rest(U)]
      BY <3>1, <3>5
    <3>7. g[U] = G(U)[U]
      BY <2>3
    <3> HIDE DEF g, G
    <3> QED
      BY <2>3, <3>3, <3>4, <3>6, <3>7 DEF SumStep
  <2> QED
    BY <2>1, <2>2, <2>3
<1>5. g = [U \in SUBSET m |-> g[U]]
  OBVIOUS
<1>6. IsSum(g, f, m)
  <2> HIDE DEF g
  <2> QED
    BY <1>4, <1>5 DEF IsSum
<1> QED
  BY <1>1, <1>6

\* SumFunctionOnSet solves the recursion, for a set and all its subsets.
LEMMA SumSolves ==
    ASSUME NEW f, NEW S, IsFiniteSet(S)
    PROVE  \E s : IsSum(s, f, S) /\ \A T \in SUBSET S : SumFunctionOnSet(f, T) = s[T]
<1>1. PICK s : IsSum(s, f, S)
  BY SumExists
<1>2. ASSUME NEW T \in SUBSET S
      PROVE  SumFunctionOnSet(f, T) = s[T]
  <2>1. SumFunctionOnSet(f, T) = (CHOOSE t : IsSum(t, f, T))[T]
    BY DEF SumFunctionOnSet, FoldFunctionOnSet, MapThenFoldSet, SumStep, First, Rest,
           IsSum
  <2>2. IsFiniteSet(T)
    BY FS_Subset
  <2>3. \E t : IsSum(t, f, T)
    BY <2>2, SumExists
  <2>4. PICK t : IsSum(t, f, T) /\ SumFunctionOnSet(f, T) = t[T]
    BY <2>1, <2>3
  <2>5. s[T] = t[T]
    BY <1>1, <2>4, SumIsUnique, S \in SUBSET S, T \in SUBSET (S \cap T)
  <2> QED
    BY <2>4, <2>5
<1> QED
  BY <1>1, <1>2

\* Nothing sums to nothing.
LEMMA SumEmpty ==
    ASSUME NEW f
    PROVE  SumFunctionOnSet(f, {}) = 0
<1>1. PICK s : IsSum(s, f, {}) /\ \A T \in SUBSET {} : SumFunctionOnSet(f, T) = s[T]
  BY SumSolves, FS_EmptySet
<1> QED
  BY <1>1 DEF IsSum, SumStep

\* The sum over a set that is not empty begins with its first element.
LEMMA SumFirst ==
    ASSUME NEW f, NEW S, IsFiniteSet(S), NEW T \in SUBSET S, T # {}
    PROVE  SumFunctionOnSet(f, T) = f[First(T)] + SumFunctionOnSet(f, Rest(T))
<1>1. PICK s : IsSum(s, f, S) /\ \A U \in SUBSET S : SumFunctionOnSet(f, U) = s[U]
  BY SumSolves
<1>2. Rest(T) \in SUBSET S
  BY FirstAndRest
<1> QED
  BY <1>1, <1>2 DEF IsSum, SumStep

\* A sum of integers is one.
LEMMA SumType ==
    ASSUME NEW S, IsFiniteSet(S), NEW f, \A x \in S : f[x] \in Int
    PROVE  SumFunctionOnSet(f, S) \in Int
<1> DEFINE E == {T \in SUBSET S : SumFunctionOnSet(f, T) \notin Int}
<1> SUFFICES ASSUME E # {}
             PROVE  FALSE
  OBVIOUS
<1>1. PICK m \in E : \A k \in E : ~(k \subseteq m /\ k # m)
  <2>1. E \subseteq SUBSET S
    OBVIOUS
  <2> HIDE DEF E
  <2> QED
    BY <2>1, SmallestSubset
<1>2. m # {}
  <2>1. SumFunctionOnSet(f, m) \notin Int
    OBVIOUS
  <2> QED
    BY <2>1, SumEmpty
<1>3. First(m) \in m /\ Rest(m) \subseteq m /\ Rest(m) # m
  BY <1>2, FirstAndRest
<1>4. SumFunctionOnSet(f, Rest(m)) \in Int
  BY <1>1, <1>3
<1>5. SumFunctionOnSet(f, m) = f[First(m)] + SumFunctionOnSet(f, Rest(m))
  BY <1>2, SumFirst
<1> QED
  BY <1>1, <1>3, <1>4, <1>5

\* The order of the elements does not matter: any of them can come first.
LEMMA SumRemove ==
    ASSUME NEW S, IsFiniteSet(S), NEW f, \A x \in S : f[x] \in Int, NEW e \in S
    PROVE  SumFunctionOnSet(f, S) = SumFunctionOnSet(f, S \ {e}) + f[e]
<1> DEFINE Fine(T) == \A x \in T : SumFunctionOnSet(f, T) =
                                       f[x] + SumFunctionOnSet(f, T \ {x})
           E == {T \in SUBSET S : ~Fine(T)}
<1>1. ASSUME E # {}
      PROVE  FALSE
  <2>1. PICK m \in E : \A k \in E : ~(k \subseteq m /\ k # m)
    <3>1. E \subseteq SUBSET S
      OBVIOUS
    <3> HIDE DEF E
    <3> QED
      BY <1>1, <3>1, SmallestSubset
  <2>2. PICK x \in m : SumFunctionOnSet(f, m) # f[x] + SumFunctionOnSet(f, m \ {x})
    BY <2>1
  <2> DEFINE y == First(m)
             r == m \ {x, y}
  <2>3. y \in m /\ Rest(m) = m \ {y}
    BY FirstAndRest DEF Rest
  <2>4. SumFunctionOnSet(f, m) = f[y] + SumFunctionOnSet(f, m \ {y})
    BY <2>3, SumFirst
  <2>5. x # y
    BY <2>2, <2>4
  <2> HIDE DEF y
  <2>6. /\ m \ {x} \in SUBSET S /\ m \ {y} \in SUBSET S
        /\ m \ {x} # m /\ m \ {y} # m
        /\ y \in m \ {x} /\ x \in m \ {y}
        /\ (m \ {x}) \ {y} = r /\ (m \ {y}) \ {x} = r
    BY <2>2, <2>3, <2>5
  <2>7. SumFunctionOnSet(f, m \ {x}) = f[y] + SumFunctionOnSet(f, r)
    <3>1. Fine(m \ {x})
      BY <2>1, <2>6
    <3> HIDE DEF r
    <3> QED
      BY <3>1, <2>6
  <2>8. SumFunctionOnSet(f, m \ {y}) = f[x] + SumFunctionOnSet(f, r)
    <3>1. Fine(m \ {y})
      BY <2>1, <2>6
    <3> HIDE DEF r
    <3> QED
      BY <3>1, <2>6
  <2>9. SumFunctionOnSet(f, r) \in Int
    <3>1. r \in SUBSET S
      OBVIOUS
    <3> HIDE DEF r
    <3> QED
      BY <3>1, FS_Subset, SumType
  <2>10. f[x] \in Int /\ f[y] \in Int
    BY <2>2, <2>3
  <2> HIDE DEF r
  <2> QED
    BY <2>2, <2>4, <2>7, <2>8, <2>9, <2>10
<1>2. S \notin E
  <2> HIDE DEF E
  <2> QED
    BY <1>1
<1>3. SumFunctionOnSet(f, S) = f[e] + SumFunctionOnSet(f, S \ {e})
  BY <1>2
<1>4. SumFunctionOnSet(f, S \ {e}) \in Int
  BY FS_Subset, SumType, S \ {e} \in SUBSET S
<1> QED
  BY <1>3, <1>4

\* An element more.
LEMMA SumAdd ==
    ASSUME NEW S, IsFiniteSet(S), NEW f, NEW e, e \notin S,
           \A x \in S \cup {e} : f[x] \in Int
    PROVE  SumFunctionOnSet(f, S \cup {e}) = SumFunctionOnSet(f, S) + f[e]
<1>1. IsFiniteSet(S \cup {e}) /\ (S \cup {e}) \ {e} = S
  BY FS_AddElement
<1> QED
  BY <1>1, SumRemove, e \in S \cup {e}

\* A sum is that of a part and that of the rest.
LEMMA SumSplit ==
    ASSUME NEW S, IsFiniteSet(S), NEW f, \A x \in S : f[x] \in Int, NEW T \in SUBSET S
    PROVE  SumFunctionOnSet(f, S) = SumFunctionOnSet(f, T) + SumFunctionOnSet(f, S \ T)
<1> DEFINE Sum(U) == SumFunctionOnSet(f, U)
           E == {U \in SUBSET T : Sum(S) # Sum(U) + Sum(S \ U)}
<1>1. \A U \in SUBSET S : IsFiniteSet(U) /\ Sum(U) \in Int
  BY FS_Subset, SumType
<1>2. \A U \in SUBSET S : \A x \in U : Sum(U) = Sum(U \ {x}) + f[x]
  BY <1>1, SumRemove
<1>3. Sum({}) = 0
  BY SumEmpty
<1> HIDE DEF Sum
<1>4. SUFFICES ASSUME E # {}
               PROVE  FALSE
  BY DEF Sum
<1>5. PICK m \in E : \A k \in E : ~(k \subseteq m /\ k # m)
  <2>1. IsFiniteSet(T) /\ E \subseteq SUBSET T
    BY <1>1
  <2> HIDE DEF E
  <2> QED
    BY <1>4, <2>1, SmallestSubset
<1>6. PICK x : x \in m
  <2>1. ASSUME m = {}
        PROVE  FALSE
    <3>1. S \ m = S
      BY <2>1
    <3> QED
      BY <1>1, <1>3, <2>1, <3>1
  <2> QED
    BY <2>1
<1> DEFINE k == m \ {x}
<1>7. k \notin E /\ k \in SUBSET T
  BY <1>5, <1>6
<1>8. Sum(S) = Sum(k) + Sum(S \ k)
  BY <1>7
<1>9. Sum(m) = Sum(k) + f[x] /\ m \in SUBSET S /\ x \in S
  BY <1>2, <1>6
<1>10. Sum(S \ k) = Sum(S \ m) + f[x]
  <2>1. S \ k \in SUBSET S /\ x \in S \ k /\ (S \ k) \ {x} = S \ m
    BY <1>6, <1>9
  <2> QED
    BY <1>2, <2>1
<1>11. Sum(S) = Sum(m) + Sum(S \ m)
  <2>1. Sum(m) \in Int /\ Sum(S \ m) \in Int /\ Sum(k) \in Int /\ f[x] \in Int
    BY <1>1, <1>9
  <2> HIDE DEF k
  <2> QED
    BY <1>8, <1>9, <1>10, <2>1
<1> QED
  BY <1>11

\* A sum depends on the function's values on the set alone.
LEMMA SumSame ==
    ASSUME NEW S, IsFiniteSet(S), NEW f, NEW g, \A x \in S : f[x] = g[x]
    PROVE  SumFunctionOnSet(f, S) = SumFunctionOnSet(g, S)
<1> DEFINE E == {T \in SUBSET S : SumFunctionOnSet(f, T) # SumFunctionOnSet(g, T)}
<1> SUFFICES ASSUME E # {}
             PROVE  FALSE
  OBVIOUS
<1>1. PICK m \in E : \A k \in E : ~(k \subseteq m /\ k # m)
  <2>1. E \subseteq SUBSET S
    OBVIOUS
  <2> HIDE DEF E
  <2> QED
    BY <2>1, SmallestSubset
<1>2. m # {}
  BY <1>1, SumEmpty
<1>3. First(m) \in m /\ Rest(m) \subseteq m /\ Rest(m) # m
  BY <1>2, FirstAndRest
<1>4. SumFunctionOnSet(f, Rest(m)) = SumFunctionOnSet(g, Rest(m))
  BY <1>1, <1>3
<1>5. /\ SumFunctionOnSet(f, m) = f[First(m)] + SumFunctionOnSet(f, Rest(m))
      /\ SumFunctionOnSet(g, m) = g[First(m)] + SumFunctionOnSet(g, Rest(m))
  BY <1>2, SumFirst
<1>6. f[First(m)] = g[First(m)]
  BY <1>3
<1> QED
  BY <1>1, <1>4, <1>5, <1>6

\* A sum of natural numbers is one.
LEMMA SumNat ==
    ASSUME NEW S, IsFiniteSet(S), NEW f, \A x \in S : f[x] \in Nat
    PROVE  SumFunctionOnSet(f, S) \in Nat
<1> DEFINE E == {T \in SUBSET S : SumFunctionOnSet(f, T) \notin Nat}
<1> SUFFICES ASSUME E # {}
             PROVE  FALSE
  OBVIOUS
<1>1. PICK m \in E : \A k \in E : ~(k \subseteq m /\ k # m)
  <2>1. E \subseteq SUBSET S
    OBVIOUS
  <2> HIDE DEF E
  <2> QED
    BY <2>1, SmallestSubset
<1>2. m # {}
  <2>1. SumFunctionOnSet(f, m) \notin Nat
    OBVIOUS
  <2> QED
    BY <2>1, SumEmpty
<1>3. First(m) \in m /\ Rest(m) \subseteq m /\ Rest(m) # m
  BY <1>2, FirstAndRest
<1>4. SumFunctionOnSet(f, Rest(m)) \in Nat
  BY <1>1, <1>3
<1>5. SumFunctionOnSet(f, m) = f[First(m)] + SumFunctionOnSet(f, Rest(m))
  BY <1>2, SumFirst
<1> QED
  BY <1>1, <1>3, <1>4, <1>5

\* Sums add up.
LEMMA SumLinear ==
    ASSUME NEW S, IsFiniteSet(S), NEW f, NEW g, NEW h,
           \A x \in S : f[x] \in Int /\ g[x] \in Int /\ h[x] = f[x] + g[x]
    PROVE  SumFunctionOnSet(h, S) = SumFunctionOnSet(f, S) + SumFunctionOnSet(g, S)
<1> DEFINE E == {T \in SUBSET S : SumFunctionOnSet(h, T) #
                     SumFunctionOnSet(f, T) + SumFunctionOnSet(g, T)}
<1> SUFFICES ASSUME E # {}
             PROVE  FALSE
  OBVIOUS
<1>1. PICK m \in E : \A k \in E : ~(k \subseteq m /\ k # m)
  <2>1. E \subseteq SUBSET S
    OBVIOUS
  <2> HIDE DEF E
  <2> QED
    BY <2>1, SmallestSubset
<1>2. m # {}
  <2>1. SumFunctionOnSet(h, m) # SumFunctionOnSet(f, m) + SumFunctionOnSet(g, m)
    BY <1>1
  <2>2. /\ SumFunctionOnSet(f, {}) = 0 /\ SumFunctionOnSet(g, {}) = 0
        /\ SumFunctionOnSet(h, {}) = 0
    BY SumEmpty
  <2>3. ASSUME m = {}
        PROVE  FALSE
    <3>1. SumFunctionOnSet(h, {}) # SumFunctionOnSet(f, {}) + SumFunctionOnSet(g, {})
      BY <2>1, <2>3
    <3> HIDE DEF E
    <3> QED
      BY <2>2, <3>1
  <2> QED
    BY <2>3
<1>3. First(m) \in m /\ Rest(m) \subseteq m /\ Rest(m) # m
  BY <1>2, FirstAndRest
<1>4. /\ Rest(m) \in SUBSET S
      /\ SumFunctionOnSet(h, Rest(m)) =
            SumFunctionOnSet(f, Rest(m)) + SumFunctionOnSet(g, Rest(m))
  BY <1>1, <1>3
<1>5. /\ SumFunctionOnSet(f, m) = f[First(m)] + SumFunctionOnSet(f, Rest(m))
      /\ SumFunctionOnSet(g, m) = g[First(m)] + SumFunctionOnSet(g, Rest(m))
      /\ SumFunctionOnSet(h, m) = h[First(m)] + SumFunctionOnSet(h, Rest(m))
  BY <1>2, SumFirst
<1>6. /\ f[First(m)] \in Int /\ g[First(m)] \in Int
      /\ h[First(m)] = f[First(m)] + g[First(m)]
  BY <1>3
<1>7. SumFunctionOnSet(f, Rest(m)) \in Int /\ SumFunctionOnSet(g, Rest(m)) \in Int
  BY <1>4, FS_Subset, SumType
<1>8. SumFunctionOnSet(h, m) # SumFunctionOnSet(f, m) + SumFunctionOnSet(g, m)
  BY <1>1
<1> QED
  BY <1>4, <1>5, <1>6, <1>7, <1>8

\* A sum of zeros.
LEMMA SumZero ==
    ASSUME NEW S, IsFiniteSet(S), NEW f, \A x \in S : f[x] = 0
    PROVE  SumFunctionOnSet(f, S) = 0
<1>1. SumFunctionOnSet(f, S) = SumFunctionOnSet(f, S) + SumFunctionOnSet(f, S)
  BY SumLinear
<1>2. SumFunctionOnSet(f, S) \in Int
  BY SumType
<1>3. ASSUME NEW i \in Int, i = i + i PROVE i = 0
  BY <1>3
<1> QED
  BY <1>1, <1>2, <1>3

\* No value is greater, and neither is the sum.
LEMMA SumLeq ==
    ASSUME NEW S, IsFiniteSet(S), NEW f, NEW g,
           \A x \in S : f[x] \in Int /\ g[x] \in Int /\ f[x] <= g[x]
    PROVE  SumFunctionOnSet(f, S) <= SumFunctionOnSet(g, S)
<1>1. PICK h : h = [x \in S |-> g[x] - f[x]]
  OBVIOUS
<1>2. \A x \in S : h[x] \in Nat /\ h[x] \in Int /\ g[x] = f[x] + h[x]
  BY <1>1
<1>3. SumFunctionOnSet(g, S) = SumFunctionOnSet(f, S) + SumFunctionOnSet(h, S)
  BY <1>2, SumLinear
<1>4. SumFunctionOnSet(h, S) \in Nat /\ SumFunctionOnSet(f, S) \in Int
  BY <1>2, SumNat, SumType
<1> QED
  BY <1>3, <1>4

\* One of several natural numbers is no more than their sum.
LEMMA SumMember ==
    ASSUME NEW S, IsFiniteSet(S), NEW f, \A x \in S : f[x] \in Nat, NEW e \in S
    PROVE  f[e] <= SumFunctionOnSet(f, S)
<1>1. SumFunctionOnSet(f, S) = SumFunctionOnSet(f, S \ {e}) + f[e]
  BY SumRemove
<1>2. PICK T : T = S \ {e}
  OBVIOUS
<1>3. SumFunctionOnSet(f, T) \in Nat
  BY <1>2, FS_Subset, SumNat, T \in SUBSET S
<1> QED
  BY <1>1, <1>2, <1>3

\* The value of one element changes, and the sum as much.
LEMMA SumChange ==
    ASSUME NEW S, IsFiniteSet(S), NEW f, NEW g, NEW e \in S,
           \A x \in S : f[x] \in Int /\ g[x] \in Int /\ (x # e => g[x] = f[x])
    PROVE  SumFunctionOnSet(g, S) = SumFunctionOnSet(f, S) + g[e] - f[e]
<1>1. /\ SumFunctionOnSet(f, S) = SumFunctionOnSet(f, S \ {e}) + f[e]
      /\ SumFunctionOnSet(g, S) = SumFunctionOnSet(g, S \ {e}) + g[e]
  BY SumRemove
<1>2. PICK T : T = S \ {e}
  OBVIOUS
<1>3. IsFiniteSet(T) /\ \A x \in T : f[x] \in Int /\ f[x] = g[x]
  BY <1>2, FS_Subset
<1>4. SumFunctionOnSet(f, T) = SumFunctionOnSet(g, T)
  BY <1>3, SumSame
<1>5. SumFunctionOnSet(f, T) \in Int
  BY <1>3, SumType
<1> QED
  BY <1>1, <1>2, <1>4, <1>5

\* The elements have other names, c[x] for x.
LEMMA SumRenamed ==
    ASSUME NEW S, IsFiniteSet(S), NEW f, NEW g, NEW c,
           \A x \in S : f[x] \in Int /\ g[c[x]] = f[x],
           \A x, y \in S : c[x] = c[y] => x = y, IsFiniteSet({c[x] : x \in S})
    PROVE  SumFunctionOnSet(g, {c[x] : x \in S}) = SumFunctionOnSet(f, S)
<1> DEFINE Names(T) == {c[x] : x \in T}
           E == {T \in SUBSET S : SumFunctionOnSet(f, T) # SumFunctionOnSet(g, Names(T))}
<1>1. \A T \in SUBSET S : IsFiniteSet(T) /\ IsFiniteSet(Names(T))
  <2>1. \A T \in SUBSET S : Names(T) \subseteq Names(S)
    OBVIOUS
  <2> HIDE DEF Names
  <2>2. IsFiniteSet(Names(S))
    BY DEF Names
  <2> QED
    BY <2>1, <2>2, FS_Subset
<1>2. ASSUME E # {}
      PROVE  FALSE
  <2>1. PICK m \in E : \A k \in E : ~(k \subseteq m /\ k # m)
    <3>1. E \subseteq SUBSET S
      OBVIOUS
    <3> HIDE DEF E
    <3> QED
      BY <1>2, <3>1, SmallestSubset
  <2>2. PICK x : x \in m
    <3>1. ASSUME m = {}
          PROVE  FALSE
      <4>1. Names(m) = {}
        BY <3>1
      <4> QED
        BY <2>1, <3>1, <4>1, SumEmpty
    <3> QED
      BY <3>1
  <2>3. PICK k : k = m \ {x}
    OBVIOUS
  <2>4. k \in SUBSET S /\ k \notin E /\ m \in SUBSET S /\ x \in S
    BY <2>1, <2>2, <2>3
  <2>5. SumFunctionOnSet(f, k) = SumFunctionOnSet(g, Names(k))
    BY <2>4
  <2>6. SumFunctionOnSet(f, m) # SumFunctionOnSet(g, Names(m))
    BY <2>1
  <2> HIDE DEF E
  <2>7. SumFunctionOnSet(f, m) = SumFunctionOnSet(f, k) + f[x]
    <3>1. IsFiniteSet(m) /\ \A y \in m : f[y] \in Int
      BY <1>1, <2>4
    <3> HIDE DEF Names
    <3> QED
      BY <2>2, <2>3, <3>1, SumRemove
  <2>8. Names(k) = Names(m) \ {c[x]} /\ c[x] \in Names(m)
    <3>1. \A y \in m : c[y] = c[x] => y = x
      BY <2>2, <2>4, m \subseteq S
    <3>2. \A z : z \in Names(k) <=> \E y \in m : y # x /\ z = c[y]
      BY <2>3
    <3>3. \A z : z \in Names(m) \ {c[x]} <=> \E y \in m : z = c[y] /\ z # c[x]
      OBVIOUS
    <3>4. \A y \in m : c[y] # c[x] <=> y # x
      BY <3>1
    <3>5. c[x] \in Names(m)
      BY <2>2
    <3> HIDE DEF Names
    <3> QED
      BY <3>2, <3>3, <3>4, <3>5
  <2>9. \A y \in Names(m) : g[y] \in Int
    BY <2>4
  <2>10. IsFiniteSet(Names(m))
    BY <1>1, <2>4
  <2> HIDE DEF Names
  <2>11. SumFunctionOnSet(g, Names(m)) = SumFunctionOnSet(g, Names(k)) + g[c[x]]
    BY <2>8, <2>9, <2>10, SumRemove
  <2> QED
    BY <2>4, <2>5, <2>6, <2>7, <2>11
<1>3. S \notin E
  <2> HIDE DEF E
  <2> QED
    BY <1>2
<1> QED
  BY <1>3

-----------------------------------------------------------------------------
\* RemoveAt takes one element out of a sequence without repetitions.
LEMMA RemoveAtFacts ==
    ASSUME NEW S, NEW s \in Seq(S), NEW i \in DOMAIN s, IsInjective(s)
    PROVE  /\ RemoveAt(s, i) \in Seq(S)
           /\ Range(RemoveAt(s, i)) = Range(s) \ {s[i]}
           /\ IsInjective(RemoveAt(s, i))
<1> DEFINE a == SubSeq(s, 1, i - 1)
           b == SubSeq(s, i + 1, Len(s))
           r == RemoveAt(s, i)
<1>1. i \in 1..Len(s)
  OBVIOUS
<1>2. a \in Seq(S) /\ Len(a) = i - 1 /\ \A j \in 1..(i - 1) : a[j] = s[j]
  BY <1>1
<1>3. b \in Seq(S) /\ Len(b) = Len(s) - i /\ \A j \in 1..(Len(s) - i) : b[j] = s[i + j]
  BY <1>1
<1>4. r = a \o b
  BY DEF RemoveAt
<1> HIDE DEF a, b, r
<1>5. r \in Seq(S) /\ Len(r) = Len(s) - 1
  BY <1>1, <1>2, <1>3, <1>4
<1>6. ASSUME NEW j \in 1..(Len(s) - 1)
      PROVE  r[j] = IF j < i THEN s[j] ELSE s[j + 1]
  <2>1. CASE j < i
    BY <2>1, <1>1, <1>2, <1>3, <1>4
  <2>2. CASE j >= i
    <3>1. r[j] = b[j - Len(a)]
      BY <2>2, <1>1, <1>2, <1>3, <1>4, SMTT(30)
    <3>2. j - Len(a) \in 1..(Len(s) - i) /\ i + (j - Len(a)) = j + 1
      BY <2>2, <1>1, <1>2
    <3> QED
      BY <2>2, <1>1, <1>3, <3>1, <3>2
  <2> QED
    BY <1>1, <2>1, <2>2
<1>7. DOMAIN r = 1..(Len(s) - 1) /\ DOMAIN s = 1..Len(s)
  BY <1>5
<1>8. Range(r) \subseteq Range(s) \ {s[i]}
  BY <1>1, <1>6, <1>7 DEF Range, IsInjective
<1>9. ASSUME NEW k \in 1..Len(s), s[k] # s[i]
      PROVE  s[k] \in Range(r)
  <2>1. k < i => k \in 1..(Len(s) - 1) /\ r[k] = s[k]
    BY <1>1, <1>6
  <2>2. k > i => k - 1 \in 1..(Len(s) - 1) /\ r[k - 1] = s[k]
    BY <1>1, <1>6
  <2> QED
    BY <1>1, <1>7, <1>9, <2>1, <2>2 DEF Range
<1>10. Range(r) = Range(s) \ {s[i]}
  BY <1>7, <1>8, <1>9 DEF Range
<1>11. IsInjective(r)
  BY <1>1, <1>6, <1>7 DEF IsInjective
<1> QED
  BY <1>5, <1>10, <1>11 DEF r

\* Append adds one element at the end.
LEMMA AppendFacts ==
    ASSUME NEW S, NEW s \in Seq(S), NEW e \in S
    PROVE  /\ Append(s, e) \in Seq(S)
           /\ Range(Append(s, e)) = Range(s) \cup {e}
           /\ IsInjective(s) /\ e \notin Range(s) => IsInjective(Append(s, e))
<1> DEFINE r == Append(s, e)
<1>1. /\ r \in Seq(S) /\ DOMAIN r = 1..(Len(s) + 1) /\ DOMAIN s = 1..Len(s)
      /\ r[Len(s) + 1] = e /\ \A j \in 1..Len(s) : r[j] = s[j]
  OBVIOUS
<1> HIDE DEF r
<1>2. Range(r) \subseteq Range(s) \cup {e}
  BY <1>1 DEF Range
<1>3. e \in Range(r) /\ Range(s) \subseteq Range(r)
  <2>1. Len(s) + 1 \in DOMAIN r /\ \A j \in DOMAIN s : j \in DOMAIN r
    BY <1>1
  <2> QED
    BY <1>1, <2>1 DEF Range
<1>4. IsInjective(s) /\ e \notin Range(s) => IsInjective(r)
  BY <1>1 DEF IsInjective, Range
<1> QED
  BY <1>1, <1>2, <1>3, <1>4 DEF r

\* One element more at the end.
LEMMA JoinedFacts ==
    ASSUME NEW S, NEW s \in Seq(S), NEW e \in S
    PROVE  /\ s \o <<e>> \in Seq(S) /\ s \o <<e>> # <<>>
           /\ (s \o <<e>>)[Len(s \o <<e>>)] = e
<1> DEFINE t == <<e>>
<1>1. t \in Seq(S) /\ Len(t) = 1 /\ t[1] = e
  OBVIOUS
<1> HIDE DEF t
<1>2. /\ s \o t \in Seq(S) /\ Len(s \o t) = Len(s) + Len(t)
      /\ \A i \in 1..(Len(s) + Len(t)) :
            (s \o t)[i] = IF i <= Len(s) THEN s[i] ELSE t[i - Len(s)]
  BY <1>1, ConcatProperties
<1>3. Len(s) \in Nat
  OBVIOUS
<1>4. (s \o t)[Len(s) + 1] = t[1]
  BY <1>1, <1>2, <1>3
<1>5. s \o t # <<>>
  BY <1>1, <1>2, <1>3
<1> QED
  BY <1>1, <1>2, <1>4, <1>5 DEF t

-----------------------------------------------------------------------------
(* Recursive functions.                                                    *)

\* From every member of D one comes to B by prev, which has a lower rank, a
\* natural number.
Descends(D, B, rank, prev) ==
    /\ B \subseteq D
    /\ rank \in [D -> Nat]
    /\ prev \in [D \ B -> D]
    /\ \A x \in D \ B : rank[prev[x]] < rank[x]

\* What holds on B, and wherever it holds one step before, holds on D.
LEMMA DescendingInduction ==
    ASSUME NEW D, NEW B, NEW rank, NEW prev, Descends(D, B, rank, prev),
           NEW P, B \subseteq P, \A x \in D \ B : prev[x] \in P => x \in P
    PROVE  D \subseteq P
<1> DEFINE T == {rank[x] : x \in D \ P}
<1> SUFFICES ASSUME T # {} PROVE FALSE
  OBVIOUS
<1>1. PICK r \in T : \A s \in T : ~(s < r)
  <2>1. T \subseteq Nat
    BY DEF Descends
  <2> HIDE DEF T
  <2> QED
    BY <2>1, SmallestNat
<1>2. PICK x \in D \ P : rank[x] = r
  BY <1>1
<1>3. x \in D \ B
  BY <1>2
<1>4. prev[x] \in D \ P /\ rank[prev[x]] < r
  BY <1>2, <1>3 DEF Descends
<1> QED
  BY <1>1, <1>4

\* A function on D with given values on B, which gets the others from one step
\* before.
Recursion(D, V, B, rank, prev, base, step) ==
    /\ Descends(D, B, rank, prev)
    /\ base \in [B -> V]
    /\ step \in [D \ B -> [V -> V]]

\* There is such a function.
LEMMA RecursionExists ==
    ASSUME NEW D, NEW V, NEW B, NEW rank, NEW prev, NEW base, NEW step,
           Recursion(D, V, B, rank, prev, base, step)
    PROVE  \E f \in [D -> V] :
              \A x \in D : f[x] = IF x \in B THEN base[x] ELSE step[x][f[prev[x]]]
<1> DEFINE Below(m) == {x \in D : rank[x] < m}
           Part(f, m) ==
              /\ f \in [Below(m) -> V]
              /\ \A x \in Below(m) :
                    f[x] = IF x \in B THEN base[x] ELSE step[x][f[prev[x]]]
<1>1. /\ rank \in [D -> Nat]
      /\ \A x \in D \ B : prev[x] \in D /\ rank[prev[x]] < rank[x]
      /\ \A x \in B : base[x] \in V
      /\ \A x \in D \ B, v \in V : step[x][v] \in V
  BY DEF Recursion, Descends
<1>2. ASSUME NEW m \in Nat, NEW k \in Nat, NEW f, NEW g, Part(f, m), Part(g, k)
      PROVE  \A x \in Below(m) \cap Below(k) : f[x] = g[x]
  <2> DEFINE T == {rank[x] : x \in {y \in Below(m) \cap Below(k) : f[y] # g[y]}}
  <2> SUFFICES ASSUME T # {} PROVE FALSE
    OBVIOUS
  <2>1. PICK r \in T : \A s \in T : ~(s < r)
    <3>1. T \subseteq Nat
      BY <1>1
    <3> HIDE DEF T
    <3> QED
      BY <3>1, SmallestNat
  <2>2. PICK x \in Below(m) \cap Below(k) : rank[x] = r /\ f[x] # g[x]
    BY <2>1
  <2>3. x \notin B
    BY <1>2, <2>2
  <2>4. prev[x] \in D /\ rank[prev[x]] < r
    BY <1>1, <2>2, <2>3
  <2>5. prev[x] \in Below(m) \cap Below(k)
    BY <1>1, <2>2, <2>4
  <2>6. f[prev[x]] = g[prev[x]]
    BY <2>1, <2>4, <2>5
  <2> QED
    BY <1>2, <2>2, <2>3, <2>6
<1> HIDE DEF Part
<1>3. ASSUME NEW n \in Nat PROVE \E f : Part(f, n)
  <2> DEFINE T == {m \in Nat : \E f : Part(f, m)}
  <2>1. 0 \in T
    <3>1. Below(0) = {}
      BY <1>1
    <3>2. Part([x \in Below(0) |-> base[x]], 0)
      BY <3>1 DEF Part
    <3> QED
      BY <3>2
  <2>2. ASSUME NEW m \in 0..(n - 1), m \in T PROVE m + 1 \in T
    <3>1. PICK f : Part(f, m)
      BY <2>2
    <3> DEFINE g == [x \in Below(m + 1) |->
                       IF x \in B THEN base[x] ELSE step[x][f[prev[x]]]]
    <3>2. \A x \in Below(m + 1) \ B : prev[x] \in Below(m)
      BY <1>1
    <3>3. g \in [Below(m + 1) -> V]
      BY <1>1, <3>1, <3>2 DEF Part
    <3>4. \A x \in Below(m) : x \in Below(m + 1) /\ g[x] = f[x]
      BY <1>1, <3>1 DEF Part
    <3>5. ASSUME NEW x \in Below(m + 1)
          PROVE  g[x] = IF x \in B THEN base[x] ELSE step[x][g[prev[x]]]
      <4>1. g[x] = IF x \in B THEN base[x] ELSE step[x][f[prev[x]]]
        OBVIOUS
      <4>2. x \notin B => g[prev[x]] = f[prev[x]]
        BY <3>2, <3>4
      <4> HIDE DEF g
      <4> QED
        BY <4>1, <4>2
    <3>6. Part(g, m + 1)
      BY <3>3, <3>5 DEF Part
    <3> QED
      BY <3>6
  <2> HIDE DEF T
  <2>3. \A m \in 0..n : m \in T
    BY <2>1, <2>2, InductionUpTo
  <2>4. n \in T
    BY <2>3
  <2> QED
    BY <2>4 DEF T
<1> DEFINE p(x) == CHOOSE f : Part(f, rank[x] + 1)
           F == [x \in D |-> p(x)[x]]
<1>4. ASSUME NEW x \in D PROVE Part(p(x), rank[x] + 1) /\ x \in Below(rank[x] + 1)
  <2>1. rank[x] + 1 \in Nat
    BY <1>1
  <2>2. \E f : Part(f, rank[x] + 1)
    BY <1>3, <2>1
  <2>3. rank[x] < rank[x] + 1
    BY <1>1
  <2> QED
    BY <2>2, <2>3
<1> HIDE DEF p
<1>5. F \in [D -> V]
  BY <1>4 DEF Part
<1>6. ASSUME NEW x \in D
      PROVE  F[x] = IF x \in B THEN base[x] ELSE step[x][F[prev[x]]]
  <2>1. F[x] = IF x \in B THEN base[x] ELSE step[x][p(x)[prev[x]]]
    BY <1>4 DEF Part
  <2>2. ASSUME x \notin B PROVE p(x)[prev[x]] = F[prev[x]]
    <3>1. prev[x] \in D /\ rank[prev[x]] < rank[x]
      BY <1>1, <2>2
    <3>2. PICK m, k : m = rank[x] + 1 /\ k = rank[prev[x]] + 1
      OBVIOUS
    <3>3. m \in Nat /\ k \in Nat
      BY <1>1, <3>1, <3>2
    <3>4. Part(p(x), m) /\ Part(p(prev[x]), k)
      BY <1>4, <3>1, <3>2
    <3>5. rank[prev[x]] \in Nat /\ rank[x] \in Nat
      BY <1>1, <3>1
    <3>6. prev[x] \in Below(m) \cap Below(k)
      BY <3>1, <3>2, <3>5
    <3>7. p(x)[prev[x]] = p(prev[x])[prev[x]]
      BY <1>2, <3>3, <3>4, <3>6
    <3> QED
      BY <3>1, <3>7
  <2> HIDE DEF F
  <2> QED
    BY <2>1, <2>2
<1> HIDE DEF F
<1> QED
  BY <1>5, <1>6
=============================================================================
