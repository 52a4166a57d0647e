-------------------------------- MODULE Sums --------------------------------
(***************************************************************************)
(* Facts about the sum of a function over a finite set, SumFunctionOnSet   *)
(* of module Functions, for the components that add up amounts.  The sum   *)
(* is defined by recursion on the set; that the recursion has a solution,  *)
(* and one only, is proved by induction over the subsets.  The last facts  *)
(* are about finite sets in order.                                         *)
(***************************************************************************)
EXTENDS Functions, FiniteSetTheorems, TLAPS

-----------------------------------------------------------------------------
(* Induction over the subsets of a finite set.  What is shown of a set T   *)
(* is that it belongs to G, a set of subsets.                              *)

\* A subset has what all of its own proper subsets having it implies.
LEMMA SubsetInduction ==
  ASSUME NEW S, IsFiniteSet(S), NEW G,
         \A T \in SUBSET S : (\A U \in SUBSET T : U # T => U \in G) => T \in G
  PROVE  S \in G
<1> SUFFICES ASSUME S \notin G PROVE FALSE
  OBVIOUS
<1> DEFINE Bad == {T \in SUBSET S : T \notin G}
           R == StrictSubsetOrdering(S)
<1>1. IsWellFoundedOn(R, SUBSET S)
  <2>1. FiniteSubsetsOf(S) = SUBSET S
    BY FS_FiniteSubsetsOfFinite
  <2>2. IsWellFoundedOn(R, FiniteSubsetsOf(S))
    BY FS_StrictSubsetOrderingWellFounded
  <2> QED  BY <2>1, <2>2
<1>2. PICK T \in Bad : \A U \in Bad : <<U, T>> \notin R
  <2>1. Bad \subseteq SUBSET S /\ Bad # {}
    OBVIOUS
  <2> HIDE DEF Bad, R
  <2> QED  BY <1>1, <2>1, WFMin
<1>3. \A U \in SUBSET T : U # T => U \in G
  BY <1>2 DEF StrictSubsetOrdering
<1> QED  BY <1>2, <1>3

\* One element after the other.
LEMMA FiniteInduction ==
  ASSUME NEW S, IsFiniteSet(S), NEW G, {} \in G,
         \A T \in SUBSET S : \A x \in S \ T : T \in G => T \cup {x} \in G
  PROVE  S \in G
<1>1. ASSUME NEW T \in SUBSET S, \A U \in SUBSET T : U # T => U \in G
      PROVE  T \in G
  <2>1. CASE T = {}
    BY <2>1
  <2>2. CASE T # {}
    <3>1. PICK x \in T : TRUE
      BY <2>2
    <3>2. T \ {x} \in G /\ x \in S \ (T \ {x}) /\ T = (T \ {x}) \cup {x}
      BY <1>1, <3>1
    <3> QED  BY <3>2
  <2> QED  BY <2>1, <2>2
<1> QED  BY <1>1, SubsetInduction

-----------------------------------------------------------------------------
(* The recursion.                                                          *)

\* The element the fold takes out of s first.
Picked(s) == CHOOSE x \in s : TRUE

\* The equation of the recursion at s, for sums h of the smaller sets.
OneStep(f, h, s) == IF s = {} THEN 0 ELSE f[Picked(s)] + h[s \ {Picked(s)}]

\* The function the definition of the fold chooses.
Recursive(f, S) == CHOOSE h : h = [s \in SUBSET S |-> OneStep(f, h, s)]

\* The sum, with the definitions of the fold expanded.
LEMMA SumIs == \A f, S : SumFunctionOnSet(f, S) = Recursive(f, S)[S]
  BY DEF SumFunctionOnSet, FoldFunctionOnSet, MapThenFoldSet, Recursive, OneStep, Picked

\* The sum as a function of the subset it is taken over.
SumsOfSubsets(f, T) == [s \in SUBSET T |-> SumFunctionOnSet(f, s)]

\* h solves the equation on all subsets of T.
Solves(f, h, T) == h = [s \in SUBSET T |-> OneStep(f, h, s)]

\* The sum solves its equation, and nothing else does.
LEMMA OneSolution ==
  ASSUME NEW f, NEW S, IsFiniteSet(S)
  PROVE  /\ Solves(f, SumsOfSubsets(f, S), S)
         /\ \A h : Solves(f, h, S) => h = SumsOfSubsets(f, S)
<1> DEFINE G == {T \in SUBSET S : /\ Solves(f, SumsOfSubsets(f, T), T)
                                 /\ \A h : Solves(f, h, T) => h = SumsOfSubsets(f, T)}
           v(s) == SumFunctionOnSet(f, s)
<1>1. ASSUME NEW T \in SUBSET S, \A U \in SUBSET T : U # T => U \in G
      PROVE  T \in G
  <2> DEFINE h0 == [s \in SUBSET T |-> OneStep(f, SumsOfSubsets(f, T), s)]
  <2>0. \A s \in SUBSET T : s # {} => Picked(s) \in s
    BY DEF Picked
  <2>1. ASSUME NEW s \in SUBSET T, s # T
        PROVE  v(s) = OneStep(f, SumsOfSubsets(f, T), s)
    <3>1. Solves(f, SumsOfSubsets(f, s), s)
      BY <1>1, <2>1
    <3>2. SumsOfSubsets(f, s)[s] = OneStep(f, SumsOfSubsets(f, s), s)
      BY <3>1 DEF Solves
    <3>3. SumsOfSubsets(f, s)[s] = v(s)
      BY DEF SumsOfSubsets
    <3>4. CASE s = {}
      BY <3>2, <3>3, <3>4 DEF OneStep
    <3>5. CASE s # {}
      <4>1. s \ {Picked(s)} \in SUBSET s /\ s \ {Picked(s)} \in SUBSET T
        OBVIOUS
      <4> QED  BY <3>2, <3>3, <3>5, <4>1 DEF OneStep, SumsOfSubsets
    <3> QED  BY <3>4, <3>5
  <2>2. \A s \in SUBSET T : s # {} => s \ {Picked(s)} \in SUBSET T /\ s \ {Picked(s)} # T
    BY <2>0
  <2>3. Solves(f, h0, T)
    <3>1. \A s \in SUBSET T : OneStep(f, SumsOfSubsets(f, T), s) = OneStep(f, h0, s)
      <4> TAKE s \in SUBSET T
      <4>1. CASE s = {}
        BY <4>1 DEF OneStep
      <4>2. CASE s # {}
        <5> DEFINE r == s \ {Picked(s)}
        <5>1. r \in SUBSET T /\ r # T
          BY <2>2, <4>2
        <5>2. h0[r] = OneStep(f, SumsOfSubsets(f, T), r)
          BY <5>1
        <5>3. SumsOfSubsets(f, T)[r] = v(r)
          BY <5>1 DEF SumsOfSubsets
        <5>4. h0[r] = SumsOfSubsets(f, T)[r]
          BY <2>1, <5>1, <5>2, <5>3
        <5> QED  BY <4>2, <5>4 DEF OneStep
      <4> QED  BY <4>1, <4>2
    <3> QED  BY <3>1 DEF Solves
  <2>4. ASSUME NEW h, Solves(f, h, T)
        PROVE  /\ \A s \in SUBSET T : s # T => h[s] = v(s)
               /\ h = h0
    <3>1. ASSUME NEW s \in SUBSET T, s # T
          PROVE  h[s] = v(s)
      <4> DEFINE g == [u \in SUBSET s |-> h[u]]
      <4>1. \A u \in SUBSET s : h[u] = OneStep(f, h, u) /\ OneStep(f, h, u) = OneStep(f, g, u)
        BY <2>4 DEF Solves, OneStep
      <4>2. Solves(f, g, s)
        BY <4>1 DEF Solves
      <4>3. g = SumsOfSubsets(f, s)
        BY <1>1, <3>1, <4>2
      <4> QED  BY <4>3 DEF SumsOfSubsets
    <3>2. \A s \in SUBSET T : OneStep(f, h, s) = OneStep(f, SumsOfSubsets(f, T), s)
      BY <2>2, <3>1 DEF OneStep, SumsOfSubsets
    <3> QED  BY <2>4, <3>1, <3>2 DEF Solves
  <2>5. Recursive(f, T) = h0
    <3>1. Solves(f, Recursive(f, T), T)
      BY <2>3 DEF Recursive, Solves
    <3> QED  BY <2>4, <3>1
  <2>6. v(T) = OneStep(f, SumsOfSubsets(f, T), T)
    BY <2>5, SumIs
  <2>7. h0 = SumsOfSubsets(f, T)
    BY <2>1, <2>6 DEF SumsOfSubsets
  <2> QED  BY <2>3, <2>4, <2>7
<1> HIDE DEF G
<1>2. S \in G
  BY <1>1, SubsetInduction
<1> QED  BY <1>2 DEF G

-----------------------------------------------------------------------------
(* What the users of a sum need.                                           *)

\* Nothing adds up to zero.
LEMMA SumEmpty == \A f : SumFunctionOnSet(f, {}) = 0
<1> TAKE f
<1>1. Solves(f, SumsOfSubsets(f, {}), {})
  BY OneSolution, FS_EmptySet
<1>2. SumsOfSubsets(f, {})[{}] = 0
  BY <1>1 DEF Solves, OneStep
<1> QED  BY <1>2 DEF SumsOfSubsets

\* Some element can be taken out.
LEMMA SumUnfold ==
  ASSUME NEW f, NEW S, IsFiniteSet(S), S # {}
  PROVE  \E x \in S : SumFunctionOnSet(f, S) = f[x] + SumFunctionOnSet(f, S \ {x})
<1>1. Solves(f, SumsOfSubsets(f, S), S)
  BY OneSolution
<1>2. SumsOfSubsets(f, S)[S] = f[Picked(S)] + SumsOfSubsets(f, S)[S \ {Picked(S)}]
  BY <1>1 DEF Solves, OneStep
<1>3. Picked(S) \in S
  BY DEF Picked
<1>4. SumsOfSubsets(f, S)[S] = SumFunctionOnSet(f, S)
      /\ SumsOfSubsets(f, S)[S \ {Picked(S)}] = SumFunctionOnSet(f, S \ {Picked(S)})
  BY DEF SumsOfSubsets
<1> QED  BY <1>2, <1>3, <1>4

\* A sum of integers is one.
LEMMA SumInt ==
  ASSUME NEW f, NEW S, IsFiniteSet(S), \A x \in S : f[x] \in Int
  PROVE  SumFunctionOnSet(f, S) \in Int
<1> DEFINE G == {T \in SUBSET S : SumFunctionOnSet(f, T) \in Int}
<1>1. ASSUME NEW T \in SUBSET S, \A U \in SUBSET T : U # T => U \in G
      PROVE  T \in G
  <2>1. CASE T = {}
    BY <2>1, SumEmpty
  <2>2. CASE T # {}
    <3>1. PICK x \in T : SumFunctionOnSet(f, T) = f[x] + SumFunctionOnSet(f, T \ {x})
      BY <2>2, SumUnfold, FS_Subset
    <3>2. SumFunctionOnSet(f, T \ {x}) \in Int
      BY <1>1
    <3> QED  BY <3>1, <3>2
  <2> QED  BY <2>1, <2>2
<1> HIDE DEF G
<1>2. S \in G
  BY <1>1, SubsetInduction
<1> QED  BY <1>2 DEF G

\* Any element can be taken out.
LEMMA SumRemove ==
  ASSUME NEW f, NEW S, IsFiniteSet(S), \A x \in S : f[x] \in Int, NEW x \in S
  PROVE  SumFunctionOnSet(f, S) = f[x] + SumFunctionOnSet(f, S \ {x})
<1> DEFINE v(T) == SumFunctionOnSet(f, T)
           G == {T \in SUBSET S : \A y \in T : v(T) = f[y] + v(T \ {y})}
<1>0. \A T \in SUBSET S : v(T) \in Int /\ IsFiniteSet(T)
  BY SumInt, FS_Subset
<1>1. ASSUME NEW T \in SUBSET S, \A U \in SUBSET T : U # T => U \in G
      PROVE  T \in G
  <2> SUFFICES ASSUME NEW y \in T
               PROVE  v(T) = f[y] + v(T \ {y})
    OBVIOUS
  <2>1. PICK p \in T : v(T) = f[p] + v(T \ {p})
    BY <1>0, SumUnfold
  <2>2. CASE y # p
    <3>1. v(T \ {p}) = f[y] + v((T \ {p}) \ {y})
      BY <1>1, <2>2
    <3>2. v(T \ {y}) = f[p] + v((T \ {y}) \ {p})
      BY <1>1, <2>2
    <3>3. v((T \ {p}) \ {y}) = v((T \ {y}) \ {p})
      <4>1. (T \ {p}) \ {y} = (T \ {y}) \ {p}
        OBVIOUS
      <4> QED  BY <4>1
    <3>4. f[p] \in Int /\ f[y] \in Int /\ v((T \ {p}) \ {y}) \in Int
      BY <1>0
    <3> HIDE DEF v
    <3> QED  BY <2>1, <3>1, <3>2, <3>3, <3>4
  <2>3. CASE y = p
    <3> HIDE DEF v
    <3> QED  BY <2>1, <2>3
  <2> QED  BY <2>2, <2>3
<1> HIDE DEF G
<1>2. S \in G
  BY <1>1, SubsetInduction
<1> QED  BY <1>2 DEF G

\* An element more.
LEMMA SumAdd ==
  ASSUME NEW f, NEW S, IsFiniteSet(S), NEW x, x \notin S, \A y \in S \cup {x} : f[y] \in Int
  PROVE  SumFunctionOnSet(f, S \cup {x}) = f[x] + SumFunctionOnSet(f, S)
<1>1. (S \cup {x}) \ {x} = S /\ IsFiniteSet(S \cup {x})
  BY FS_AddElement
<1>2. SumFunctionOnSet(f, S \cup {x}) = f[x] + SumFunctionOnSet(f, (S \cup {x}) \ {x})
  BY <1>1, SumRemove
<1> QED  BY <1>1, <1>2

\* The sum over two sets without a common element.
LEMMA SumDisjoint ==
  ASSUME NEW f, NEW S, IsFiniteSet(S), NEW T, IsFiniteSet(T), S \cap T = {},
         \A x \in S \cup T : f[x] \in Int
  PROVE  SumFunctionOnSet(f, S \cup T) = SumFunctionOnSet(f, S) + SumFunctionOnSet(f, T)
<1> DEFINE v(U) == SumFunctionOnSet(f, U)
           G == {U \in SUBSET T : v(S \cup U) = v(S) + v(U)}
<1>1. {} \in G
  BY SumEmpty, SumInt
<1>2. ASSUME NEW U \in SUBSET T, NEW x \in T \ U, U \in G
      PROVE  U \cup {x} \in G
  <2>1. IsFiniteSet(U) /\ IsFiniteSet(S \cup U) /\ x \notin S \cup U
    BY FS_Subset, FS_Union
  <2>2. v(U \cup {x}) = f[x] + v(U)
    BY <2>1, SumAdd
  <2>3. v((S \cup U) \cup {x}) = f[x] + v(S \cup U)
    BY <2>1, SumAdd
  <2>4. v(S) \in Int /\ v(U) \in Int /\ f[x] \in Int
    BY <2>1, SumInt
  <2>5. S \cup (U \cup {x}) = (S \cup U) \cup {x}
    OBVIOUS
  <2>6. v(S \cup U) = v(S) + v(U)
    BY <1>2
  <2>7. v(S \cup (U \cup {x})) = v(S) + v(U \cup {x})
    <3>1. v(S \cup (U \cup {x})) = v((S \cup U) \cup {x})
      BY <2>5
    <3> HIDE DEF v
    <3> QED  BY <2>2, <2>3, <2>4, <2>6, <3>1
  <2> QED  BY <2>7
<1> HIDE DEF G
<1>3. T \in G
  BY <1>1, <1>2, FiniteInduction
<1> QED  BY <1>3 DEF G

\* The sum depends on the function's values on the set only.
LEMMA SumEqual ==
  ASSUME NEW f, NEW g, NEW S, IsFiniteSet(S), \A x \in S : f[x] = g[x]
  PROVE  SumFunctionOnSet(f, S) = SumFunctionOnSet(g, S)
<1> DEFINE h == SumsOfSubsets(f, S)
<1>1. \A s \in SUBSET S : OneStep(f, h, s) = OneStep(g, h, s)
  BY DEF OneStep, Picked
<1>2. Solves(f, h, S)
  BY OneSolution
<1>3. Solves(g, h, S)
  <2> HIDE DEF h
  <2> QED  BY <1>1, <1>2 DEF Solves
<1>4. h = SumsOfSubsets(g, S)
  <2> HIDE DEF h
  <2> QED  BY <1>3, OneSolution
<1> QED  BY <1>4 DEF SumsOfSubsets

\* Sums compare as their terms do.
LEMMA SumMonotonic ==
  ASSUME NEW f, NEW g, NEW S, IsFiniteSet(S),
         \A x \in S : f[x] \in Int /\ g[x] \in Int /\ f[x] <= g[x]
  PROVE  SumFunctionOnSet(f, S) <= SumFunctionOnSet(g, S)
<1> DEFINE v(T) == SumFunctionOnSet(f, T)
           w(T) == SumFunctionOnSet(g, T)
           G == {T \in SUBSET S : v(T) <= w(T)}
<1>1. {} \in G
  BY SumEmpty
<1>2. ASSUME NEW T \in SUBSET S, NEW x \in S \ T, T \in G
      PROVE  T \cup {x} \in G
  <2>1. IsFiniteSet(T)
    BY FS_Subset
  <2>2. v(T \cup {x}) = f[x] + v(T) /\ w(T \cup {x}) = g[x] + w(T)
    BY <2>1, SumAdd
  <2>3. v(T) \in Int /\ w(T) \in Int /\ f[x] \in Int /\ g[x] \in Int /\ f[x] <= g[x]
    BY <2>1, SumInt
  <2>4. v(T) <= w(T)
    BY <1>2
  <2>5. v(T \cup {x}) <= w(T \cup {x})
    <3> HIDE DEF v, w
    <3> QED  BY <2>2, <2>3, <2>4
  <2> QED  BY <2>5
<1> HIDE DEF G
<1>3. S \in G
  BY <1>1, <1>2, FiniteInduction
<1> QED  BY <1>3 DEF G

\* The sum of the sums of two functions is that of the function of the sums.
LEMMA SumPlus ==
  ASSUME NEW f, NEW g, NEW h, NEW S, IsFiniteSet(S),
         \A x \in S : f[x] \in Int /\ g[x] \in Int /\ h[x] = f[x] + g[x]
  PROVE  SumFunctionOnSet(h, S) = SumFunctionOnSet(f, S) + SumFunctionOnSet(g, S)
<1> DEFINE v(T) == SumFunctionOnSet(f, T)
           w(T) == SumFunctionOnSet(g, T)
           u(T) == SumFunctionOnSet(h, T)
           G == {T \in SUBSET S : u(T) = v(T) + w(T)}
<1>1. {} \in G
  BY SumEmpty
<1>2. ASSUME NEW T \in SUBSET S, NEW x \in S \ T, T \in G
      PROVE  T \cup {x} \in G
  <2>1. IsFiniteSet(T)
    BY FS_Subset
  <2>2. /\ v(T \cup {x}) = f[x] + v(T) /\ w(T \cup {x}) = g[x] + w(T)
        /\ u(T \cup {x}) = h[x] + u(T)
    BY <2>1, SumAdd
  <2>3. v(T) \in Int /\ w(T) \in Int /\ f[x] \in Int /\ g[x] \in Int /\ h[x] = f[x] + g[x]
    BY <2>1, SumInt
  <2>4. u(T) = v(T) + w(T)
    BY <1>2
  <2>5. u(T \cup {x}) = v(T \cup {x}) + w(T \cup {x})
    <3> HIDE DEF u, v, w
    <3> QED  BY <2>2, <2>3, <2>4
  <2> QED  BY <2>5
<1> HIDE DEF G
<1>3. S \in G
  BY <1>1, <1>2, FiniteInduction
<1> QED  BY <1>3 DEF G

\* S falls into disjoint parts, one for each element of I, over which f sums to total.
Parts(f, S, I, part, total) ==
  /\ IsFiniteSet(I)
  /\ \A x : x \in S <=> \E i \in I : x \in part[i]
  /\ \A i, j \in I : i # j => part[i] \cap part[j] = {}
  /\ \A i \in I : IsFiniteSet(part[i]) /\ total[i] = SumFunctionOnSet(f, part[i])
  /\ \A x \in S : f[x] \in Int

\* The sum over a set is the sum of those over its parts.
LEMMA SumOfParts ==
  ASSUME NEW f, NEW S, NEW I, NEW part, NEW total, Parts(f, S, I, part, total)
  PROVE  IsFiniteSet(S) /\ SumFunctionOnSet(f, S) = SumFunctionOnSet(total, I)
<1> USE DEF Parts
<1> DEFINE U(J) == UNION {part[i] : i \in J}
           v(T) == SumFunctionOnSet(f, T)
           w(J) == SumFunctionOnSet(total, J)
           G == {J \in SUBSET I : IsFiniteSet(U(J)) /\ v(U(J)) = w(J)}
<1>1. {} \in G
  <2>1. U({}) = {}
    OBVIOUS
  <2> QED  BY <2>1, SumEmpty, FS_EmptySet
<1>2. ASSUME NEW J \in SUBSET I, NEW i \in I \ J, J \in G
      PROVE  J \cup {i} \in G
  <2>1. IsFiniteSet(J) /\ IsFiniteSet(U(J)) /\ IsFiniteSet(part[i]) /\ v(U(J)) = w(J)
    BY <1>2, FS_Subset
  <2>2. U(J \cup {i}) = U(J) \cup part[i]
    OBVIOUS
  <2>3. U(J) \cap part[i] = {}
    OBVIOUS
  <2>4. \A x \in U(J) \cup part[i] : f[x] \in Int
    OBVIOUS
  <2>5. IsFiniteSet(U(J) \cup part[i])
    BY <2>1, FS_Union
  <2>6. v(U(J) \cup part[i]) = v(U(J)) + v(part[i])
    <3> HIDE DEF U
    <3> QED  BY <2>1, <2>3, <2>4, SumDisjoint
  <2>7. \A j \in I : total[j] \in Int
    <3>1. \A j \in I : \A x \in part[j] : f[x] \in Int
      OBVIOUS
    <3> QED  BY <3>1, SumInt
  <2>8. w(J \cup {i}) = total[i] + w(J) /\ w(J) \in Int
    BY <2>1, <2>7, SumAdd, SumInt
  <2>9. v(U(J \cup {i})) = w(J \cup {i})
    <3>1. total[i] = v(part[i]) /\ total[i] \in Int /\ v(U(J \cup {i})) = v(U(J) \cup part[i])
      BY <2>2, <2>7
    <3> HIDE DEF U, v, w
    <3> QED  BY <2>1, <2>6, <2>8, <3>1
  <2> QED  BY <2>2, <2>5, <2>9
<1> HIDE DEF G
<1>3. I \in G
  BY <1>1, <1>2, FiniteInduction
<1>4. U(I) = S
  OBVIOUS
<1> QED  BY <1>3, <1>4 DEF G

\* Terms that are renamed one by one.
LEMMA SumRenamed ==
  ASSUME NEW f, NEW g, NEW p, NEW S, IsFiniteSet(S),
         \A x, y \in S : p[x] = p[y] => x = y,
         \A x \in S : f[x] \in Int /\ g[p[x]] = f[x]
  PROVE  /\ IsFiniteSet({p[x] : x \in S})
         /\ SumFunctionOnSet(g, {p[x] : x \in S}) = SumFunctionOnSet(f, S)
<1> DEFINE U(J) == {p[x] : x \in J}
           v(T) == SumFunctionOnSet(g, T)
           w(J) == SumFunctionOnSet(f, J)
           G == {J \in SUBSET S : IsFiniteSet(U(J)) /\ v(U(J)) = w(J)}
<1>1. {} \in G
  <2>1. U({}) = {}
    OBVIOUS
  <2> QED  BY <2>1, SumEmpty, FS_EmptySet
<1>2. ASSUME NEW J \in SUBSET S, NEW x \in S \ J, J \in G
      PROVE  J \cup {x} \in G
  <2>1. IsFiniteSet(J) /\ IsFiniteSet(U(J)) /\ v(U(J)) = w(J)
    BY <1>2, FS_Subset
  <2>2. U(J \cup {x}) = U(J) \cup {p[x]}
    OBVIOUS
  <2>3. p[x] \notin U(J)
    OBVIOUS
  <2>4. \A y \in U(J) \cup {p[x]} : g[y] \in Int
    OBVIOUS
  <2>5. IsFiniteSet(U(J) \cup {p[x]}) /\ v(U(J) \cup {p[x]}) = g[p[x]] + v(U(J))
    <3> HIDE DEF U
    <3> QED  BY <2>1, <2>3, <2>4, SumAdd, FS_AddElement
  <2>6. w(J \cup {x}) = f[x] + w(J)
    BY <2>1, SumAdd
  <2>7. v(U(J \cup {x})) = w(J \cup {x})
    <3>1. g[p[x]] = f[x] /\ v(U(J \cup {x})) = v(U(J) \cup {p[x]})
      BY <2>2
    <3> HIDE DEF U, v, w
    <3> QED  BY <2>1, <2>5, <2>6, <3>1
  <2> QED  BY <2>2, <2>5, <2>7
<1> HIDE DEF G
<1>3. S \in G
  BY <1>1, <1>2, FiniteInduction
<1> QED  BY <1>3 DEF G

\* Zeros add up to zero.
LEMMA SumZero ==
  ASSUME NEW f, NEW S, IsFiniteSet(S), \A x \in S : f[x] = 0
  PROVE  SumFunctionOnSet(f, S) = 0
<1> DEFINE G == {T \in SUBSET S : SumFunctionOnSet(f, T) = 0}
<1>1. {} \in G
  BY SumEmpty
<1>2. ASSUME NEW T \in SUBSET S, NEW x \in S \ T, T \in G
      PROVE  T \cup {x} \in G
  BY <1>2, SumAdd, FS_Subset
<1> HIDE DEF G
<1>3. S \in G
  BY <1>1, <1>2, FiniteInduction
<1> QED  BY <1>3 DEF G

\* Terms that are all k times as large.
LEMMA SumScaled ==
  ASSUME NEW f, NEW g, NEW k \in Int, NEW S, IsFiniteSet(S),
         \A x \in S : g[x] \in Int /\ f[x] = k * g[x]
  PROVE  SumFunctionOnSet(f, S) = k * SumFunctionOnSet(g, S)
<1> DEFINE v(T) == SumFunctionOnSet(f, T)
           w(T) == SumFunctionOnSet(g, T)
           G == {T \in SUBSET S : v(T) = k * w(T)}
<1>1. {} \in G
  BY SumEmpty
<1>2. ASSUME NEW T \in SUBSET S, NEW x \in S \ T, T \in G
      PROVE  T \cup {x} \in G
  <2>1. IsFiniteSet(T)
    BY FS_Subset
  <2>2. \A y \in S : k * g[y] \in Int
    OBVIOUS
  <2>3. v(T \cup {x}) = f[x] + v(T) /\ w(T \cup {x}) = g[x] + w(T) /\ w(T) \in Int
    BY <2>1, <2>2, SumAdd, SumInt
  <2>4. f[x] = k * g[x] /\ v(T) = k * w(T) /\ g[x] \in Int
    BY <1>2
  <2> HIDE DEF v, w
  <2>5. k * g[x] + k * w(T) = k * (g[x] + w(T))
    BY <2>3, <2>4
  <2> QED  BY <2>3, <2>4, <2>5
<1> HIDE DEF G
<1>3. S \in G
  BY <1>1, <1>2, FiniteInduction
<1> QED  BY <1>3 DEF G

\* Counting is adding up ones.
LEMMA SumOfOnes ==
  ASSUME NEW f, NEW S, IsFiniteSet(S), \A x \in S : f[x] = 1
  PROVE  SumFunctionOnSet(f, S) = Cardinality(S)
<1> DEFINE G == {T \in SUBSET S : SumFunctionOnSet(f, T) = Cardinality(T)}
<1>1. {} \in G
  BY SumEmpty, FS_EmptySet
<1>2. ASSUME NEW T \in SUBSET S, NEW x \in S \ T, T \in G
      PROVE  T \cup {x} \in G
  <2>1. IsFiniteSet(T)
    BY FS_Subset
  <2>2. SumFunctionOnSet(f, T \cup {x}) = f[x] + SumFunctionOnSet(f, T)
    BY <2>1, SumAdd
  <2>3. Cardinality(T \cup {x}) = Cardinality(T) + 1 /\ Cardinality(T) \in Nat
    BY <2>1, FS_AddElement, FS_CardinalityType
  <2> QED  BY <1>2, <2>2, <2>3
<1> HIDE DEF G
<1>3. S \in G
  BY <1>1, <1>2, FiniteInduction
<1> QED  BY <1>3 DEF G

-----------------------------------------------------------------------------
(* Tables.                                                                 *)

\* F has a row for each element of A and G a column for each of B, with the same
\* entries; row and col are their sums.
Table(F, G, A, B, row, col) ==
  /\ IsFiniteSet(A) /\ IsFiniteSet(B)
  /\ \A a \in A, b \in B : F[a][b] \in Int /\ G[b][a] = F[a][b]
  /\ \A a \in A : row[a] = SumFunctionOnSet(F[a], B)
  /\ \A b \in B : col[b] = SumFunctionOnSet(G[b], A)

\* The rows add up to what the columns add up to.
LEMMA SumOfTable ==
  ASSUME NEW F, NEW G, NEW A, NEW B, NEW row, NEW col, Table(F, G, A, B, row, col)
  PROVE  SumFunctionOnSet(row, A) = SumFunctionOnSet(col, B)
<1> USE DEF Table
<1> DEFINE cols(C) == [b \in B |-> SumFunctionOnSet(G[b], C)]
           v(C) == SumFunctionOnSet(row, C)
           w(C) == SumFunctionOnSet(cols(C), B)
           K == {C \in SUBSET A : v(C) = w(C)}
<1>1. {} \in K
  <2>1. \A b \in B : cols({})[b] = 0
    BY SumEmpty
  <2>2. w({}) = 0
    <3> HIDE DEF cols
    <3> QED  BY <2>1, SumZero
  <2> QED  BY <2>2, SumEmpty
<1>2. ASSUME NEW C \in SUBSET A, NEW x \in A \ C, C \in K
      PROVE  C \cup {x} \in K
  <2>1. IsFiniteSet(C)
    BY FS_Subset
  <2>2. \A a \in A : row[a] \in Int
    <3> TAKE a \in A
    <3>1. \A b \in B : F[a][b] \in Int
      OBVIOUS
    <3> QED  BY <3>1, SumInt
  <2>3. v(C \cup {x}) = row[x] + v(C)
    <3>1. \A a \in C \cup {x} : row[a] \in Int
      BY <2>2
    <3> QED  BY <2>1, <3>1, SumAdd
  <2>4. ASSUME NEW b \in B
        PROVE  /\ cols(C \cup {x})[b] = F[x][b] + cols(C)[b]
               /\ F[x][b] \in Int /\ cols(C)[b] \in Int
    <3>1. /\ \A a \in C \cup {x} : G[b][a] \in Int
          /\ G[b][x] = F[x][b] /\ F[x][b] \in Int
      OBVIOUS
    <3>2. SumFunctionOnSet(G[b], C \cup {x}) = G[b][x] + SumFunctionOnSet(G[b], C)
      BY <2>1, <3>1, SumAdd
    <3>3. SumFunctionOnSet(G[b], C) \in Int
      BY <2>1, <3>1, SumInt
    <3> QED  BY <3>1, <3>2, <3>3
  <2>5. w(C \cup {x}) = SumFunctionOnSet(F[x], B) + w(C)
    <3>1. IsFiniteSet(B)
      OBVIOUS
    <3>2. \A b \in B : /\ F[x][b] \in Int /\ cols(C)[b] \in Int
                      /\ cols(C \cup {x})[b] = F[x][b] + cols(C)[b]
      BY <2>4
    <3> HIDE DEF cols, Table
    <3>3. PICK f, g, h : f = F[x] /\ g = cols(C) /\ h = cols(C \cup {x})
      OBVIOUS
    <3>4. SumFunctionOnSet(h, B) = SumFunctionOnSet(f, B) + SumFunctionOnSet(g, B)
      <4>1. \A b \in B : f[b] \in Int /\ g[b] \in Int /\ h[b] = f[b] + g[b]
        BY <3>2, <3>3
      <4> QED  BY <3>1, <4>1, SumPlus
    <3> QED  BY <3>3, <3>4
  <2>6. row[x] = SumFunctionOnSet(F[x], B) /\ v(C) = w(C)
    BY <1>2
  <2>7. v(C \cup {x}) = w(C \cup {x})
    <3> HIDE DEF v, w
    <3> QED  BY <2>3, <2>5, <2>6
  <2> QED  BY <1>2, <2>7
<1>3. A \in K
  <2> HIDE DEF K
  <2> QED  BY <1>1, <1>2, FiniteInduction
<1>4. \A b \in B : cols(A)[b] = col[b]
  OBVIOUS
<1>5. w(A) = SumFunctionOnSet(col, B)
  <2> HIDE DEF cols
  <2> QED  BY <1>4, SumEqual
<1> QED  BY <1>3, <1>5
-----------------------------------------------------------------------------
(* Images and orders.                                                      *)

\* The values of a function on a finite set are finitely many.
LEMMA FiniteImage ==
  ASSUME NEW S, IsFiniteSet(S), NEW f
  PROVE  IsFiniteSet({f[x] : x \in S})
<1> DEFINE T == {f[x] : x \in S}
           g == [x \in S |-> f[x]]
<1>1. g \in Surjection(S, T)
  BY DEF Surjection
<1> HIDE DEF T, g
<1>2. IsFiniteSet(T)
  BY <1>1, FS_Surjection
<1> QED
  BY <1>2 DEF T

\* R orders the elements of S strictly, and any two of them.
Orders(R, S) ==
  /\ \A x \in S : <<x, x>> \notin R
  /\ \A x, y, z \in S : <<x, y>> \in R /\ <<y, z>> \in R => <<x, z>> \in R
  /\ \A x, y \in S : x = y \/ <<x, y>> \in R \/ <<y, x>> \in R

\* f has the elements of S in the order R.
Enumerates(f, S, R) ==
  /\ f \in Bijection(1..Cardinality(S), S)
  /\ \A m, n \in 1..Cardinality(S) : m < n => <<f[m], f[n]>> \in R

\* A finite set can be put in order: each element has the place after those before it.
LEMMA ArrangementExists ==
  ASSUME NEW S, IsFiniteSet(S), NEW R, Orders(R, S)
  PROVE  \E f : Enumerates(f, S, R)
<1> DEFINE N == Cardinality(S)
           below(x) == {y \in S : <<y, x>> \in R}
           place == [x \in S |-> Cardinality(below(x)) + 1]
           f == [n \in 1..N |-> CHOOSE x \in S : place[x] = n]
<1>1. N \in Nat /\ IsFiniteSet(1..N) /\ Cardinality(1..N) = N
  <2>1. N \in Nat
    BY FS_CardinalityType
  <2>2. IsFiniteSet(1..N) /\ Cardinality(1..N) = IF 1 > N THEN 0 ELSE N - 1 + 1
    BY <2>1, FS_Interval
  <2> QED  BY <2>1, <2>2
<1>2. \A x \in S : IsFiniteSet(below(x)) /\ Cardinality(below(x)) \in Nat
  <2> TAKE x \in S
  <2>1. below(x) \in SUBSET S
    OBVIOUS
  <2> HIDE DEF below
  <2> QED  BY <2>1, FS_Subset, FS_CardinalityType
<1>3. ASSUME NEW x \in S PROVE place[x] \in 1..N
  <2>1. below(x) \in SUBSET (S \ {x})
    BY DEF Orders
  <2>2. IsFiniteSet(S \ {x}) /\ Cardinality(S \ {x}) = N - 1
    BY FS_RemoveElement
  <2>3. Cardinality(below(x)) <= N - 1
    <3> HIDE DEF below, N
    <3> QED  BY <2>1, <2>2, FS_Subset
  <2>4. Cardinality(below(x)) \in Nat
    BY <1>2
  <2> HIDE DEF below, N
  <2> QED  BY <1>1, <2>3, <2>4
<1>4. ASSUME NEW x \in S, NEW y \in S, <<x, y>> \in R PROVE place[x] < place[y]
  <2>1. below(x) \cup {x} \in SUBSET below(y) /\ x \notin below(x)
    BY <1>4 DEF Orders
  <2>2. Cardinality(below(x) \cup {x}) = Cardinality(below(x)) + 1
    <3> HIDE DEF below
    <3> QED  BY <1>2, <2>1, FS_AddElement
  <2>3. Cardinality(below(x) \cup {x}) <= Cardinality(below(y))
    <3> HIDE DEF below
    <3> QED  BY <1>2, <2>1, FS_Subset
  <2>4. Cardinality(below(x)) \in Nat /\ Cardinality(below(y)) \in Nat
    BY <1>2
  <2> HIDE DEF below
  <2> QED  BY <2>2, <2>3, <2>4
<1>5. place \in [S -> 1..N]
  <2> HIDE DEF N
  <2> QED  BY <1>3
<1> HIDE DEF place
<1>6. \A x, y \in S : place[x] = place[y] => x = y
  <2> HIDE DEF N
  <2> TAKE x, y \in S
  <2>1. <<x, y>> \in R => place[x] < place[y]
    BY <1>4
  <2>2. <<y, x>> \in R => place[y] < place[x]
    BY <1>4
  <2>3. place[x] \in Int /\ place[y] \in Int
    BY <1>1, <1>3
  <2> QED  BY <2>1, <2>2, <2>3 DEF Orders
<1>7. place \in Injection(S, 1..N)
  BY <1>5, <1>6 DEF Injection, IsInjective
<1>8. place \in Surjection(S, 1..N)
  <2> HIDE DEF N
  <2>1. Cardinality(S) = Cardinality(1..N)
    BY <1>1 DEF N
  <2> QED  BY <1>1, <1>7, <2>1, FS_Injection
<1>9. \A n \in 1..N : f[n] \in S /\ place[f[n]] = n
  <2> TAKE n \in 1..N
  <2>1. \E x \in S : place[x] = n
    BY <1>8 DEF Surjection
  <2> QED  BY <2>1
<1>10. \A x \in S : f[place[x]] = x
  BY <1>3, <1>6, <1>9
<1> HIDE DEF N
<1>11. f \in [1..N -> S] /\ \A m, n \in 1..N : f[m] = f[n] => m = n
  <2>1. \A n \in 1..N : f[n] \in S
    BY <1>9
  <2>2. f \in [1..N -> S]
    BY <2>1
  <2> HIDE DEF f
  <2> QED  BY <1>9, <2>2
<1> HIDE DEF f
<1>12. f \in Bijection(1..N, S)
  BY <1>3, <1>10, <1>11 DEF Bijection, Injection, Surjection, IsInjective
<1>13. ASSUME NEW m \in 1..N, NEW n \in 1..N, m < n PROVE <<f[m], f[n]>> \in R
  <2>1. f[m] \in S /\ f[n] \in S /\ place[f[m]] = m /\ place[f[n]] = n
    BY <1>9
  <2>2. f[m] # f[n]
    BY <1>1, <1>13, <2>1
  <2>3. <<f[n], f[m]>> \notin R
    BY <1>1, <1>4, <1>13, <2>1
  <2> QED  BY <2>1, <2>2, <2>3 DEF Orders
<1> QED
  BY <1>12, <1>13 DEF Enumerates, N
=============================================================================
