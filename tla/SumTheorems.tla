----------------------------- MODULE SumTheorems -----------------------------
(***************************************************************************)
(* Induction over finite sets and natural numbers, and what                *)
(* SumFunctionOnSet (Functions.tla) adds up to, for every function to the  *)
(* integers and every finite set.                                          *)
(*                                                                         *)
(* A property is a set here, the set of the things that have it: a theorem *)
(* whose parameter is an operator could not be instantiated by the provers *)
(* and one whose parameter is a set can.                                   *)
(***************************************************************************)
EXTENDS Integers, FiniteSetsExt, FiniteSetTheorems, TLAPS

-----------------------------------------------------------------------------
(* Induction *)

\* Every subset of a finite set is good when a set all of whose strict subsets
\* are good is good.
LEMMA StrictSubsetInduction ==
  ASSUME NEW S, IsFiniteSet(S), NEW Good,
         \A T \in SUBSET S :
            (\A U \in SUBSET T : U # T => U \in Good) => T \in Good
  PROVE  SUBSET S \subseteq Good
  <1> DEFINE R   == StrictSubsetOrdering(S)
             Bad == {T \in SUBSET S : T \notin Good}
  <1>1. IsWellFoundedOn(R, FiniteSubsetsOf(S))
    BY FS_StrictSubsetOrderingWellFounded
  <1>2. IsWellFoundedOn(R, SUBSET S)
    BY <1>1, FS_FiniteSubsetsOfFinite
  <1>3. Bad \subseteq SUBSET S
    OBVIOUS
  <1>4. SUFFICES ASSUME Bad # {} PROVE FALSE
    OBVIOUS
  <1> HIDE DEF R, Bad
  <1>5. PICK T \in Bad : \A U \in Bad : ~(<<U, T>> \in R)
    BY <1>2, <1>3, <1>4, WFMin
  <1>6. T \in SUBSET S /\ T \notin Good
    BY <1>5 DEF Bad
  <1>7. ASSUME NEW U \in SUBSET T, U # T PROVE U \in Good
    <2>1. U \in SUBSET S /\ <<U, T>> \in R
      BY <1>6, <1>7 DEF R, StrictSubsetOrdering
    <2> QED BY <2>1, <1>5 DEF Bad
  <1> QED BY <1>6, <1>7

\* Induction over the natural numbers.
LEMMA NatSetInduction ==
  ASSUME NEW Good, 0 \in Good, \A n \in Nat : n \in Good => n + 1 \in Good
  PROVE  Nat \subseteq Good
  <1> DEFINE R   == OpToRel(<, Nat)
             Bad == {n \in Nat : n \notin Good}
  <1>1. IsWellFoundedOn(R, Nat)
    BY NatLessThanWellFounded
  <1>2. Bad \subseteq Nat
    OBVIOUS
  <1>3. SUFFICES ASSUME Bad # {} PROVE FALSE
    OBVIOUS
  <1>4. \A i, j \in Nat : i < j => <<i, j>> \in R
    BY DEF OpToRel
  <1> HIDE DEF R, Bad
  <1>5. PICK n \in Bad : \A m \in Bad : ~(<<m, n>> \in R)
    BY <1>1, <1>2, <1>3, WFMin
  <1>6. n \in Nat /\ n \notin Good /\ n # 0
    BY <1>5 DEF Bad
  <1>7. n - 1 \in Nat /\ n - 1 < n /\ n - 1 + 1 = n
    BY <1>6
  <1>8. n - 1 \notin Good
    BY <1>6, <1>7
  <1> QED BY <1>4, <1>5, <1>6, <1>7, <1>8 DEF Bad

-----------------------------------------------------------------------------
(* The equation of a sum *)

Pick(s) == CHOOSE x \in s : TRUE

\* g is a table of the sums of f over the subsets of S.
IsTable(f, S, g) ==
    g = [s \in SUBSET S |-> IF s = {} THEN 0 ELSE f[Pick(s)] + g[s \ {Pick(s)}]]

Table(f, S) == CHOOSE g : IsTable(f, S, g)

LEMMA SumIsInTable == ASSUME NEW f, NEW S PROVE SumFunctionOnSet(f, S) = Table(f, S)[S]
  BY DEF SumFunctionOnSet, FoldFunctionOnSet, MapThenFoldSet, Table, IsTable, Pick

LEMMA PickFacts == ASSUME NEW s, s # {} PROVE Pick(s) \in s
  BY DEF Pick

\* What a table says of one subset.
LEMMA TableEntry ==
  ASSUME NEW f, NEW S, NEW g, IsTable(f, S, g), NEW s \in SUBSET S
  PROVE  /\ s = {} => g[s] = 0
         /\ s # {} => g[s] = f[Pick(s)] + g[s \ {Pick(s)}]
  BY DEF IsTable

LEMMA TableIsUnique ==
  ASSUME NEW f, NEW S, IsFiniteSet(S), NEW g, IsTable(f, S, g),
         NEW T \in SUBSET S, NEW h, IsTable(f, T, h)
  PROVE  g[T] = h[T]
  <1> DEFINE Good == {s \in SUBSET T : g[s] = h[s]}
  <1>1. IsFiniteSet(T)
    BY FS_Subset
  <1>2. ASSUME NEW s \in SUBSET T, \A U \in SUBSET s : U # s => U \in Good
        PROVE  s \in Good
    <2>1. CASE s = {}
      BY <2>1, TableEntry
    <2>2. CASE s # {}
      <3>1. Pick(s) \in s
        BY <2>2, PickFacts
      <3>2. s \ {Pick(s)} \in Good
        BY <1>2, <3>1
      <3>3. g[s] = f[Pick(s)] + g[s \ {Pick(s)}]
        BY <2>2, TableEntry
      <3>4. h[s] = f[Pick(s)] + h[s \ {Pick(s)}]
        BY <2>2, TableEntry
      <3> QED BY <3>2, <3>3, <3>4
    <2> QED BY <2>1, <2>2
  <1> HIDE DEF Good
  <1>3. SUBSET T \subseteq Good
    BY <1>1, <1>2, StrictSubsetInduction
  <1> QED BY <1>3 DEF Good

LEMMA TableExists ==
  ASSUME NEW f, NEW S, IsFiniteSet(S)
  PROVE  IsTable(f, S, Table(f, S))
  <1> DEFINE Sum(s) == Table(f, s)[s]
             Good   == {T \in SUBSET S : IsTable(f, T, Table(f, T))}
  <1>1. ASSUME NEW T \in SUBSET S, \A U \in SUBSET T : U # T => U \in Good
        PROVE  T \in Good
    <2> DEFINE g == [s \in SUBSET T |->
                       IF s = {} THEN 0 ELSE f[Pick(s)] + Sum(s \ {Pick(s)})]
    <2>1. ASSUME NEW s \in SUBSET T, s # T PROVE Sum(s) = g[s]
      <3>1. IsTable(f, s, Table(f, s)) /\ IsFiniteSet(s)
        BY <1>1, <2>1, FS_Subset
      <3>2. CASE s = {}
        <4>1. Table(f, s)[s] = 0
          BY <3>1, <3>2, TableEntry
        <4> QED BY <3>2, <4>1
      <3>3. CASE s # {}
        <4> DEFINE r == s \ {Pick(s)}
        <4>1. r \in SUBSET s /\ r \in SUBSET T /\ r # T
          BY <2>1
        <4>2. IsTable(f, r, Table(f, r))
          BY <1>1, <4>1
        <4>3. Table(f, s)[r] = Sum(r)
          BY <3>1, <4>1, <4>2, TableIsUnique
        <4>4. Table(f, s)[s] = f[Pick(s)] + Table(f, s)[r]
          BY <3>1, <3>3, TableEntry
        <4> QED BY <3>3, <4>3, <4>4
      <3> QED BY <3>2, <3>3
    <2>2. IsTable(f, T, g)
      <3>1. ASSUME NEW s \in SUBSET T, s # {}
            PROVE  Sum(s \ {Pick(s)}) = g[s \ {Pick(s)}]
        <4>1. Pick(s) \in s
          BY <3>1, PickFacts
        <4>2. s \ {Pick(s)} \in SUBSET T /\ s \ {Pick(s)} # T
          BY <4>1
        <4> HIDE DEF g, Sum
        <4> QED BY <4>2, <2>1
      <3> DEFINE k == [s \in SUBSET T |->
                         IF s = {} THEN 0 ELSE f[Pick(s)] + g[s \ {Pick(s)}]]
      <3>2. g = k
        BY <3>1
      <3> QED BY <3>2 DEF IsTable
    <2> HIDE DEF g
    <2> QED BY <2>2 DEF Table
  <1> HIDE DEF Good
  <1>2. SUBSET S \subseteq Good
    BY <1>1, StrictSubsetInduction
  <1> QED BY <1>2 DEF Good

\* The sum over no elements is 0, and over others the value of the element that
\* is picked and the sum over the rest.
LEMMA SumEquation ==
  ASSUME NEW f, NEW S, IsFiniteSet(S)
  PROVE  /\ S = {} => SumFunctionOnSet(f, S) = 0
         /\ S # {} => SumFunctionOnSet(f, S) =
                        f[Pick(S)] + SumFunctionOnSet(f, S \ {Pick(S)})
  <1> DEFINE R == S \ {Pick(S)}
  <1>1. IsTable(f, S, Table(f, S))
    BY TableExists
  <1>2. IsFiniteSet(R) /\ IsTable(f, R, Table(f, R))
    BY FS_Subset, TableExists
  <1>3. Table(f, S)[R] = Table(f, R)[R]
    BY <1>1, <1>2, TableIsUnique
  <1>4. /\ S = {} => Table(f, S)[S] = 0
        /\ S # {} => Table(f, S)[S] = f[Pick(S)] + Table(f, S)[R]
    BY <1>1, S \in SUBSET S, TableEntry
  <1> QED BY <1>3, <1>4, SumIsInTable
-----------------------------------------------------------------------------
(* Sums *)

LEMMA SumEmpty == ASSUME NEW f PROVE SumFunctionOnSet(f, {}) = 0
  BY FS_EmptySet, SumEquation

\* A sum depends on the values of the elements only, and is an integer.
LEMMA SumExtensional ==
  ASSUME NEW S, IsFiniteSet(S), NEW f, NEW g, \A x \in S : f[x] = g[x]
  PROVE  SumFunctionOnSet(f, S) = SumFunctionOnSet(g, S)
  <1> DEFINE Good == {T \in SUBSET S : SumFunctionOnSet(f, T) = SumFunctionOnSet(g, T)}
  <1>1. ASSUME NEW T \in SUBSET S, \A U \in SUBSET T : U # T => U \in Good
        PROVE  T \in Good
    <2>1. IsFiniteSet(T)
      BY FS_Subset
    <2>2. CASE T = {}
      BY <2>1, <2>2, SumEquation
    <2>3. CASE T # {}
      <3>1. Pick(T) \in T
        BY <2>3, PickFacts
      <3>2. T \ {Pick(T)} \in Good
        BY <1>1, <3>1
      <3> QED BY <2>1, <2>3, <3>1, <3>2, SumEquation
    <2> QED BY <2>2, <2>3
  <1> HIDE DEF Good
  <1>2. SUBSET S \subseteq Good
    BY <1>1, StrictSubsetInduction
  <1> QED BY <1>2 DEF Good

LEMMA SumInt ==
  ASSUME NEW S, IsFiniteSet(S), NEW f, \A x \in S : f[x] \in Int
  PROVE  SumFunctionOnSet(f, S) \in Int
  <1> DEFINE Good == {T \in SUBSET S : SumFunctionOnSet(f, T) \in Int}
  <1>1. ASSUME NEW T \in SUBSET S, \A U \in SUBSET T : U # T => U \in Good
        PROVE  T \in Good
    <2>1. IsFiniteSet(T)
      BY FS_Subset
    <2>2. CASE T = {}
      <3>1. SumFunctionOnSet(f, T) = 0
        BY <2>2, SumEmpty
      <3> QED BY <3>1
    <2>3. CASE T # {}
      <3>1. Pick(T) \in T
        BY <2>3, PickFacts
      <3>2. SumFunctionOnSet(f, T \ {Pick(T)}) \in Int
        BY <1>1, <3>1
      <3>3. f[Pick(T)] \in Int
        BY <3>1
      <3> QED BY <2>1, <2>3, <3>2, <3>3, SumEquation
    <2> QED BY <2>2, <2>3
  <1> HIDE DEF Good
  <1>2. SUBSET S \subseteq Good
    BY <1>1, StrictSubsetInduction
  <1> QED BY <1>2 DEF Good

\* Any element may be taken out, not only the one that is picked.
LEMMA SumRemove ==
  ASSUME NEW S, IsFiniteSet(S), NEW f, \A x \in S : f[x] \in Int, NEW x \in S
  PROVE  SumFunctionOnSet(f, S) = f[x] + SumFunctionOnSet(f, S \ {x})
  <1> DEFINE Sum(T) == SumFunctionOnSet(f, T)
             Good == {T \in SUBSET S : \A y \in T : Sum(T) = f[y] + Sum(T \ {y})}
  <1>1. ASSUME NEW T \in SUBSET S, \A U \in SUBSET T : U # T => U \in Good, NEW y \in T
        PROVE  Sum(T) = f[y] + Sum(T \ {y})
    <2> DEFINE p == Pick(T)
    <2>1. p \in T /\ IsFiniteSet(T)
      BY FS_Subset, PickFacts
    <2>2. Sum(T) = f[p] + Sum(T \ {p})
      BY <2>1, SumEquation
    <2>3. CASE y # p
      <3>1. Sum(T \ {p}) = f[y] + Sum((T \ {p}) \ {y})
        <4>1. T \ {p} \in Good /\ y \in T \ {p}
          BY <1>1, <2>1, <2>3
        <4> QED BY <4>1
      <3>2. Sum(T \ {y}) = f[p] + Sum((T \ {y}) \ {p})
        <4>1. T \ {y} \in Good /\ p \in T \ {y}
          BY <1>1, <2>1, <2>3
        <4> QED BY <4>1
      <3>3. (T \ {p}) \ {y} = (T \ {y}) \ {p}
        OBVIOUS
      <3>4. f[p] \in Int /\ f[y] \in Int /\ Sum((T \ {p}) \ {y}) \in Int
        <4>1. (T \ {p}) \ {y} \in SUBSET S
          OBVIOUS
        <4>2. IsFiniteSet((T \ {p}) \ {y})
          BY <4>1, FS_Subset
        <4>3. f[p] \in Int /\ f[y] \in Int
          BY <2>1
        <4> QED BY <4>1, <4>2, <4>3, SumInt
      <3>5. Sum(T) = f[p] + (f[y] + Sum((T \ {p}) \ {y}))
        BY <2>2, <3>1
      <3>6. Sum(T \ {y}) = f[p] + Sum((T \ {p}) \ {y})
        BY <3>2, <3>3
      <3>7. ASSUME NEW a \in Int, NEW b \in Int, NEW c \in Int
            PROVE  a + (b + c) = b + (a + c)
        BY <3>7
      <3>8. f[p] + (f[y] + Sum((T \ {p}) \ {y})) = f[y] + (f[p] + Sum((T \ {p}) \ {y}))
        BY <3>4, <3>7
      <3> QED BY <3>5, <3>6, <3>8
    <2> QED BY <2>2, <2>3
  <1>2. \A T \in SUBSET S : (\A U \in SUBSET T : U # T => U \in Good) => T \in Good
    BY <1>1
  <1> HIDE DEF Good
  <1>3. SUBSET S \subseteq Good
    BY <1>2, StrictSubsetInduction
  <1> QED BY <1>3 DEF Good

LEMMA SumAdd ==
  ASSUME NEW S, IsFiniteSet(S), NEW x, x \notin S, NEW f, \A y \in S \cup {x} : f[y] \in Int
  PROVE  SumFunctionOnSet(f, S \cup {x}) = SumFunctionOnSet(f, S) + f[x]
  <1>1. IsFiniteSet(S \cup {x}) /\ (S \cup {x}) \ {x} = S
    BY FS_AddElement
  <1>2. SumFunctionOnSet(f, S \cup {x}) = f[x] + SumFunctionOnSet(f, S)
    BY <1>1, SumRemove
  <1>3. SumFunctionOnSet(f, S) \in Int /\ f[x] \in Int
    BY SumInt
  <1> QED BY <1>2, <1>3

\* Sums over two disjoint sets add up to the sum over both.
LEMMA SumDisjoint ==
  ASSUME NEW S, IsFiniteSet(S), NEW T, IsFiniteSet(T), S \cap T = {},
         NEW f, \A x \in S \cup T : f[x] \in Int
  PROVE  SumFunctionOnSet(f, S \cup T) = SumFunctionOnSet(f, S) + SumFunctionOnSet(f, T)
  <1> DEFINE Sum(U) == SumFunctionOnSet(f, U)
             Good == {U \in SUBSET T : Sum(S \cup U) = Sum(S) + Sum(U)}
  <1>1. Sum(S) \in Int
    BY SumInt
  <1>2. ASSUME NEW U \in SUBSET T, \A V \in SUBSET U : V # U => V \in Good
        PROVE  U \in Good
    <2>1. CASE U = {}
      <3>1. S \cup U = S /\ Sum(U) = 0
        BY <2>1, SumEmpty
      <3>2. Sum(S \cup U) = Sum(S) + Sum(U)
        <4> HIDE DEF Sum
        <4> QED BY <1>1, <3>1
      <3> QED BY <3>2
    <2>2. CASE U # {}
      <3>1. PICK x \in U : TRUE
        BY <2>2
      <3> DEFINE V == U \ {x}
      <3>2. /\ V \in Good /\ IsFiniteSet(V) /\ IsFiniteSet(S \cup V)
            /\ x \notin V /\ x \notin S \cup V /\ V \cup {x} = U
            /\ (S \cup V) \cup {x} = S \cup U
        <4>1. IsFiniteSet(V)
          BY FS_Subset
        <4>2. V \in SUBSET U /\ V # U
          BY <3>1
        <4>3. V \in Good
          <5> HIDE DEF V, Good
          <5> QED BY <1>2, <4>2
        <4>4. IsFiniteSet(S \cup V)
          BY <4>1, FS_Union
        <4>5. /\ x \notin V /\ x \notin S \cup V /\ V \cup {x} = U
              /\ (S \cup V) \cup {x} = S \cup U
          BY <3>1
        <4> QED BY <4>1, <4>3, <4>4, <4>5
      <3>3. Sum(U) = Sum(V) + f[x]
        BY <3>2, SumAdd
      <3>4. Sum(S \cup U) = Sum(S \cup V) + f[x]
        BY <3>2, SumAdd
      <3>5. Sum(V) \in Int /\ f[x] \in Int
        BY <3>1, <3>2, SumInt
      <3>6. Sum(S \cup V) = Sum(S) + Sum(V)
        BY <3>2
      <3> HIDE DEF Sum
      <3> QED BY <1>1, <3>3, <3>4, <3>5, <3>6
    <2> QED BY <2>1, <2>2
  <1> HIDE DEF Good
  <1>3. SUBSET T \subseteq Good
    BY <1>2, StrictSubsetInduction
  <1> QED BY <1>3 DEF Good

\* A sum lies between the least and the greatest value times the number of values.
LEMMA SumBounds ==
  ASSUME NEW S, IsFiniteSet(S), NEW lo \in Int, NEW hi \in Int,
         NEW f, \A x \in S : f[x] \in Int /\ lo <= f[x] /\ f[x] <= hi
  PROVE  /\ lo * Cardinality(S) <= SumFunctionOnSet(f, S)
         /\ SumFunctionOnSet(f, S) <= hi * Cardinality(S)
  <1> DEFINE Sum(T) == SumFunctionOnSet(f, T)
             n(T) == Cardinality(T)
             Good == {T \in SUBSET S : lo * n(T) <= Sum(T) /\ Sum(T) <= hi * n(T)}
  <1>1. ASSUME NEW T \in SUBSET S, \A U \in SUBSET T : U # T => U \in Good
        PROVE  T \in Good
    <2>1. CASE T = {}
      <3>1. n(T) = 0 /\ Sum(T) = 0
        BY <2>1, SumEmpty, FS_EmptySet
      <3> HIDE DEF n, Sum
      <3> QED BY <3>1
    <2>2. CASE T # {}
      <3>1. PICK x \in T : TRUE
        BY <2>2
      <3> DEFINE U == T \ {x}
      <3>2. U \in Good /\ IsFiniteSet(U) /\ x \notin U /\ U \cup {x} = T
        BY <1>1, <3>1, FS_Subset
      <3>3. Sum(T) = Sum(U) + f[x]
        BY <3>2, SumAdd
      <3>4. n(T) = n(U) + 1 /\ n(U) \in Nat
        BY <3>2, FS_AddElement, FS_CardinalityType
      <3>5. Sum(U) \in Int /\ f[x] \in Int /\ lo <= f[x] /\ f[x] <= hi
        BY <3>1, <3>2, SumInt
      <3>6. lo * n(U) <= Sum(U) /\ Sum(U) <= hi * n(U)
        BY <3>2
      <3> HIDE DEF n, Sum
      <3>7. lo * (n(U) + 1) = lo * n(U) + lo /\ hi * (n(U) + 1) = hi * n(U) + hi
        BY <3>4
      <3>8. lo * n(U) \in Int /\ hi * n(U) \in Int
        BY <3>4
      <3> QED BY <3>3, <3>4, <3>5, <3>6, <3>7, <3>8
    <2> QED BY <2>1, <2>2
  <1> HIDE DEF Good
  <1>2. SUBSET S \subseteq Good
    BY <1>1, StrictSubsetInduction
  <1> QED BY <1>2 DEF Good

\* Values of 0 add up to nothing.
LEMMA SumZero ==
  ASSUME NEW S, IsFiniteSet(S), NEW f, \A x \in S : f[x] = 0
  PROVE  SumFunctionOnSet(f, S) = 0
  <1>1. 0 \in Int /\ \A x \in S : f[x] \in Int /\ 0 <= f[x] /\ f[x] <= 0
    OBVIOUS
  <1>2. /\ 0 * Cardinality(S) <= SumFunctionOnSet(f, S)
        /\ SumFunctionOnSet(f, S) <= 0 * Cardinality(S)
    BY <1>1, SumBounds
  <1>3. SumFunctionOnSet(f, S) \in Int /\ Cardinality(S) \in Nat
    BY <1>1, SumInt, FS_CardinalityType
  <1> QED BY <1>2, <1>3

\* The sums over two sets are those over all elements and over the shared ones.
LEMMA SumUnion ==
  ASSUME NEW S, IsFiniteSet(S), NEW T, IsFiniteSet(T), NEW f, \A x \in S \cup T : f[x] \in Int
  PROVE  SumFunctionOnSet(f, S) + SumFunctionOnSet(f, T) =
           SumFunctionOnSet(f, S \cup T) + SumFunctionOnSet(f, S \cap T)
  <1> DEFINE R == T \ S
             C == S \cap T
  <1>1. /\ IsFiniteSet(R) /\ IsFiniteSet(C)
        /\ S \cap R = {} /\ C \cap R = {} /\ S \cup T = S \cup R /\ T = C \cup R
    BY FS_Subset
  <1>2. \A x \in S \cup R : f[x] \in Int
    BY <1>1
  <1>3. \A x \in C \cup R : f[x] \in Int
    BY <1>1
  <1> HIDE DEF R, C
  <1>4. SumFunctionOnSet(f, S \cup R) = SumFunctionOnSet(f, S) + SumFunctionOnSet(f, R)
    BY <1>1, <1>2, SumDisjoint
  <1>5. SumFunctionOnSet(f, C \cup R) = SumFunctionOnSet(f, C) + SumFunctionOnSet(f, R)
    BY <1>1, <1>3, SumDisjoint
  <1>6. /\ SumFunctionOnSet(f, S) \in Int /\ SumFunctionOnSet(f, R) \in Int
        /\ SumFunctionOnSet(f, C) \in Int
    BY <1>1, <1>2, <1>3, SumInt
  <1>7. SumFunctionOnSet(f, T) = SumFunctionOnSet(f, C) + SumFunctionOnSet(f, R)
    BY <1>1, <1>5
  <1>8. SumFunctionOnSet(f, S \cup T) = SumFunctionOnSet(f, S) + SumFunctionOnSet(f, R)
    BY <1>1, <1>4
  <1> QED BY <1>6, <1>7, <1>8 DEF C
=============================================================================
