----------------------------- MODULE CreditSums -----------------------------
(***************************************************************************)
(* The sum of a function of naturals over a finite set, for the proof that *)
(* credit is conserved.                                                    *)
(*                                                                         *)
(* SumFunctionOnSet is a fold: it takes the elements in an order that      *)
(* nothing says anything about.  Instead of an induction for each fact     *)
(* about it, one lemma (SumIsArea) shows that the sum counts the units     *)
(* under the function, and every other fact is one about the size of a     *)
(* finite set.  That lemma is the only induction here; it is an argument   *)
(* by a smallest counterexample.                                           *)
(***************************************************************************)
EXTENDS Integers, FiniteSets, Functions, FiniteSetTheorems, WellFoundedInduction, TLAPS

\* The units under f at x, and under f over S: as many as f[x], and as the
\* sum of f over S.
Column(f, x) == {x} \X (0 .. f[x] - 1)
Area(f, S) == UNION {Column(f, x) : x \in S}

LEMMA ColumnSize ==
  ASSUME NEW S, NEW f \in [S -> Nat], NEW x \in S
  PROVE  IsFiniteSet(Column(f, x)) /\ Cardinality(Column(f, x)) = f[x]
<1>1. f[x] \in Nat /\ f[x] - 1 \in Int
  OBVIOUS
<1>2. /\ IsFiniteSet(0 .. f[x] - 1)
      /\ Cardinality(0 .. f[x] - 1) = f[x]
  <2>1. \A b \in Int : /\ IsFiniteSet(0 .. b)
                       /\ Cardinality(0 .. b) = IF 0 > b THEN 0 ELSE b - 0 + 1
    BY FS_Interval
  <2> DEFINE b == f[x] - 1
  <2>2. b \in Int /\ b >= -1 /\ b + 1 = f[x]
    BY <1>1
  <2> HIDE DEF b
  <2>3. IsFiniteSet(0 .. b) /\ Cardinality(0 .. b) = b + 1
    BY <2>1, <2>2
  <2>4. QED
    BY <2>2, <2>3 DEF b
<1>3. IsFiniteSet({x}) /\ Cardinality({x}) = 1
  BY FS_Singleton
<1>4. /\ IsFiniteSet({x} \X (0 .. f[x] - 1))
      /\ Cardinality({x} \X (0 .. f[x] - 1)) = 1 * f[x]
  BY <1>2, <1>3, FS_Product
<1>5. QED
  BY <1>1, <1>4 DEF Column

LEMMA AreaFinite ==
  ASSUME NEW S, IsFiniteSet(S), NEW f \in [S -> Nat]
  PROVE  \A T \in SUBSET S : IsFiniteSet(T) /\ IsFiniteSet(Area(f, T))
<1> SUFFICES ASSUME NEW T \in SUBSET S
             PROVE  IsFiniteSet(T) /\ IsFiniteSet(Area(f, T))
  OBVIOUS
<1>1. IsFiniteSet(T)
  BY FS_Subset
<1> DEFINE columns == {Column(f, x) : x \in T}
           column == [x \in T |-> Column(f, x)]
<1>2. column \in Surjection(T, columns)
  BY DEF Surjection
<1>3. IsFiniteSet(columns)
  BY <1>1, <1>2, FS_Surjection
<1>4. \A c \in columns : IsFiniteSet(c)
  BY ColumnSize
<1>5. IsFiniteSet(UNION columns)
  BY <1>3, <1>4, FS_UNION
<1>6. QED
  BY <1>1, <1>5 DEF Area

\* The area over T is one column, of any element, and the rest.
LEMMA AreaSplit ==
  ASSUME NEW S, IsFiniteSet(S), NEW f \in [S -> Nat], NEW T \in SUBSET S, NEW x \in T
  PROVE  /\ Cardinality(Area(f, T)) \in Nat
         /\ Cardinality(Area(f, T \ {x})) \in Nat
         /\ Cardinality(Area(f, T)) = f[x] + Cardinality(Area(f, T \ {x}))
<1>1. /\ IsFiniteSet(Area(f, T)) /\ IsFiniteSet(Area(f, T \ {x}))
      /\ IsFiniteSet(Column(f, x)) /\ Cardinality(Column(f, x)) = f[x]
  <2>1. T \ {x} \in SUBSET S
    OBVIOUS
  <2>2. QED
    BY <2>1, AreaFinite, ColumnSize
<1>2. Area(f, T) = Column(f, x) \cup Area(f, T \ {x})
  BY DEF Area
<1>3. Column(f, x) \cap Area(f, T \ {x}) = {}
  BY DEF Area, Column
<1>4. Cardinality(Area(f, T)) \in Nat /\ Cardinality(Area(f, T \ {x})) \in Nat
  BY <1>1, FS_CardinalityType
<1>5. Cardinality(Area(f, T))
        = Cardinality(Column(f, x)) + Cardinality(Area(f, T \ {x})) - Cardinality({})
  <2> DEFINE C == Column(f, x)
             R == Area(f, T \ {x})
  <2> HIDE DEF C, R
  <2>1. IsFiniteSet(C) /\ IsFiniteSet(R) /\ C \cap R = {}
    BY <1>1, <1>3 DEF C, R
  <2>2. Cardinality(C \cup R) = Cardinality(C) + Cardinality(R) - Cardinality({})
    BY <2>1, FS_Union
  <2>3. QED
    BY <1>2, <2>2 DEF C, R
<1>6. f[x] \in Nat /\ Cardinality({}) = 0
  BY FS_EmptySet
<1>7. QED
  BY <1>1, <1>4, <1>5, <1>6

-----------------------------------------------------------------------------
(* The fold                                                                *)

Element(s) == CHOOSE x \in s : TRUE

\* What the fold's recursive function g is defined by.
Recurrence(f, S, g) ==
  g = [s \in SUBSET S |-> IF s = {} THEN 0 ELSE f[Element(s)] + g[s \ {Element(s)}]]

LEMMA SumUnfolded ==
  ASSUME NEW f, NEW S
  PROVE  SumFunctionOnSet(f, S) = (CHOOSE g : Recurrence(f, S, g))[S]
  BY DEF SumFunctionOnSet, FoldFunctionOnSet, MapThenFoldSet, Recurrence, Element

LEMMA AreaRecurs ==
  ASSUME NEW S, IsFiniteSet(S), NEW f \in [S -> Nat]
  PROVE  Recurrence(f, S, [s \in SUBSET S |-> Cardinality(Area(f, s))])
<1> DEFINE g == [s \in SUBSET S |-> Cardinality(Area(f, s))]
<1>1. ASSUME NEW s \in SUBSET S
      PROVE  g[s] = IF s = {} THEN 0 ELSE f[Element(s)] + g[s \ {Element(s)}]
  <2>1. CASE s = {}
    <3>1. Area(f, s) = {}
      BY <2>1 DEF Area
    <3>2. QED
      BY <2>1, <3>1, FS_EmptySet
  <2>2. CASE s # {}
    <3>1. Element(s) \in s
      BY <2>2 DEF Element
    <3>2. Cardinality(Area(f, s)) = f[Element(s)] + Cardinality(Area(f, s \ {Element(s)}))
      BY <3>1, AreaSplit
    <3>3. s \ {Element(s)} \in SUBSET S
      OBVIOUS
    <3>4. QED
      BY <2>2, <3>2, <3>3
  <2>3. QED
    BY <2>1, <2>2
<1>2. QED
  BY <1>1 DEF Recurrence

\* Two solutions of the recurrence cannot differ: on a smallest set where they
\* do, they agree on what is left without its element.
LEMMA RecurrenceUnique ==
  ASSUME NEW S, IsFiniteSet(S), NEW f, NEW g, NEW h,
         Recurrence(f, S, g), Recurrence(f, S, h)
  PROVE  g = h
<1> DEFINE D == {s \in SUBSET S : g[s] # h[s]}
<1>1. ASSUME D # {}
      PROVE  FALSE
  <2>1. D \subseteq FiniteSubsetsOf(S)
    BY FS_Subset DEF FiniteSubsetsOf
  <2>2. PICK s \in D : \A r \in D : <<r, s>> \notin StrictSubsetOrdering(S)
    BY <1>1, <2>1, FS_StrictSubsetOrderingWellFounded, WFMin
  <2>3. s # {}
    BY DEF Recurrence
  <2>4. Element(s) \in s
    BY <2>3 DEF Element
  <2>5. s \ {Element(s)} \notin D
    <3> DEFINE r == s \ {Element(s)}
    <3>1. r \in SUBSET S /\ s \in SUBSET S /\ r \subseteq s /\ r # s
      BY <2>4
    <3>2. <<r, s>> \in StrictSubsetOrdering(S)
      BY <3>1 DEF StrictSubsetOrdering
    <3>3. QED
      BY <2>2, <3>2
  <2>6. g[s] = h[s]
    BY <2>3, <2>5 DEF Recurrence
  <2>7. QED
    BY <2>6
<1>2. /\ g = [s \in SUBSET S |-> g[s]]
      /\ h = [s \in SUBSET S |-> h[s]]
  BY DEF Recurrence
<1>3. QED
  BY <1>1, <1>2

LEMMA SumIsArea ==
  ASSUME NEW S, IsFiniteSet(S), NEW f \in [S -> Nat]
  PROVE  SumFunctionOnSet(f, S) = Cardinality(Area(f, S))
<1> DEFINE a == [s \in SUBSET S |-> Cardinality(Area(f, s))]
           g == CHOOSE x : Recurrence(f, S, x)
<1>1. Recurrence(f, S, a)
  BY AreaRecurs
<1>2. Recurrence(f, S, g)
  BY <1>1
<1>3. g = a
  BY <1>1, <1>2, RecurrenceUnique
<1>4. QED
  BY <1>3, SumUnfolded

-----------------------------------------------------------------------------
(* Sums                                                                    *)

\* A sum of naturals is a natural number.
LEMMA SumType ==
  ASSUME NEW S, IsFiniteSet(S), NEW f \in [S -> Nat]
  PROVE  SumFunction(f) \in Nat
<1>1. SumFunction(f) = Cardinality(Area(f, S))
  BY SumIsArea DEF SumFunction
<1>2. IsFiniteSet(Area(f, S))
  BY AreaFinite
<1>3. QED
  BY <1>1, <1>2, FS_CardinalityType

LEMMA SumOfZeros ==
  ASSUME NEW S, IsFiniteSet(S)
  PROVE  SumFunction([x \in S |-> 0]) = 0
<1> DEFINE f == [x \in S |-> 0]
<1>1. f \in [S -> Nat]
  OBVIOUS
<1>2. Area(f, S) = {}
  BY DEF Area, Column
<1>3. SumFunction(f) = Cardinality({})
  BY <1>1, <1>2, SumIsArea DEF SumFunction
<1>4. QED
  BY <1>3, FS_EmptySet

\* One value changes: the sum changes by the difference.
LEMMA SumChanged ==
  ASSUME NEW S, IsFiniteSet(S), NEW f \in [S -> Nat], NEW x \in S, NEW g \in [S -> Nat],
         \A y \in S \ {x} : g[y] = f[y]
  PROVE  SumFunction(g) + f[x] = SumFunction(f) + g[x]
<1>1. Area(g, S \ {x}) = Area(f, S \ {x})
  BY DEF Area, Column
<1> DEFINE rest == Cardinality(Area(f, S \ {x}))
<1>2. SumFunction(f) = f[x] + rest /\ rest \in Nat
  BY SumIsArea, AreaSplit DEF SumFunction
<1>3. SumFunction(g) = g[x] + rest
  BY <1>1, SumIsArea, AreaSplit DEF SumFunction
<1> HIDE DEF rest
<1>4. QED
  BY <1>2, <1>3
=============================================================================
