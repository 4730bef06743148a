------------------------------ MODULE SumTheorems ------------------------------
(***************************************************************************)
(* What the sums of the community module Functions do over finite sets of  *)
(* any size: they are taken apart, compared and counted here, for the      *)
(* accounts of slots, accesses and samples that the other proofs keep.     *)
(*                                                                         *)
(* The library's induction theorems take a predicate as a parameter, which *)
(* the provers cannot instantiate.  Its theorem on minimal elements takes  *)
(* a set; SetInduction and SubsetInduction follow from that one, and the   *)
(* lemmas apply them to the set of all numbers, or finite sets, for which  *)
(* what they state is true.                                                *)
(***************************************************************************)
EXTENDS Integers, FiniteSets, Functions, FiniteSetTheorems, TLAPS

\* What SumFunctionOnSet chooses from a set.
Chosen(s) == CHOOSE x \in s : TRUE

\* The equation its definition gives to the function it recurs over.
Unfolds(g, f, S) ==
  g = [s \in SUBSET S |-> IF s = {} THEN 0 ELSE f[Chosen(s)] + g[s \ {Chosen(s)}]]

\* As many units as the sum of f over s says.
Column(f, x) == {x} \X (1..f[x])
Units(f, s) == UNION {Column(f, x) : x \in s}

LEMMA ChosenFrom == ASSUME NEW s, s # {} PROVE Chosen(s) \in s
BY DEF Chosen

LEMMA SumUnfolds ==
  ASSUME NEW f, NEW S
  PROVE  SumFunctionOnSet(f, S) = (CHOOSE g : Unfolds(g, f, S))[S]
BY DEF SumFunctionOnSet, FoldFunctionOnSet, MapThenFoldSet, Unfolds, Chosen

\* Induction over the natural numbers, for a set instead of a predicate.
LEMMA SetInduction ==
  ASSUME NEW S, 0 \in S, \A n \in Nat : n \in S => n + 1 \in S
  PROVE  Nat \subseteq S
<1> SUFFICES ASSUME NEW m \in Nat, m \notin S PROVE FALSE
  OBVIOUS
<1> DEFINE T == {n \in Nat : n \notin S}
           R == OpToRel(<, Nat)
<1>1. PICK x \in T : \A y \in T : ~ (<<y, x>> \in R)
  <2>1. T \subseteq Nat /\ T # {}
    OBVIOUS
  <2>2. IsWellFoundedOn(R, Nat)
    BY NatLessThanWellFounded
  <2> HIDE DEF T, R
  <2> QED BY <2>1, <2>2, WFMin, Zenon
<1>2. x \in Nat /\ x # 0
  OBVIOUS
<1>3. x - 1 \in Nat /\ x - 1 < x /\ (x - 1) + 1 = x
  BY <1>2
<1>4. x - 1 \in T
  BY <1>3
<1>5. <<x - 1, x>> \in R
  BY <1>2, <1>3 DEF OpToRel
<1> QED BY <1>1, <1>4, <1>5

\* Induction over the subsets of a finite set, for a set of them.
LEMMA SubsetInduction ==
  ASSUME NEW S, IsFiniteSet(S), NEW P, {} \in P,
         \A s \in SUBSET S : s # {} /\ (\A x \in s : s \ {x} \in P) => s \in P
  PROVE  S \in P
<1> DEFINE N == {n \in Nat : \A s \in SUBSET S : Cardinality(s) = n => s \in P}
<1>1. \A s \in SUBSET S : IsFiniteSet(s)
  BY FS_Subset
<1>2. 0 \in N
  <2>1. \A s \in SUBSET S : Cardinality(s) = 0 => s = {}
    BY <1>1, FS_EmptySet
  <2> QED BY <2>1
<1>3. ASSUME NEW n \in Nat, n \in N PROVE n + 1 \in N
  <2>1. n + 1 \in Nat /\ n + 1 # 0
    OBVIOUS
  <2> SUFFICES ASSUME NEW s \in SUBSET S, Cardinality(s) = n + 1 PROVE s \in P
    BY <2>1
  <2>2. s # {}
    BY <2>1, FS_EmptySet
  <2>3. ASSUME NEW x \in s PROVE s \ {x} \in P
    <3>1. Cardinality(s \ {x}) = Cardinality(s) - 1
      BY <1>1, FS_RemoveElement
    <3>2. Cardinality(s \ {x}) = n
      BY <3>1
    <3> QED BY <1>3, <3>2
  <2> QED BY <2>2, <2>3
<1>4. Nat \subseteq N
  <2> HIDE DEF N
  <2> QED BY <1>2, <1>3, SetInduction
<1>5. Cardinality(S) \in Nat
  BY FS_CardinalityType
<1> QED BY <1>4, <1>5

LEMMA DisjointSizes ==
  ASSUME NEW A, NEW B, IsFiniteSet(A), IsFiniteSet(B), A \cap B = {}
  PROVE  IsFiniteSet(A \cup B) /\ Cardinality(A \cup B) = Cardinality(A) + Cardinality(B)
<1>1. Cardinality(A) \in Nat /\ Cardinality(B) \in Nat
  BY FS_CardinalityType
<1>2. /\ IsFiniteSet(A \cup B)
      /\ Cardinality(A \cup B) = Cardinality(A) + Cardinality(B) - Cardinality(A \cap B)
  BY FS_Union
<1>3. Cardinality(A \cap B) = 0
  BY FS_EmptySet
<1> QED BY <1>1, <1>2, <1>3

LEMMA ColumnSize ==
  ASSUME NEW f, NEW x, f[x] \in Nat
  PROVE  IsFiniteSet(Column(f, x)) /\ Cardinality(Column(f, x)) = f[x]
<1>1. IsFiniteSet({x}) /\ Cardinality({x}) = 1
  BY FS_Singleton
<1>2. IsFiniteSet(1..f[x]) /\ Cardinality(1..f[x]) = f[x]
  <2>1. ASSUME NEW k \in Nat PROVE IsFiniteSet(1..k) /\ Cardinality(1..k) = k
    <3>1. IsFiniteSet(1..k) /\ Cardinality(1..k) = IF 1 <= k THEN k - 1 + 1 ELSE 0
      BY FS_Interval
    <3> QED BY <3>1
  <2> QED BY <2>1, Zenon
<1>3. IsFiniteSet(Column(f, x))
      /\ Cardinality(Column(f, x)) = Cardinality({x}) * Cardinality(1..f[x])
  BY <1>1, <1>2, FS_Product DEF Column
<1> QED BY <1>1, <1>2, <1>3

LEMMA UnitsFinite ==
  ASSUME NEW f, NEW s, IsFiniteSet(s), \A x \in s : f[x] \in Nat
  PROVE  IsFiniteSet(Units(f, s))
<1> DEFINE T == {Column(f, x) : x \in s}
           h == [x \in s |-> Column(f, x)]
<1>1. h \in Surjection(s, T)
  BY DEF Surjection
<1>2. IsFiniteSet(T)
  <2> HIDE DEF T, h
  <2> QED BY <1>1, FS_Surjection
<1>3. \A c \in T : IsFiniteSet(c)
  BY ColumnSize
<1> QED BY <1>2, <1>3, FS_UNION DEF Units

LEMMA UnitsSplit ==
  ASSUME NEW f, NEW s, IsFiniteSet(s), \A x \in s : f[x] \in Nat, NEW y \in s
  PROVE  Cardinality(Units(f, s)) = f[y] + Cardinality(Units(f, s \ {y}))
<1>1. IsFiniteSet(s \ {y}) /\ \A x \in s \ {y} : f[x] \in Nat
  BY FS_RemoveElement
<1>2. IsFiniteSet(Units(f, s \ {y}))
  BY <1>1, UnitsFinite
<1>3. Units(f, s) = Column(f, y) \cup Units(f, s \ {y})
  BY DEF Units
<1>4. Column(f, y) \cap Units(f, s \ {y}) = {}
  BY DEF Units, Column
<1>5. IsFiniteSet(Column(f, y)) /\ Cardinality(Column(f, y)) = f[y]
  BY ColumnSize
<1>6. Cardinality(Units(f, s \ {y})) \in Nat
  BY <1>2, FS_CardinalityType
<1> QED BY <1>2, <1>3, <1>4, <1>5, DisjointSizes

\* The sum of a function over a finite set is the number of its units: the
\* order in which the fold picks the elements does not matter.
LEMMA SumIsSize ==
  ASSUME NEW f, NEW S, IsFiniteSet(S), \A x \in S : f[x] \in Nat
  PROVE  SumFunctionOnSet(f, S) = Cardinality(Units(f, S))
<1> DEFINE g == CHOOSE h : Unfolds(h, f, S)
           size == [s \in SUBSET S |-> Cardinality(Units(f, s))]
<1>1. \A s \in SUBSET S : IsFiniteSet(s) /\ \A x \in s : f[x] \in Nat
  BY FS_Subset
<1>2. Cardinality(Units(f, {})) = 0
  BY FS_EmptySet DEF Units
<1>3. \A s \in SUBSET S :
        size[s] = IF s = {} THEN 0 ELSE f[Chosen(s)] + size[s \ {Chosen(s)}]
  <2> TAKE s \in SUBSET S
  <2>1. CASE s = {}
    BY <2>1, <1>2
  <2>2. CASE s # {}
    <3>1. Chosen(s) \in s /\ s \ {Chosen(s)} \in SUBSET S
      BY <2>2, ChosenFrom
    <3>2. Cardinality(Units(f, s)) = f[Chosen(s)] + Cardinality(Units(f, s \ {Chosen(s)}))
      BY <1>1, <3>1, UnitsSplit
    <3> QED BY <2>2, <3>1, <3>2
  <2> QED BY <2>1, <2>2
<1>4. Unfolds(size, f, S)
  BY <1>3 DEF Unfolds
<1>5. Unfolds(g, f, S)
  <2> HIDE DEF size
  <2> QED BY <1>4, Zenon
<1>6. \A s \in SUBSET S :
        g[s] = IF s = {} THEN 0 ELSE f[Chosen(s)] + g[s \ {Chosen(s)}]
  <2> HIDE DEF g
  <2> QED BY <1>5 DEF Unfolds
<1> DEFINE P == {s \in SUBSET S : g[s] = size[s]}
<1>7. {} \in P
  <2>1. {} \in SUBSET S
    OBVIOUS
  <2>2. g[{}] = 0 /\ size[{}] = 0
    <3> HIDE DEF g
    <3> QED BY <1>2, <1>6
  <2> HIDE DEF g, size
  <2> QED BY <2>1, <2>2
<1>8. \A s \in SUBSET S : s # {} /\ (\A x \in s : s \ {x} \in P) => s \in P
  <2> HIDE DEF g, size
  <2> QED BY <1>3, <1>6, ChosenFrom
<1>9. S \in P
  <2> HIDE DEF P
  <2> QED BY <1>7, <1>8, SubsetInduction
<1>10. g[S] = size[S]
  BY <1>9
<1> QED BY <1>10, SumUnfolds
------------------------------------------------------------------------------
LEMMA SumNat ==
  ASSUME NEW f, NEW S, IsFiniteSet(S), \A x \in S : f[x] \in Nat
  PROVE  SumFunctionOnSet(f, S) \in Nat
BY SumIsSize, UnitsFinite, FS_CardinalityType

LEMMA SumEmpty ==
  ASSUME NEW f
  PROVE  SumFunctionOnSet(f, {}) = 0
<1>1. IsFiniteSet({}) /\ Cardinality({}) = 0
  BY FS_EmptySet
<1>2. Units(f, {}) = {}
  BY DEF Units
<1>3. SumFunctionOnSet(f, {}) = Cardinality(Units(f, {}))
  BY <1>1, SumIsSize
<1> QED BY <1>1, <1>2, <1>3

\* Any element can be split off.
LEMMA SumSplit ==
  ASSUME NEW f, NEW S, IsFiniteSet(S), \A x \in S : f[x] \in Nat, NEW y \in S
  PROVE  SumFunctionOnSet(f, S) = f[y] + SumFunctionOnSet(f, S \ {y})
<1>1. IsFiniteSet(S \ {y}) /\ \A x \in S \ {y} : f[x] \in Nat
  BY FS_RemoveElement
<1>2. SumFunctionOnSet(f, S) = Cardinality(Units(f, S))
  BY SumIsSize
<1>3. SumFunctionOnSet(f, S \ {y}) = Cardinality(Units(f, S \ {y}))
  BY <1>1, SumIsSize
<1> QED BY <1>2, <1>3, UnitsSplit

\* A sum depends on the values of the function on the set only.
LEMMA SumSame ==
  ASSUME NEW f, NEW g, NEW S, IsFiniteSet(S), \A x \in S : f[x] \in Nat /\ g[x] = f[x]
  PROVE  SumFunctionOnSet(g, S) = SumFunctionOnSet(f, S)
<1>1. Units(g, S) = Units(f, S)
  BY DEF Units, Column
<1>2. SumFunctionOnSet(f, S) = Cardinality(Units(f, S))
  BY SumIsSize
<1>3. SumFunctionOnSet(g, S) = Cardinality(Units(g, S))
  BY SumIsSize
<1> QED BY <1>1, <1>2, <1>3

LEMMA SumMonotonic ==
  ASSUME NEW f, NEW g, NEW S, IsFiniteSet(S),
         \A x \in S : f[x] \in Nat /\ g[x] \in Nat /\ f[x] <= g[x]
  PROVE  SumFunctionOnSet(f, S) <= SumFunctionOnSet(g, S)
<1>1. Units(f, S) \subseteq Units(g, S)
  <2>1. ASSUME NEW x \in S PROVE Column(f, x) \subseteq Column(g, x)
    <3>1. 1..f[x] \subseteq 1..g[x]
      OBVIOUS
    <3> QED BY <3>1 DEF Column
  <2> QED BY <2>1 DEF Units
<1>2. SumFunctionOnSet(f, S) = Cardinality(Units(f, S))
  BY SumIsSize
<1>3. SumFunctionOnSet(g, S) = Cardinality(Units(g, S))
  BY SumIsSize
<1>4. IsFiniteSet(Units(g, S))
  BY UnitsFinite
<1> QED BY <1>1, <1>2, <1>3, <1>4, FS_Subset

\* A change at one element changes the sum by the same amount.
LEMMA SumChange ==
  ASSUME NEW f, NEW g, NEW S, IsFiniteSet(S), NEW y \in S,
         \A x \in S : f[x] \in Nat /\ g[x] \in Nat,
         \A x \in S \ {y} : g[x] = f[x]
  PROVE  SumFunctionOnSet(g, S) = SumFunctionOnSet(f, S) - f[y] + g[y]
<1>1. IsFiniteSet(S \ {y})
  BY FS_RemoveElement
<1>2. SumFunctionOnSet(f, S) = f[y] + SumFunctionOnSet(f, S \ {y})
  BY SumSplit
<1>3. SumFunctionOnSet(g, S) = g[y] + SumFunctionOnSet(g, S \ {y})
  BY SumSplit
<1>4. SumFunctionOnSet(g, S \ {y}) = SumFunctionOnSet(f, S \ {y})
  BY <1>1, SumSame
<1>5. SumFunctionOnSet(f, S \ {y}) \in Nat
  BY <1>1, SumNat
<1> QED BY <1>2, <1>3, <1>4, <1>5

LEMMA SumZero ==
  ASSUME NEW f, NEW S, IsFiniteSet(S), \A x \in S : f[x] = 0
  PROVE  SumFunctionOnSet(f, S) = 0
<1>1. Units(f, S) = {}
  <2>1. \A x \in S : Column(f, x) = {}
    BY DEF Column
  <2> QED BY <2>1 DEF Units
<1>2. SumFunctionOnSet(f, S) = Cardinality(Units(f, S))
  BY SumIsSize
<1> QED BY <1>1, <1>2, FS_EmptySet

\* The three that are needed most, for the sum of a whole function.
LEMMA SumWhole ==
  ASSUME NEW S, IsFiniteSet(S), NEW f \in [S -> Nat]
  PROVE  /\ SumFunction(f) = SumFunctionOnSet(f, S)
         /\ SumFunction(f) \in Nat
<1>1. SumFunction(f) = SumFunctionOnSet(f, S)
  BY DEF SumFunction
<1> QED BY <1>1, SumNat
\* Two elements split off.
LEMMA SumPair ==
  ASSUME NEW S, IsFiniteSet(S), NEW f \in [S -> Nat],
         NEW a \in S, NEW b \in S, a # b
  PROVE  /\ SumFunction(f) = f[a] + f[b] + SumFunctionOnSet(f, (S \ {a}) \ {b})
         /\ SumFunctionOnSet(f, (S \ {a}) \ {b}) \in Nat
<1> DEFINE A == S \ {a}
<1>1. IsFiniteSet(A) /\ IsFiniteSet(A \ {b}) /\ b \in A
  BY FS_RemoveElement
<1>2. \A x \in S : f[x] \in Nat
  OBVIOUS
<1>3. SumFunction(f) = SumFunctionOnSet(f, S)
  BY SumWhole
<1>4. SumFunctionOnSet(f, S) = f[a] + SumFunctionOnSet(f, A)
  BY <1>2, SumSplit
<1>5. \A x \in A : f[x] \in Nat
  OBVIOUS
<1> HIDE DEF A
<1>6. SumFunctionOnSet(f, A) = f[b] + SumFunctionOnSet(f, A \ {b})
  BY <1>1, <1>5, SumSplit
<1>7. SumFunctionOnSet(f, A \ {b}) \in Nat
  BY <1>1, <1>5, SumNat
<1>8. f[a] \in Nat /\ f[b] \in Nat
  BY <1>2
<1> DEFINE r == SumFunctionOnSet(f, A \ {b})
<1>9. SumFunction(f) = f[a] + (f[b] + r) /\ r \in Nat
  BY <1>3, <1>4, <1>6, <1>7
<1> HIDE DEF r
<1>10. SumFunction(f) = f[a] + f[b] + r
  BY <1>8, <1>9
<1> QED BY <1>9, <1>10 DEF A, r
------------------------------------------------------------------------------
\* The sum of the sums of two functions.
LEMMA SumPlus ==
  ASSUME NEW f, NEW g, NEW h, NEW S, IsFiniteSet(S),
         \A x \in S : f[x] \in Nat /\ g[x] \in Nat /\ h[x] = f[x] + g[x]
  PROVE  SumFunctionOnSet(h, S) = SumFunctionOnSet(f, S) + SumFunctionOnSet(g, S)
<1> DEFINE Both(s) ==
             SumFunctionOnSet(h, s) = SumFunctionOnSet(f, s) + SumFunctionOnSet(g, s)
           P == {s \in SUBSET S : Both(s)}
<1>1. {} \in P
  BY SumEmpty
<1>2. ASSUME NEW s \in SUBSET S, s # {}, \A x \in s : s \ {x} \in P PROVE s \in P
  <2>1. PICK x \in s : s \ {x} \in P
    BY <1>2
  <2>2. IsFiniteSet(s) /\ IsFiniteSet(s \ {x})
    BY FS_Subset, FS_RemoveElement
  <2>3. \A y \in s : f[y] \in Nat /\ g[y] \in Nat /\ h[y] \in Nat /\ h[y] = f[y] + g[y]
    OBVIOUS
  <2>4. SumFunctionOnSet(f, s) = f[x] + SumFunctionOnSet(f, s \ {x})
    BY <2>2, <2>3, SumSplit
  <2>5. SumFunctionOnSet(g, s) = g[x] + SumFunctionOnSet(g, s \ {x})
    BY <2>2, <2>3, SumSplit
  <2>6. SumFunctionOnSet(h, s) = h[x] + SumFunctionOnSet(h, s \ {x})
    BY <2>2, <2>3, SumSplit
  <2>7. SumFunctionOnSet(f, s \ {x}) \in Nat /\ SumFunctionOnSet(g, s \ {x}) \in Nat
    BY <2>2, <2>3, SumNat
  <2> QED BY <2>1, <2>3, <2>4, <2>5, <2>6, <2>7
<1>3. S \in P
  <2> HIDE DEF P
  <2> QED BY <1>1, <1>2, SubsetInduction
<1> QED BY <1>3

\* The sum over the rows of a table is the sum over its columns.
LEMMA SumSwap ==
  ASSUME NEW S, IsFiniteSet(S), NEW T, IsFiniteSet(T), NEW f \in [S -> [T -> Nat]]
  PROVE  SumFunction([x \in S |-> SumFunction(f[x])])
           = SumFunction([y \in T |-> SumFunction([x \in S |-> f[x][y]])])
<1> DEFINE rows == [x \in S |-> SumFunction(f[x])]
           column(y) == [x \in S |-> f[x][y]]
           columns(s) == [y \in T |-> SumFunctionOnSet(column(y), s)]
           P == {s \in SUBSET S :
                   SumFunctionOnSet(rows, s) = SumFunctionOnSet(columns(s), T)}
<1>1. \A x \in S : /\ rows[x] = SumFunctionOnSet(f[x], T) /\ rows[x] \in Nat
                   /\ \A y \in T : f[x][y] \in Nat
  BY SumWhole
<1>2. {} \in P
  <2>1. \A y \in T : columns({})[y] = 0
    BY SumEmpty
  <2>2. SumFunctionOnSet(columns({}), T) = 0
    <3> HIDE DEF columns
    <3> QED BY <2>1, SumZero
  <2>3. SumFunctionOnSet(rows, {}) = 0
    BY SumEmpty
  <2> QED BY <2>2, <2>3
<1>3. ASSUME NEW s \in SUBSET S, s # {}, \A x \in s : s \ {x} \in P PROVE s \in P
  <2>1. PICK x \in s : s \ {x} \in P
    BY <1>3
  <2>2. IsFiniteSet(s) /\ IsFiniteSet(s \ {x})
    BY FS_Subset, FS_RemoveElement
  <2>3. SumFunctionOnSet(rows, s) = rows[x] + SumFunctionOnSet(rows, s \ {x})
    <3>1. \A z \in s : rows[z] \in Nat
      BY <1>1
    <3> HIDE DEF rows, columns, P
    <3> QED BY <2>1, <2>2, <3>1, SumSplit
  <2>4. ASSUME NEW y \in T
        PROVE  /\ columns(s)[y] = f[x][y] + columns(s \ {x})[y]
               /\ columns(s \ {x})[y] \in Nat
    <3>1. \A z \in s : column(y)[z] \in Nat
      BY <1>1
    <3>2. column(y)[x] = f[x][y]
      OBVIOUS
    <3> HIDE DEF column
    <3>3. SumFunctionOnSet(column(y), s) = column(y)[x] + SumFunctionOnSet(column(y), s \ {x})
      BY <2>2, <3>1, SumSplit
    <3>4. SumFunctionOnSet(column(y), s \ {x}) \in Nat
      BY <2>2, <3>1, SumNat
    <3> QED BY <3>2, <3>3, <3>4
  <2>5. SumFunctionOnSet(columns(s), T)
          = SumFunctionOnSet(f[x], T) + SumFunctionOnSet(columns(s \ {x}), T)
    <3>1. \A y \in T : /\ f[x][y] \in Nat /\ columns(s \ {x})[y] \in Nat
                      /\ columns(s)[y] = f[x][y] + columns(s \ {x})[y]
      BY <1>1, <2>4
    <3> DEFINE row == f[x]
               less == columns(s \ {x})
               all == columns(s)
    <3>2. \A y \in T : row[y] \in Nat /\ less[y] \in Nat /\ all[y] = row[y] + less[y]
      BY <3>1
    <3> HIDE DEF row, less, all
    <3>3. SumFunctionOnSet(all, T) = SumFunctionOnSet(row, T) + SumFunctionOnSet(less, T)
      BY <3>2, SumPlus
    <3> QED BY <3>3 DEF row, less, all
  <2> HIDE DEF rows, columns
  <2> QED BY <1>1, <2>1, <2>3, <2>5
<1>4. S \in P
  <2> HIDE DEF P
  <2> QED BY <1>2, <1>3, SubsetInduction
<1>5. columns(S) = [y \in T |-> SumFunction(column(y))]
  BY DEF SumFunction
<1>6. SumFunction(rows) = SumFunctionOnSet(rows, S)
      /\ SumFunction(columns(S)) = SumFunctionOnSet(columns(S), T)
  BY DEF SumFunction
<1> HIDE DEF rows, columns
<1>7. SumFunction(rows) = SumFunction(columns(S))
  BY <1>4, <1>6
<1> QED BY <1>5, <1>7 DEF rows
------------------------------------------------------------------------------
(* Arithmetic modulo w.                                                     *)

LEMMA Quotient ==
  ASSUME NEW a \in Int, NEW w \in Nat \ {0}
  PROVE  /\ a \div w \in Int /\ a % w \in 0..w - 1
         /\ a = w * (a \div w) + (a % w)
OBVIOUS

\* A quotient and a remainder within 0..w - 1 are the quotient and remainder.
LEMMA QuotientUnique ==
  ASSUME NEW w \in Nat \ {0}, NEW q \in Int, NEW k \in Int,
         NEW r \in 0..w - 1, NEW l \in 0..w - 1, w * q + r = w * k + l
  PROVE  r = l
<1>1. w * (q - k) = l - r
  OBVIOUS
<1>2. CASE q - k >= 1
  <2>1. w * (q - k) >= w
    BY <1>2
  <2> QED BY <1>1, <2>1
<1>3. CASE q - k <= -1
  <2>1. w * (q - k) <= -w
    BY <1>3
  <2> QED BY <1>1, <2>1
<1>4. CASE q = k
  BY <1>4
<1> QED BY <1>2, <1>3, <1>4

\* Numbers that differ by a multiple of w are the same modulo w.
LEMMA ModShift ==
  ASSUME NEW w \in Nat \ {0}, NEW a \in Int, NEW k \in Int
  PROVE  (a + w * k) % w = a % w
<1> DEFINE b == a + w * k
<1>1. b \in Int
  OBVIOUS
<1>2. a = w * (a \div w) + (a % w) /\ a \div w \in Int /\ a % w \in 0..w - 1
  BY Quotient
<1>3. b = w * (b \div w) + (b % w) /\ b \div w \in Int /\ b % w \in 0..w - 1
  BY <1>1, Quotient
<1>4. b = w * ((a \div w) + k) + (a % w)
  BY <1>2
<1>5. (a \div w) + k \in Int
  BY <1>2
<1> HIDE DEF b
<1>6. b % w = a % w
  BY <1>2, <1>3, <1>4, <1>5, QuotientUnique
<1> QED BY <1>6 DEF b

\* A summand may be taken modulo w first.
LEMMA ModPlus ==
  ASSUME NEW w \in Nat \ {0}, NEW a \in Int, NEW b \in Int
  PROVE  ((a % w) + b) % w = (a + b) % w
<1>1. a = w * (a \div w) + (a % w) /\ a \div w \in Int /\ a % w \in Int
  BY Quotient
<1>2. a + b = ((a % w) + b) + w * (a \div w) /\ (a % w) + b \in Int
  BY <1>1
<1>3. (((a % w) + b) + w * (a \div w)) % w = ((a % w) + b) % w
  BY <1>1, <1>2, ModShift
<1> QED BY <1>2, <1>3

\* What is the same modulo w stays so when the same is added.
LEMMA ModSame ==
  ASSUME NEW w \in Nat \ {0}, NEW a \in Int, NEW b \in Int, NEW c \in Int, a % w = b % w
  PROVE  (a + c) % w = (b + c) % w
<1>1. ((a % w) + c) % w = (a + c) % w
  BY ModPlus
<1>2. ((b % w) + c) % w = (b + c) % w
  BY ModPlus
<1> QED BY <1>1, <1>2

LEMMA ModSmall ==
  ASSUME NEW w \in Nat \ {0}, NEW a \in 0..w - 1
  PROVE  a % w = a
OBVIOUS

\* A count and a counter that wraps at w go on agreeing modulo w.
LEMMA ModStep ==
  ASSUME NEW w \in Nat \ {0}, NEW s \in Int, NEW q \in Int, NEW m \in Int,
         s % w = (q + m) % w
  PROVE  (s + 1) % w = (((q + 1) % w) + m) % w
<1> DEFINE a == q + m
           b == q + 1
<1>1. a \in Int /\ b \in Int /\ a + 1 = b + m /\ s % w = a % w /\ 1 \in Int
  <2>1. \A i, j \in Int : i + j \in Int /\ i + 1 \in Int /\ (i + j) + 1 = (i + 1) + j
    OBVIOUS
  <2>2. a \in Int /\ b \in Int /\ a + 1 = b + m
    BY <2>1, Zenon
  <2>3. 1 \in Int
    OBVIOUS
  <2> QED BY <2>2, <2>3, Zenon
<1> HIDE DEF a, b
<1>2. (s + 1) % w = (a + 1) % w
  <2>1. s % w = a % w /\ 1 \in Int /\ a \in Int
    BY <1>1
  <2> QED BY <2>1, ModSame, Zenon
<1>3. ((b % w) + m) % w = (b + m) % w
  BY <1>1, ModPlus, Zenon
<1>4. (s + 1) % w = ((b % w) + m) % w
  BY <1>1, <1>2, <1>3
<1> QED BY <1>4 DEF b
\* A difference may be taken of the remainders.
LEMMA ModMinus ==
  ASSUME NEW w \in Nat \ {0}, NEW a \in Int, NEW b \in Int
  PROVE  (a - b) % w = ((a % w) - (b % w)) % w
<1>1. a = w * (a \div w) + (a % w) /\ a \div w \in Int /\ a % w \in Int
  BY Quotient
<1>2. b = w * (b \div w) + (b % w) /\ b \div w \in Int /\ b % w \in Int
  BY Quotient
<1> DEFINE c == (a % w) - (b % w)
           k == (a \div w) - (b \div w)
<1>3. c \in Int /\ k \in Int /\ a - b = c + w * k
  BY <1>1, <1>2
<1> HIDE DEF c, k
<1>4. (c + w * k) % w = c % w
  BY <1>3, ModShift
<1> QED BY <1>3, <1>4 DEF c

LEMMA ModEqual ==
  ASSUME NEW w \in Nat \ {0}, NEW a \in 0..w - 1, NEW b \in 0..w - 1,
         0 % w = (b - a) % w
  PROVE  a = b
<1> DEFINE k == (b - a) \div w
<1>1. b - a = w * k + ((b - a) % w) /\ k \in Int /\ (b - a) % w = 0
  OBVIOUS
<1> HIDE DEF k
<1>2. w * 0 + b = w * k + a
  BY <1>1
<1> QED BY <1>1, <1>2, QuotientUnique

\* Summands that are the same modulo w have sums that are.
LEMMA SumMod ==
  ASSUME NEW w \in Nat \ {0}, NEW f, NEW g, NEW S, IsFiniteSet(S),
         \A x \in S : f[x] \in Nat /\ g[x] \in Nat /\ f[x] % w = g[x] % w
  PROVE  SumFunctionOnSet(f, S) % w = SumFunctionOnSet(g, S) % w
<1> DEFINE P == {s \in SUBSET S : SumFunctionOnSet(f, s) % w = SumFunctionOnSet(g, s) % w}
<1>1. {} \in P
  BY SumEmpty
<1>2. ASSUME NEW s \in SUBSET S, s # {}, \A x \in s : s \ {x} \in P PROVE s \in P
  <2>1. PICK x \in s : s \ {x} \in P
    BY <1>2
  <2>2. IsFiniteSet(s) /\ IsFiniteSet(s \ {x})
    BY FS_Subset, FS_RemoveElement
  <2>3. \A y \in s : f[y] \in Nat /\ g[y] \in Nat
    OBVIOUS
  <2> DEFINE a == SumFunctionOnSet(f, s \ {x})
             b == SumFunctionOnSet(g, s \ {x})
  <2>4. SumFunctionOnSet(f, s) = f[x] + a
    BY <2>2, <2>3, SumSplit
  <2>5. SumFunctionOnSet(g, s) = g[x] + b
    BY <2>2, <2>3, SumSplit
  <2>6. a \in Int /\ b \in Int
    <3>1. a \in Nat /\ b \in Nat
      BY <2>2, <2>3, SumNat
    <3> QED BY <3>1
  <2>7. a % w = b % w
    BY <2>1
  <2>8. f[x] \in Int /\ g[x] \in Int /\ f[x] % w = g[x] % w
    BY <2>3
  <2> HIDE DEF a, b, P
  <2>9. (f[x] + a) % w = (g[x] + a) % w
    BY <2>6, <2>8, ModSame
  <2>10. (a + g[x]) % w = (b + g[x]) % w
    BY <2>6, <2>7, <2>8, ModSame
  <2>11. a + g[x] = g[x] + a /\ b + g[x] = g[x] + b
    BY <2>6, <2>8
  <2>12. SumFunctionOnSet(f, s) % w = SumFunctionOnSet(g, s) % w
    BY <2>4, <2>5, <2>9, <2>10, <2>11
  <2> QED BY <2>12 DEF P
<1>3. S \in P
  <2> HIDE DEF P
  <2> QED BY <1>1, <1>2, SubsetInduction
<1> QED BY <1>3
==============================================================================
