--------------------------- MODULE WarehousesProofs ---------------------------
(***************************************************************************)
(* Proofs about Warehouses: types, one shipment of an order at a           *)
(* warehouse, and the conservation of goods while warehouses are merged    *)
(* beside the shipments.                                                   *)
(***************************************************************************)
EXTENDS Warehouses, ShipmentsProofs, FiniteSetTheorems, TLAPS

------------------------------------------------------------------------------
(* Sums, by the recursion that SumFunction is defined with.                  *)

(* Induction over the subsets of a finite set, for a set B of subsets. *)
LEMMA SubsetInduction ==
  ASSUME NEW S, IsFiniteSet(S), NEW B \in SUBSET (SUBSET S),
         \A T \in SUBSET S : (\A U \in SUBSET T : U # T => U \in B) => T \in B
  PROVE  \A T \in SUBSET S : T \in B
<1>1. IsWellFoundedOn(StrictSubsetOrdering(S), FiniteSubsetsOf(S))
  BY FS_StrictSubsetOrderingWellFounded
<1>2. SUBSET S = FiniteSubsetsOf(S)
  BY FS_Subset DEF FiniteSubsetsOf
<1> DEFINE Bad == (SUBSET S) \ B
<1>3. SUFFICES ASSUME Bad # {} PROVE FALSE  OBVIOUS
<1>4. Bad \subseteq FiniteSubsetsOf(S)  BY <1>2
<1> HIDE DEF Bad
<1>5. PICK T \in Bad : \A U \in Bad : ~(<<U, T>> \in StrictSubsetOrdering(S))
  BY <1>1, <1>3, <1>4, WFMin
<1> USE DEF Bad
<1>6. ASSUME NEW U \in SUBSET T, U # T PROVE U \in B
  <2>1. U \in SUBSET S /\ T \in SUBSET S  OBVIOUS
  <2>2. <<U, T>> \in StrictSubsetOrdering(S)  BY <1>6, <2>1 DEF StrictSubsetOrdering
  <2> QED BY <1>5, <2>1, <2>2
<1>7. T \in SUBSET S /\ T \notin B  BY <1>5
<1>8. T \in B  BY <1>6, <1>7
<1> QED BY <1>7, <1>8

(* g solves the recursion that SumFunction(f) is defined with. *)
Folds(g, f, D) ==
  g = [s \in SUBSET D |->
         IF s = {} THEN 0
         ELSE LET x == CHOOSE x \in s : TRUE IN f[x] + g[s \ {x}]]

(* The recursion over the subsets of a finite set has a solution.            *)
LEMMA FoldExists ==
  ASSUME NEW D, IsFiniteSet(D), NEW f \in [D -> Int]
  PROVE  \E g : Folds(g, f, D)
<1> DEFINE Pick(s) == CHOOSE x \in s : TRUE
           Fits(g, s) == g[s] = IF s = {} THEN 0 ELSE f[Pick(s)] + g[s \ {Pick(s)}]
           B == {T \in SUBSET D :
                   \E g \in [SUBSET D -> Int] :
                     \A s \in SUBSET D : Cardinality(s) <= Cardinality(T) => Fits(g, s)}
<1>1. \A s \in SUBSET D : IsFiniteSet(s) /\ Cardinality(s) \in Nat
  BY FS_Subset, FS_CardinalityType
<1>2. ASSUME NEW s \in SUBSET D, s # {}
      PROVE  /\ Pick(s) \in s /\ s \ {Pick(s)} \in SUBSET D
             /\ Cardinality(s \ {Pick(s)}) = Cardinality(s) - 1
  <2>1. Pick(s) \in s  BY <1>2
  <2> QED BY <1>1, <2>1, FS_RemoveElement
<1>3. \A s \in SUBSET D : Cardinality(s) = 0 <=> s = {}
  BY <1>1, FS_EmptySet
<1> HIDE DEF Pick
<1>4. ASSUME NEW T \in SUBSET D, \A U \in SUBSET T : U # T => U \in B
      PROVE  T \in B
  <2>1. CASE T = {}
    <3> DEFINE g == [s \in SUBSET D |-> 0]
    <3>1. g \in [SUBSET D -> Int]  OBVIOUS
    <3>2. ASSUME NEW s \in SUBSET D, Cardinality(s) <= Cardinality(T) PROVE Fits(g, s)
      <4>1. s = {}  BY <1>1, <1>3, <2>1, <3>2
      <4> QED BY <4>1
    <3> QED BY <3>1, <3>2
  <2>2. CASE T # {}
    <3> DEFINE n == Cardinality(T)
    <3>1. T \ {Pick(T)} \in B /\ Cardinality(T \ {Pick(T)}) = n - 1 /\ n \in Nat
      BY <1>1, <1>2, <1>4, <2>2
    <3>2. PICK g \in [SUBSET D -> Int] :
            \A s \in SUBSET D : Cardinality(s) <= n - 1 => Fits(g, s)
      BY <3>1
    <3> HIDE DEF n
    <3> DEFINE h == [s \in SUBSET D |->
                       IF Cardinality(s) <= n - 1 THEN g[s]
                       ELSE IF s = {} THEN 0 ELSE f[Pick(s)] + g[s \ {Pick(s)}]]
    <3>3. h \in [SUBSET D -> Int]
      <4>1. ASSUME NEW s \in SUBSET D PROVE h[s] \in Int
        <5>1. CASE s = {}  BY <5>1
        <5>2. CASE s # {}
          <6>1. f[Pick(s)] \in Int /\ g[s \ {Pick(s)}] \in Int  BY <1>2, <5>2
          <6> QED BY <6>1
        <5> QED BY <5>1, <5>2
      <4> QED BY <4>1
    <3>4. ASSUME NEW s \in SUBSET D, Cardinality(s) <= n PROVE Fits(h, s)
      <4>1. CASE s = {}
        <5>1. Fits(g, s) \/ ~(Cardinality(s) <= n - 1)  BY <3>2
        <5> QED BY <4>1, <5>1
      <4>2. CASE s # {}
        <5>1. /\ s \ {Pick(s)} \in SUBSET D
              /\ Cardinality(s \ {Pick(s)}) = Cardinality(s) - 1
              /\ Cardinality(s) \in Nat
          BY <1>1, <1>2, <4>2
        <5>2. h[s \ {Pick(s)}] = g[s \ {Pick(s)}]  BY <3>1, <3>4, <5>1
        <5>3. CASE Cardinality(s) <= n - 1
          <6>1. Fits(g, s)  BY <3>2, <5>3
          <6> QED BY <4>2, <5>2, <5>3, <6>1
        <5>4. CASE ~(Cardinality(s) <= n - 1)
          BY <4>2, <5>2, <5>4
        <5> QED BY <5>3, <5>4
      <4> QED BY <4>1, <4>2
    <3> HIDE DEF h, Fits
    <3>5. \A s \in SUBSET D : Cardinality(s) <= Cardinality(T) => Fits(h, s)
      BY <3>4 DEF n
    <3> QED BY <3>3, <3>5
  <2> QED BY <2>1, <2>2
<1>5. B \in SUBSET (SUBSET D)  OBVIOUS
<1> HIDE DEF B
<1>6. D \in B
  <2>1. \A T \in SUBSET D : T \in B  BY <1>4, <1>5, SubsetInduction
  <2> QED BY <2>1
<1>7. PICK g \in [SUBSET D -> Int] :
        \A s \in SUBSET D : Cardinality(s) <= Cardinality(D) => Fits(g, s)
  BY <1>6 DEF B
<1>8. \A s \in SUBSET D : Fits(g, s)
  BY <1>1, <1>7, FS_Subset
<1>9. g = [s \in SUBSET D |-> IF s = {} THEN 0 ELSE f[Pick(s)] + g[s \ {Pick(s)}]]
  BY <1>8
<1> QED BY <1>9 DEF Pick, Folds

(* h adds up f over the subsets of D, an element at a time. *)
Adds(h, f, D) ==
  /\ h \in [SUBSET D -> Int] /\ h[{}] = 0
  /\ \A T \in SUBSET D : \A x \in D \ T : h[T \cup {x}] = h[T] + f[x]

LEMMA Unfold ==
  ASSUME NEW f, NEW g, Folds(g, f, DOMAIN f)
  PROVE  \E h : Folds(h, f, DOMAIN f) /\ SumFunction(f) = h[DOMAIN f]
BY DEF Folds, SumFunction, SumFunctionOnSet, FoldFunctionOnSet, MapThenFoldSet

(* SumFunction(f) adds up f in any order.                                    *)
LEMMA SumAdds ==
  ASSUME NEW D, IsFiniteSet(D), NEW f \in [D -> Int]
  PROVE  \E h : Adds(h, f, D) /\ SumFunction(f) = h[D]
<1> DEFINE Pick(s) == CHOOSE x \in s : TRUE
<1>1. PICK h : Folds(h, f, D) /\ SumFunction(f) = h[D]
  <2>1. D = DOMAIN f  OBVIOUS
  <2>2. \E g : Folds(g, f, DOMAIN f)  BY <2>1, FoldExists
  <2> QED BY <2>1, <2>2, Unfold
<1>2. ASSUME NEW s \in SUBSET D, s # {}
      PROVE  Pick(s) \in s /\ h[s] = f[Pick(s)] + h[s \ {Pick(s)}]
  BY <1>1, <1>2 DEF Folds
<1>3. h[{}] = 0 /\ DOMAIN h = SUBSET D  BY <1>1 DEF Folds
<1> HIDE DEF Pick
<1>5. h \in [SUBSET D -> Int]
  <2> DEFINE B == {T \in SUBSET D : h[T] \in Int}
  <2>1. ASSUME NEW T \in SUBSET D, \A U \in SUBSET T : U # T => U \in B
        PROVE  T \in B
    <3>1. CASE T = {}  BY <1>3, <3>1
    <3>2. CASE T # {}
      <4>1. Pick(T) \in D /\ h[T] = f[Pick(T)] + h[T \ {Pick(T)}] /\ T \ {Pick(T)} \in B
        BY <1>2, <2>1, <3>2
      <4> QED BY <4>1
    <3> QED BY <3>1, <3>2
  <2>2. B \in SUBSET (SUBSET D)  OBVIOUS
  <2> HIDE DEF B
  <2>3. \A T \in SUBSET D : T \in B  BY <2>1, <2>2, SubsetInduction
  <2>4. \A T \in SUBSET D : h[T] \in Int  BY <2>3 DEF B
  <2> QED BY <1>1, <2>4 DEF Folds
<1>6. \A T \in SUBSET D : \A x \in D \ T : h[T \cup {x}] = h[T] + f[x]
  <2> DEFINE B == {T \in SUBSET D : \A x \in D \ T : h[T \cup {x}] = h[T] + f[x]}
  <2>1. ASSUME NEW T \in SUBSET D, \A U \in SUBSET T : U # T => U \in B
        PROVE  T \in B
    <3> SUFFICES ASSUME NEW x \in D \ T PROVE h[T \cup {x}] = h[T] + f[x]
      OBVIOUS
    <3> DEFINE c == Pick(T \cup {x})
    <3>1. c \in T \cup {x} /\ h[T \cup {x}] = f[c] + h[(T \cup {x}) \ {c}]
      BY <1>2
    <3> HIDE DEF c
    <3>2. f[x] \in Int /\ h[T] \in Int  BY <1>5
    <3>3. CASE c = x
      <4>1. (T \cup {x}) \ {c} = T  BY <3>3
      <4>2. h[(T \cup {x}) \ {c}] = h[T]  BY <4>1
      <4>3. h[T \cup {x}] = f[x] + h[T]  BY <3>1, <3>3, <4>2
      <4> QED BY <3>2, <4>3
    <3>4. CASE c # x
      <4>1. c \in T /\ c \in D  BY <3>1, <3>4
      <4>2. T \ {c} \in B  BY <2>1, <4>1
      <4>3. (T \cup {x}) \ {c} = (T \ {c}) \cup {x} /\ x \in D \ (T \ {c})  BY <3>4
      <4>4. (T \ {c}) \cup {c} = T /\ c \in D \ (T \ {c})  BY <4>1
      <4>5. h[(T \ {c}) \cup {x}] = h[T \ {c}] + f[x]  BY <4>2, <4>3
      <4>6. h[(T \ {c}) \cup {c}] = h[T \ {c}] + f[c]  BY <4>2, <4>4
      <4>7. h[T \ {c}] \in Int /\ f[c] \in Int  BY <1>5, <4>1
      <4>8. h[T \cup {x}] = f[c] + h[(T \ {c}) \cup {x}]  BY <3>1, <4>3
      <4>9. h[T] = h[T \ {c}] + f[c]  BY <4>4, <4>6
      <4> QED BY <3>2, <4>5, <4>7, <4>8, <4>9
    <3> QED BY <3>3, <3>4
  <2>2. B \in SUBSET (SUBSET D)  OBVIOUS
  <2> HIDE DEF B
  <2>3. \A T \in SUBSET D : T \in B  BY <2>1, <2>2, SubsetInduction
  <2> QED BY <2>3 DEF B
<1> QED BY <1>1, <1>3, <1>5, <1>6 DEF Adds

(* A sum of integers is an integer.                                          *)
LEMMA SumType ==
  ASSUME NEW D, IsFiniteSet(D), NEW f \in [D -> Int]
  PROVE  SumFunction(f) \in Int
<1>1. PICK h : Adds(h, f, D) /\ SumFunction(f) = h[D]  BY SumAdds
<1> QED BY <1>1 DEF Adds

(* Sums are added up element by element. *)
LEMMA SumPlus ==
  ASSUME NEW D, IsFiniteSet(D), NEW f \in [D -> Int], NEW g \in [D -> Int]
  PROVE  SumFunction([x \in D |-> f[x] + g[x]]) = SumFunction(f) + SumFunction(g)
<1> DEFINE e == [x \in D |-> f[x] + g[x]]
<1>1. e \in [D -> Int]  OBVIOUS
<1>2. \A x \in D : e[x] = f[x] + g[x]  OBVIOUS
<1> HIDE DEF e
<1>3. PICK h : Adds(h, e, D) /\ SumFunction(e) = h[D]  BY <1>1, SumAdds
<1>4. PICK i : Adds(i, f, D) /\ SumFunction(f) = i[D]  BY SumAdds
<1>5. PICK j : Adds(j, g, D) /\ SumFunction(g) = j[D]  BY SumAdds
<1> DEFINE B == {T \in SUBSET D : h[T] = i[T] + j[T]}
<1>6. ASSUME NEW T \in SUBSET D, \A U \in SUBSET T : U # T => U \in B
      PROVE  T \in B
  <2>1. CASE T = {}  BY <1>3, <1>4, <1>5, <2>1 DEF Adds
  <2>2. CASE T # {}
    <3>1. PICK x \in T : TRUE  BY <2>2
    <3> DEFINE U == T \ {x}
    <3>2. U \in B /\ U \in SUBSET D /\ x \in D \ U /\ U \cup {x} = T  BY <1>6, <3>1
    <3>3. h[U] = i[U] + j[U]  BY <3>2
    <3> HIDE DEF U
    <3>4. /\ h[T] = h[U] + e[x] /\ i[T] = i[U] + f[x] /\ j[T] = j[U] + g[x]
          /\ i[U] \in Int /\ j[U] \in Int /\ f[x] \in Int /\ g[x] \in Int
      BY <1>3, <1>4, <1>5, <3>2 DEF Adds
    <3> QED BY <1>2, <3>2, <3>3, <3>4
  <2> QED BY <2>1, <2>2
<1>7. B \in SUBSET (SUBSET D)  OBVIOUS
<1> HIDE DEF B
<1>8. D \in B  BY <1>6, <1>7, SubsetInduction
<1> QED BY <1>3, <1>4, <1>5, <1>8 DEF B, e

(* A sum grows with its terms.                                               *)
LEMMA SumMonotone ==
  ASSUME NEW D, IsFiniteSet(D), NEW f \in [D -> Int], NEW g \in [D -> Int],
         \A x \in D : f[x] <= g[x]
  PROVE  SumFunction(f) <= SumFunction(g)
<1>4. PICK i : Adds(i, f, D) /\ SumFunction(f) = i[D]  BY SumAdds
<1>5. PICK j : Adds(j, g, D) /\ SumFunction(g) = j[D]  BY SumAdds
<1> DEFINE B == {T \in SUBSET D : i[T] <= j[T]}
<1>6. ASSUME NEW T \in SUBSET D, \A U \in SUBSET T : U # T => U \in B
      PROVE  T \in B
  <2>1. CASE T = {}  BY <1>4, <1>5, <2>1 DEF Adds
  <2>2. CASE T # {}
    <3>1. PICK x \in T : TRUE  BY <2>2
    <3> DEFINE U == T \ {x}
    <3>2. U \in B /\ U \in SUBSET D /\ x \in D \ U /\ U \cup {x} = T  BY <1>6, <3>1
    <3>3. i[U] <= j[U] /\ f[x] <= g[x]  BY <3>2
    <3> HIDE DEF U
    <3>4. /\ i[T] = i[U] + f[x] /\ j[T] = j[U] + g[x]
          /\ i[U] \in Int /\ j[U] \in Int /\ f[x] \in Int /\ g[x] \in Int
      BY <1>4, <1>5, <3>2 DEF Adds
    <3> QED BY <3>3, <3>4
  <2> QED BY <2>1, <2>2
<1>7. B \in SUBSET (SUBSET D)  OBVIOUS
<1> HIDE DEF B
<1>8. D \in B  BY <1>6, <1>7, SubsetInduction
<1> QED BY <1>4, <1>5, <1>8 DEF B

(* A function that is 0 but at x. *)
LEMMA SumPoint ==
  ASSUME NEW D, IsFiniteSet(D), NEW f \in [D -> Int], NEW x \in D,
         \A y \in D \ {x} : f[y] = 0
  PROVE  SumFunction(f) = f[x]
<1>1. PICK i : Adds(i, f, D) /\ SumFunction(f) = i[D]  BY SumAdds
<1> DEFINE B == {T \in SUBSET D : i[T] = IF x \in T THEN f[x] ELSE 0}
<1>2. ASSUME NEW T \in SUBSET D, \A U \in SUBSET T : U # T => U \in B
      PROVE  T \in B
  <2>1. CASE T = {}  BY <1>1, <2>1 DEF Adds
  <2>2. CASE T # {}
    <3>1. PICK y \in T : TRUE  BY <2>2
    <3> DEFINE U == T \ {y}
    <3>2. U \in B /\ U \in SUBSET D /\ y \in D \ U /\ U \cup {y} = T  BY <1>2, <3>1
    <3>3. i[U] = IF x \in U THEN f[x] ELSE 0  BY <3>2
    <3>4. x \in T <=> x \in U \/ x = y  BY <3>2
    <3> HIDE DEF U
    <3>5. i[T] = i[U] + f[y] /\ i[U] \in Int /\ f[y] \in Int /\ f[x] \in Int
      BY <1>1, <3>2 DEF Adds
    <3>6. y # x => f[y] = 0  BY <3>2
    <3> QED BY <3>2, <3>3, <3>4, <3>5, <3>6
  <2> QED BY <2>1, <2>2
<1>3. B \in SUBSET (SUBSET D)  OBVIOUS
<1> HIDE DEF B
<1>4. D \in B  BY <1>2, <1>3, SubsetInduction
<1> QED BY <1>1, <1>4 DEF B

(* f and g differ at x at most. *)
LEMMA PointChange ==
  ASSUME NEW D, IsFiniteSet(D), NEW f \in [D -> Int], NEW g \in [D -> Int], NEW x \in D,
         \A y \in D \ {x} : g[y] = f[y]
  PROVE  SumFunction(g) = SumFunction(f) + g[x] - f[x]
<1> DEFINE h == [y \in D |-> g[y] - f[y]]
           s == [y \in D |-> f[y] + h[y]]
<1>1. h \in [D -> Int] /\ \A y \in D \ {x} : h[y] = 0  OBVIOUS
<1>2. s = g  OBVIOUS
<1>3. h[x] = g[x] - f[x]  OBVIOUS
<1>4. SumFunction(h) = h[x]
  <2> HIDE DEF h
  <2> QED BY <1>1, SumPoint
<1>5. SumFunction(s) = SumFunction(f) + SumFunction(h)
  <2>1. h \in [D -> Int]  BY <1>1
  <2> HIDE DEF h
  <2> QED BY <2>1, SumPlus
<1>6. SumFunction(f) \in Int /\ g[x] \in Int /\ f[x] \in Int  BY SumType
<1> HIDE DEF h, s
<1> QED BY <1>2, <1>3, <1>4, <1>5, <1>6

(* g is at most f but at x. *)
LEMMA PointAtMost ==
  ASSUME NEW D, IsFiniteSet(D), NEW f \in [D -> Int], NEW g \in [D -> Int], NEW x \in D,
         \A y \in D \ {x} : g[y] <= f[y]
  PROVE  SumFunction(g) <= SumFunction(f) + g[x] - f[x]
<1> DEFINE h == [y \in D |-> IF y = x THEN g[x] ELSE f[y]]
<1>1. h \in [D -> Int] /\ (\A y \in D \ {x} : h[y] = f[y]) /\ h[x] = g[x]  OBVIOUS
<1>2. \A y \in D : g[y] <= h[y]
  <2> SUFFICES ASSUME NEW y \in D PROVE g[y] <= h[y]  OBVIOUS
  <2>1. CASE y = x
    <3>1. h[y] = g[y] /\ g[y] \in Int  BY <2>1
    <3> HIDE DEF h
    <3> QED BY <3>1
  <2>2. CASE y # x
    <3>1. h[y] = f[y] /\ g[y] <= f[y]  BY <2>2
    <3> HIDE DEF h
    <3> QED BY <3>1
  <2> QED BY <2>1, <2>2
<1> HIDE DEF h
<1>3. SumFunction(g) <= SumFunction(h)  BY <1>1, <1>2, SumMonotone
<1>4. SumFunction(h) = SumFunction(f) + h[x] - f[x]  BY <1>1, PointChange
<1>5. /\ SumFunction(f) \in Int /\ SumFunction(g) \in Int /\ SumFunction(h) \in Int
      /\ g[x] \in Int /\ f[x] \in Int
  BY <1>1, SumType
<1> QED BY <1>1, <1>3, <1>4, <1>5

(* A sum of zeros.                                                           *)
LEMMA SumNothing ==
  ASSUME NEW D, IsFiniteSet(D), NEW f \in [D -> Int], \A x \in D : f[x] = 0
  PROVE  SumFunction(f) = 0
<1> DEFINE s == [x \in D |-> f[x] + f[x]]
<1>1. s = f
  <2>1. \A x \in D : f[x] + f[x] = f[x]  OBVIOUS
  <2> QED BY <2>1
<1> HIDE DEF s
<1>2. SumFunction(s) = SumFunction(f) + SumFunction(f)  BY SumPlus DEF s
<1>3. SumFunction(f) \in Int  BY SumType
<1> QED BY <1>1, <1>2, <1>3

(* f and g differ at x and y at most. *)
LEMMA PairChange ==
  ASSUME NEW D, IsFiniteSet(D), NEW f \in [D -> Int], NEW g \in [D -> Int],
         NEW x \in D, NEW y \in D, x # y, \A z \in D \ {x, y} : g[z] = f[z]
  PROVE  SumFunction(g) = SumFunction(f) + (g[x] + g[y]) - (f[x] + f[y])
<1> DEFINE h == [z \in D |-> IF z = x THEN g[x] ELSE f[z]]
<1>1. /\ h \in [D -> Int] /\ h[x] = g[x] /\ h[y] = f[y]
      /\ \A z \in D \ {x} : h[z] = f[z]
  OBVIOUS
<1> HIDE DEF h
<1>2. \A z \in D \ {y} : g[z] = h[z]
  <2> SUFFICES ASSUME NEW z \in D \ {y} PROVE g[z] = h[z]  OBVIOUS
  <2>1. CASE z = x  BY <1>1, <2>1
  <2>2. CASE z # x  BY <1>1, <2>2
  <2> QED BY <2>1, <2>2
<1>3. SumFunction(h) = SumFunction(f) + h[x] - f[x]  BY <1>1, PointChange
<1>4. SumFunction(g) = SumFunction(h) + g[y] - h[y]  BY <1>1, <1>2, PointChange
<1>5. /\ SumFunction(f) \in Int /\ SumFunction(g) \in Int /\ SumFunction(h) \in Int
      /\ f[x] \in Int /\ f[y] \in Int /\ g[x] \in Int /\ g[y] \in Int
  BY <1>1, SumType
<1> QED BY <1>1, <1>3, <1>4, <1>5

(* A sum is that of its slices. *)
LEMMA SumSlices ==
  ASSUME NEW D, IsFiniteSet(D), NEW W, IsFiniteSet(W), NEW f \in [D -> Int], NEW v \in [D -> W]
  PROVE  SumFunction([w \in W |-> SumFunction([x \in D |-> IF v[x] = w THEN f[x] ELSE 0])])
           = SumFunction(f)
<1> DEFINE G(T) == [x \in D |-> IF x \in T THEN f[x] ELSE 0]
           S(T, w) == [x \in D |-> IF x \in T /\ v[x] = w THEN f[x] ELSE 0]
           H(T) == [w \in W |-> SumFunction(S(T, w))]
           B == {T \in SUBSET D : SumFunction(H(T)) = SumFunction(G(T))}
<1>1. ASSUME NEW T PROVE G(T) \in [D -> Int] /\ \A w : S(T, w) \in [D -> Int]
  OBVIOUS
<1>2. ASSUME NEW T PROVE H(T) \in [W -> Int] /\ \A w \in W : H(T)[w] = SumFunction(S(T, w))
  <2>1. \A w : S(T, w) \in [D -> Int]  BY <1>1
  <2> HIDE DEF S
  <2>2. \A w : SumFunction(S(T, w)) \in Int  BY <2>1, SumType
  <2> QED BY <2>2
<1>3. ASSUME NEW T \in SUBSET D, \A U \in SUBSET T : U # T => U \in B
      PROVE  T \in B
  <2>1. CASE T = {}
    <3>1. \A x \in D : G(T)[x] = 0 /\ \A w : S(T, w)[x] = 0  BY <2>1
    <3>2. \A w : S(T, w) \in [D -> Int]  BY <1>1
    <3>3. G(T) \in [D -> Int]  BY <1>1
    <3>4. H(T) \in [W -> Int] /\ \A w \in W : H(T)[w] = SumFunction(S(T, w))  BY <1>2
    <3> HIDE DEF G, S, H
    <3>5. SumFunction(G(T)) = 0  BY <3>1, <3>3, SumNothing
    <3>6. \A w : SumFunction(S(T, w)) = 0  BY <3>1, <3>2, SumNothing
    <3>7. SumFunction(H(T)) = 0  BY <3>4, <3>6, SumNothing
    <3> QED BY <3>5, <3>7
  <2>2. CASE T # {}
    <3>1. PICK y \in T : TRUE  BY <2>2
    <3> DEFINE U == T \ {y}
               u == v[y]
    <3>2. U \in B /\ y \in D /\ u \in W  BY <1>3, <3>1
    <3>3. /\ G(T)[y] = f[y] /\ G(U)[y] = 0 /\ \A x \in D \ {y} : G(T)[x] = G(U)[x]
          /\ S(T, u)[y] = f[y] /\ S(U, u)[y] = 0
          /\ \A x \in D \ {y} : S(T, u)[x] = S(U, u)[x]
      BY <3>1, <3>2
    <3>4. \A w \in W \ {u} : S(T, w) = S(U, w)  BY <3>1
    <3>5. SumFunction(H(U)) = SumFunction(G(U))  BY <3>2
    <3>6. /\ G(T) \in [D -> Int] /\ G(U) \in [D -> Int]
          /\ S(T, u) \in [D -> Int] /\ S(U, u) \in [D -> Int]
      BY <1>1
    <3>7. /\ H(T) \in [W -> Int] /\ H(U) \in [W -> Int]
          /\ \A w \in W : H(T)[w] = SumFunction(S(T, w)) /\ H(U)[w] = SumFunction(S(U, w))
      BY <1>2
    <3> HIDE DEF G, S, H, U, u
    <3>8. SumFunction(G(T)) = SumFunction(G(U)) + f[y] - 0  BY <3>2, <3>3, <3>6, PointChange
    <3>9. SumFunction(S(T, u)) = SumFunction(S(U, u)) + f[y] - 0  BY <3>2, <3>3, <3>6, PointChange
    <3>10. \A w \in W \ {u} : H(T)[w] = H(U)[w]  BY <3>4, <3>7
    <3>11. SumFunction(H(T)) = SumFunction(H(U)) + H(T)[u] - H(U)[u]
      BY <3>2, <3>7, <3>10, PointChange
    <3>12. /\ SumFunction(G(U)) \in Int /\ SumFunction(H(U)) \in Int
           /\ SumFunction(S(U, u)) \in Int /\ f[y] \in Int
      BY <3>2, <3>6, <3>7, SumType
    <3>13. H(T)[u] = SumFunction(S(T, u)) /\ H(U)[u] = SumFunction(S(U, u))  BY <3>2, <3>7
    <3> QED BY <3>5, <3>8, <3>9, <3>11, <3>12, <3>13
  <2> QED BY <2>1, <2>2
<1>4. B \in SUBSET (SUBSET D)  OBVIOUS
<1>5. G(D) = f /\ \A w : S(D, w) = [x \in D |-> IF v[x] = w THEN f[x] ELSE 0]  OBVIOUS
<1> HIDE DEF B
<1>6. D \in B  BY <1>3, <1>4, SubsetInduction
<1>7. SumFunction(H(D)) = SumFunction(G(D))  BY <1>6 DEF B
<1> HIDE DEF G, S
<1>8. H(D) = [w \in W |-> SumFunction([x \in D |-> IF v[x] = w THEN f[x] ELSE 0])]  BY <1>5
<1> QED BY <1>5, <1>7, <1>8

------------------------------------------------------------------------------
(* Types.  A running deletion holds two warehouses, the products that are    *)
(* left to merge, and what it has read.                                      *)

(* What a running deletion holds. *)
AnyProduct == CHOOSE p \in Product : TRUE
Merge == [stage : {"list", "find", "save", "move", "row"}, from : Warehouse, to : Warehouse,
          left : SUBSET Product, had : [Product -> Int], product : Product \cup {AnyProduct},
          other : Int, stale : BOOLEAN, changed : SUBSET Product]

MergeTyped ==
  /\ merge \in [Request -> Merge \cup {NoMerge}]
  /\ \A r \in Request : Deletes(r, {"save", "move"}) => merge[r].product \in Product
  /\ gone \subseteq Warehouse /\ due \in [Key -> Int] /\ repeated \in BOOLEAN

Typed == TypeOK /\ MergeTyped

LEMMA DeletionType ==
  ASSUME MergeTyped, NEW r \in Request
  PROVE  /\ merge[r] # NoMerge <=> merge[r] \in Merge
         /\ \A stages \in SUBSET {"list", "find", "save", "move", "row"} :
              Deletes(r, stages) => merge[r] \in Merge
<1>1. NoMerge \notin Merge  BY DEF NoMerge, Merge
<1>2. merge[r] \in Merge \cup {NoMerge}  BY DEF MergeTyped
<1>3. "none" \notin {"list", "find", "save", "move", "row"}  OBVIOUS
<1>4. NoMerge.stage = "none"  BY DEF NoMerge
<1> QED BY <1>1, <1>2, <1>3, <1>4 DEF Deletes

LEMMA SlotsFinite ==
  ASSUME ShipmentsAssumption, WarehousesAssumption
  PROVE  IsFiniteSet(Shipment \X Line)
<1>1. 1 \in Int /\ MaxShipment \in Int  BY DEF ShipmentsAssumption
<1>2. IsFiniteSet(Shipment)  BY <1>1, FS_Interval DEF Shipment
<1> QED BY <1>2, FS_Product DEF WarehousesAssumption

LEMMA ItemsNat ==
  ASSUME ShipmentsAssumption, Typed, NEW s \in Shipment, NEW l \in Line
  PROVE  items[s][l] \in Nat
BY DEF ShipmentsAssumption, Typed, TypeOK, Items, Quantity

LEMMA GoodsTypes ==
  ASSUME ShipmentsAssumption, WarehousesAssumption, Typed, NEW p, NEW W
  PROVE  /\ \A s \in Shipment, l \in Line : OutAt(s, l) \in Int
         /\ OutFn(p, W) \in [Shipment \X Line -> Int] /\ OutOf(p, W) \in Int
<1>1. ASSUME NEW s \in Shipment, NEW l \in Line PROVE OutAt(s, l) \in Int
  <2>1. items[s][l] \in Int  BY ItemsNat
  <2> QED BY <2>1 DEF OutAt
<1>2. OutFn(p, W) \in [Shipment \X Line -> Int]  BY <1>1 DEF OutFn
<1>3. OutOf(p, W) \in Int
  <2> DEFINE f == OutFn(p, W)
  <2>1. f \in [Shipment \X Line -> Int]  BY <1>2
  <2> HIDE DEF f
  <2>2. SumFunction(f) \in Int  BY <2>1, SlotsFinite, SumType
  <2> QED BY <2>2 DEF OutOf, f
<1> QED BY <1>1, <1>2, <1>3

LEMMA OwedType ==
  ASSUME ShipmentsAssumption, WarehousesAssumption, Typed, NEW S, NEW gain \in [Shipment -> Int]
  PROVE  /\ \A p, w : GainFn(S, gain, p, w) \in [Shipment \X Line -> Int]
         /\ Owed(S, gain) \in [Key -> Int]
<1>1. ASSUME NEW p, NEW w PROVE GainFn(S, gain, p, w) \in [Shipment \X Line -> Int]
  <2>1. \A s \in Shipment, l \in Line : items[s][l] \in Int /\ gain[s] \in Int  BY ItemsNat
  <2>2. \A s \in Shipment, l \in Line : gain[s] * items[s][l] \in Int  BY <2>1
  <2> QED BY <2>2 DEF GainFn
<1>2. ASSUME NEW k \in Key PROVE due[k] + SumFunction(GainFn(S, gain, k[1], k[2])) \in Int
  <2> DEFINE f == GainFn(S, gain, k[1], k[2])
  <2>1. f \in [Shipment \X Line -> Int]  BY <1>1
  <2> HIDE DEF f
  <2>2. SumFunction(f) \in Int  BY <2>1, SlotsFinite, SumType
  <2>3. due[k] \in Int  BY DEF Typed, MergeTyped
  <2> QED BY <2>2, <2>3 DEF f
<1> QED BY <1>1, <1>2 DEF Owed

(* The books of a step that moves or deletes shipments. *)
Books == \E S : \E gain \in [Shipment -> Int] : due' = Owed(S, gain)

LEMMA BooksKept ==
  ASSUME ShipmentsAssumption, WarehousesAssumption, Typed, NEW r \in Request,
         BeginBeside(r) \/ DeleteRowsBeside(r)
  PROVE  due' \in [Key -> Int]
<1>1. \A t, ret : [s \in Shipment |-> Gain(s, t, ret)] \in [Shipment -> Int]  BY DEF Gain
<1>2. [s \in Shipment |-> -1] \in [Shipment -> Int]  OBVIOUS
<1>3. due' = due \/ Books
  BY <1>1, <1>2 DEF BeginBeside, DeleteRowsBeside, Moved, WrittenOff, Books
<1>4. Books => due' \in [Key -> Int]  BY OwedType DEF Books
<1>5. due \in [Key -> Int]  BY DEF Typed, MergeTyped
<1> QED BY <1>3, <1>4, <1>5

(* Missed keeps the types, and marks the deletions that have read K.         *)
LEMMA MissedType ==
  ASSUME MergeTyped, NEW K
  PROVE  /\ Missed(K) \in [Request -> Merge \cup {NoMerge}]
         /\ \A r \in Request :
              IF merge[r] = NoMerge THEN Missed(K)[r] = NoMerge
              ELSE /\ Missed(K)[r] = [merge[r] EXCEPT
                        !.changed = @ \cup {p \in Product : SourceOf(merge[r], {p}) \cap K # {}},
                        !.stale = @ \/ (merge[r].stage = "save" /\ Target(merge[r]) \in K)]
                   /\ Missed(K)[r] \in Merge
<1> SUFFICES ASSUME NEW r \in Request
             PROVE  IF merge[r] = NoMerge THEN Missed(K)[r] = NoMerge
                    ELSE /\ Missed(K)[r] = [merge[r] EXCEPT
                              !.changed = @ \cup {p \in Product : SourceOf(merge[r], {p}) \cap K # {}},
                              !.stale = @ \/ (merge[r].stage = "save" /\ Target(merge[r]) \in K)]
                         /\ Missed(K)[r] \in Merge
  BY DEF Missed
<1>1. CASE merge[r] = NoMerge  BY <1>1 DEF Missed
<1>2. CASE merge[r] # NoMerge
  <2>1. Missed(K)[r] = [merge[r] EXCEPT
                        !.changed = @ \cup {p \in Product : SourceOf(merge[r], {p}) \cap K # {}},
                        !.stale = @ \/ (merge[r].stage = "save" /\ Target(merge[r]) \in K)]
    BY <1>2 DEF Missed
  <2> DEFINE C == {p \in Product : SourceOf(merge[r], {p}) \cap K # {}}
             B == merge[r].stage = "save" /\ Target(merge[r]) \in K
  <2>2. C \in SUBSET Product /\ B \in BOOLEAN  OBVIOUS
  <2>3. merge[r] \in Merge  BY <1>2, DeletionType
  <2> HIDE DEF C, B
  <2>4. [merge[r] EXCEPT !.changed = @ \cup C, !.stale = @ \/ B] \in Merge
    BY <2>2, <2>3 DEF Merge
  <2> QED BY <1>2, <2>1, <2>4 DEF C, B
<1> QED BY <1>1, <1>2

(* What a write of the keys K leaves of the other deletions. *)
LEMMA MissedFields ==
  ASSUME MergeTyped, NEW K, NEW r \in Request, merge[r] # NoMerge
  PROVE  LET m == Missed(K)[r] IN
         /\ m \in Merge /\ m # NoMerge
         /\ m.stage = merge[r].stage /\ m.from = merge[r].from /\ m.to = merge[r].to
         /\ m.left = merge[r].left /\ m.had = merge[r].had /\ m.product = merge[r].product
         /\ m.other = merge[r].other /\ Target(m) = Target(merge[r])
         /\ m.changed = merge[r].changed \cup {p \in Product : <<p, merge[r].from>> \in K}
         /\ m.stale <=> merge[r].stale \/ (merge[r].stage = "save" /\ Target(merge[r]) \in K)
<1>1. /\ Missed(K)[r] = [merge[r] EXCEPT
                        !.changed = @ \cup {p \in Product : SourceOf(merge[r], {p}) \cap K # {}},
                        !.stale = @ \/ (merge[r].stage = "save" /\ Target(merge[r]) \in K)]
      /\ Missed(K)[r] \in Merge
  BY MissedType
<1>2. merge[r] \in Merge /\ NoMerge \notin Merge  BY DeletionType DEF NoMerge, Merge
<1>3. {p \in Product : SourceOf(merge[r], {p}) \cap K # {}} = {p \in Product : <<p, merge[r].from>> \in K}
  BY DEF SourceOf
<1> DEFINE C == {p \in Product : <<p, merge[r].from>> \in K}
           B == merge[r].stage = "save" /\ Target(merge[r]) \in K
<1>4. Missed(K)[r] = [merge[r] EXCEPT !.changed = @ \cup C, !.stale = @ \/ B]
  BY <1>1, <1>3
<1>5. B \in BOOLEAN  OBVIOUS
<1> HIDE DEF C, B
<1>6. LET m == Missed(K)[r] IN
         /\ m.stage = merge[r].stage /\ m.from = merge[r].from /\ m.to = merge[r].to
         /\ m.left = merge[r].left /\ m.had = merge[r].had /\ m.product = merge[r].product
         /\ m.other = merge[r].other
         /\ m.changed = merge[r].changed \cup C
         /\ m.stale = (merge[r].stale \/ B)
  BY <1>2, <1>4 DEF Merge
<1> QED BY <1>1, <1>2, <1>6 DEF C, B, Target

(* The steps of the requests beside the deletions that are steps of          *)
(* Shipments as well.                                                        *)
ShipmentsStep(r) ==
  \/ BeginBeside(r) \/ DeleteRows(r) \/ Return(r)
  \/ \E s \in Shipment, l \in Line : ReadStock(r, s, l) \/ SaveStock(r, s, l)
  \/ \E s \in Shipment : SaveShipment(r, s)
  \/ \E w \in Warehouse : CreateShipment(r, w) \/ \E l \in Line : CreateItem(r, l, w)

LEMMA ShipmentsStepIsNext ==
  ASSUME NEW r \in Request, ShipmentsStep(r) PROVE [Next]_vars
<1>1. BeginBeside(r) => Begin(r)  BY DEF BeginBeside, Begin
<1> QED BY <1>1 DEF ShipmentsStep, Next, Step

LEMMA DropJobType ==
  ASSUME Typed, NEW r \in Request, NEW s \in Shipment, DropJob(r, s)
  PROVE  TypeOK'
<1>1. job' \in [Request -> [Shipment -> Job \cup {NoJob}]]  BY DEF DropJob, Typed, TypeOK
<1>2. at' \in [Request -> [Shipment -> [Line -> {"idle", "todo", "read", "overtaken"}]]]
  BY DEF DropJob, Typed, TypeOK
<1>3. seen' \in [Request -> [Shipment -> [Line -> Int]]]  BY DEF DropJob, Typed, TypeOK
<1>4. pc' \in [Request -> {"new", "run", "create", "delete", "done", "failed"}]
  BY DEF DropJob, Typed, TypeOK
<1> QED BY <1>1, <1>2, <1>3, <1>4 DEF DropJob, Typed, TypeOK, stockVars, shipmentVars, createVars

LEMMA LoseType ==
  ASSUME ShipmentsAssumption, TypeOK, NEW r \in Request, Lose(r), aborts' \in Nat
  PROVE  TypeOK'
<1>1. 0 \in 0..MaxShipment /\ 0 \in Quantity /\ NoFilter \in Filter
  BY DEF ShipmentsAssumption, NoFilter, Filter, Quantity
<1>2. /\ plan' \in [Request -> [Line -> [Warehouse -> Quantity]]]
      /\ made' \in [Request -> [Warehouse -> 0..MaxShipment]]
      /\ filter' \in [Request -> Filter]
  BY <1>1 DEF Lose, TypeOK
<1> QED BY <1>2 DEF Lose, TypeOK, stockVars, shipmentVars

LEMMA RelocateType ==
  ASSUME TypeOK, NEW r \in Request, NEW f, NEW w \in Warehouse, Relocate(r, f, w)
  PROVE  TypeOK'
<1>1. \A s \in Shipment : [row[s] EXCEPT !.warehouse = w] \in Row
  BY RelocatedType DEF TypeOK
<1>2. row' \in [Shipment -> Row]  BY <1>1 DEF Relocate, TypeOK
<1>3. collided' \subseteq Shipment /\ contended' \subseteq Shipment
  BY DEF Relocate, Shared, Matches, TypeOK, Row
<1> QED BY <1>2, <1>3 DEF Relocate, TypeOK, stockVars, createVars, jobVars

(* Steps that write stock rows and nothing else of the shipments. *)
LEMMA StockType ==
  ASSUME TypeOK, UNCHANGED <<ledger, shipmentVars, pc, createVars, job, seen, events, collided,
                             contended, aborts>>,
         NEW K, at' = Overtake(K),
         hasStock' \subseteq Key, stock' \in [Key -> Int], raced' \subseteq Key
  PROVE  TypeOK'
<1>1. at' \in [Request -> [Shipment -> [Line -> {"idle", "todo", "read", "overtaken"}]]]
  BY OvertakeType
<1> QED BY <1>1 DEF TypeOK, shipmentVars, createVars

(* The steps of a deletion keep the types of Shipments.                      *)
LEMMA DeletionTypeStep ==
  ASSUME ShipmentsAssumption, Typed, NEW r \in Request, DeletionStep(r)
  PROVE  TypeOK'
<1> USE DEF Typed
<1>1. ASSUME NEW x \in Relocations, DeleteWarehouse(r, x[1], x[2]) PROVE TypeOK'
  <2>1. x[2] \in Warehouse  BY DEF ShipmentsAssumption
  <2> QED BY <1>1, <2>1, RelocateType DEF DeleteWarehouse
<1>2. CASE ListStocks(r) \/ (\E p \in Product : FindOther(r, p)) \/ MergeRefused(r) \/ RowIsReferred(r)
  <2>1. UNCHANGED vars  BY <1>2 DEF ListStocks, FindOther, MergeRefused, RowIsReferred, OnlyMerge
  <2> QED BY <2>1 DEF TypeOK, vars, stockVars, shipmentVars, createVars, jobVars
<1>3. CASE SaveOther(r)
  <2>1. merge[r] \in Merge /\ merge[r].product \in Product
    BY <1>3, DeletionType DEF SaveOther, MergeTyped, Deletes
  <2>2. Target(merge[r]) \in Key /\ Merged(merge[r]) \in Int
    BY <2>1 DEF Merge, Target, Merged, Key
  <2>3. /\ stock' = [stock EXCEPT ![Target(merge[r])] = Merged(merge[r])]
        /\ hasStock' = hasStock \cup {Target(merge[r])}
        /\ raced' \subseteq raced \cup {Target(merge[r])}
        /\ at' = Overtake({Target(merge[r])})
    BY <1>3 DEF SaveOther
  <2>4. stock' \in [Key -> Int] /\ hasStock' \subseteq Key /\ raced' \subseteq Key
    BY <2>2, <2>3 DEF TypeOK
  <2>5. UNCHANGED <<ledger, shipmentVars, pc, createVars, job, seen, events, collided,
                    contended, aborts>>
    BY <1>3 DEF SaveOther
  <2> QED BY <2>3, <2>4, <2>5, StockType
<1>4. CASE MoveRow(r)
  <2> DEFINE old == <<merge[r].product, merge[r].from>>
  <2>1. merge[r] \in Merge /\ merge[r].product \in Product
    BY <1>4, DeletionType DEF MoveRow, MergeTyped, Deletes
  <2>2. Target(merge[r]) \in Key /\ old \in Key
    BY <2>1 DEF Merge, Target, Key
  <2>3. UNCHANGED <<ledger, raced, shipmentVars, pc, createVars, job, seen, events, collided,
                    contended, aborts>>
    BY <1>4 DEF MoveRow
  <2>4. CASE /\ stock' = [stock EXCEPT ![Target(merge[r])] = stock[old]]
             /\ hasStock' = (hasStock \ {old}) \cup {Target(merge[r])}
             /\ at' = Overtake({old, Target(merge[r])})
    <3>1. stock' \in [Key -> Int] /\ hasStock' \subseteq Key /\ raced' \subseteq Key
      BY <2>2, <2>3, <2>4 DEF TypeOK
    <3> QED BY <2>3, <2>4, <3>1, StockType
  <2>5. CASE UNCHANGED <<hasStock, stock, at>>
    BY <2>3, <2>5 DEF TypeOK, shipmentVars, createVars
  <2> QED BY <1>4, <2>4, <2>5 DEF MoveRow
<1>5. CASE DropStocks(r)
  <2>1. merge[r] \in Merge
    BY <1>5, DeletionType DEF DropStocks, Deletes
  <2>2. raced' \subseteq Key  BY <1>5, <2>1 DEF DropStocks, TypeOK, Merge, Key
  <2>3. hasStock' \subseteq Key /\ stock' \in [Key -> Int]  BY <1>5 DEF DropStocks, TypeOK
  <2>4. UNCHANGED <<ledger, shipmentVars, pc, createVars, job, seen, events, collided,
                    contended, aborts>>
    BY <1>5 DEF DropStocks
  <2>5. at' = Overtake(SourceOf(merge[r], Product) \cap hasStock)  BY <1>5 DEF DropStocks
  <2> QED BY <2>2, <2>3, <2>4, <2>5, StockType
<1>6. CASE DeleteRow(r)
  <2>1. /\ live' \subseteq live /\ collided' \subseteq collided \cup live
        /\ hasStock' \subseteq hasStock
        /\ items' \in [Shipment -> Items]
        /\ UNCHANGED <<stock, ledger, raced, row, lastId, pc, createVars, job, seen, events,
                       contended, aborts>>
    BY <1>6 DEF DeleteRow, TypeOK, Items, Quantity, ShipmentsAssumption
  <2>2. at' = Overtake((Product \X {merge[r].from}) \cap hasStock)
    BY <1>6 DEF DeleteRow
  <2>3. at' \in [Request -> [Shipment -> [Line -> {"idle", "todo", "read", "overtaken"}]]]
    BY <2>2, OvertakeType
  <2> QED BY <2>1, <2>3 DEF TypeOK, createVars
<1>7. CASE CutShort(r)
  BY <1>7 DEF CutShort, TypeOK, vars, stockVars, shipmentVars, createVars, jobVars
<1> QED BY <1>1, <1>2, <1>3, <1>4, <1>5, <1>6, <1>7 DEF DeletionStep

(* A step of one deletion beside what it misses of the others. *)
LEMMA GoesType ==
  ASSUME MergeTyped, NEW r \in Request, NEW new \in Merge \cup {NoMerge},
         new.stage \in {"save", "move"} => new.product \in Product,
         \/ merge' = [merge EXCEPT ![r] = new]
         \/ \E K : merge' = [Missed(K) EXCEPT ![r] = new]
  PROVE  /\ merge' \in [Request -> Merge \cup {NoMerge}]
         /\ \A q \in Request : merge'[q].stage \in {"save", "move"} => merge'[q].product \in Product
<1>1. CASE merge' = [merge EXCEPT ![r] = new]
  BY <1>1 DEF MergeTyped, Deletes
<1>2. ASSUME NEW K, merge' = [Missed(K) EXCEPT ![r] = new]
      PROVE  /\ merge' \in [Request -> Merge \cup {NoMerge}]
             /\ \A q \in Request : merge'[q].stage \in {"save", "move"} => merge'[q].product \in Product
  <2>1. merge' \in [Request -> Merge \cup {NoMerge}]  BY <1>2, MissedType
  <2>2. ASSUME NEW q \in Request, merge'[q].stage \in {"save", "move"}
        PROVE  merge'[q].product \in Product
    <3>1. CASE q = r  BY <1>2, <2>2, <3>1, MissedType
    <3>2. CASE q # r
      <4>1. merge'[q] = Missed(K)[q]  BY <1>2, <3>2, MissedType
      <4>2. merge[q] # NoMerge
        <5>1. NoMerge.stage = "none"  BY DEF NoMerge
        <5>2. merge[q] = NoMerge => Missed(K)[q] = NoMerge  BY DEF Missed
        <5> QED BY <2>2, <4>1, <5>1, <5>2
      <4>3. merge'[q].stage = merge[q].stage /\ merge'[q].product = merge[q].product
        BY <4>1, <4>2, MissedFields
      <4> QED BY <2>2, <4>3 DEF MergeTyped, Deletes
    <3> QED BY <3>1, <3>2
  <2> QED BY <2>1, <2>2
<1> QED BY <1>1, <1>2

(* ... and those of the deletions.                                           *)
LEMMA MergeTypeStep ==
  ASSUME ShipmentsAssumption, WarehousesAssumption, Typed, NEW r \in Request, DeletionStep(r)
  PROVE  MergeTyped'
<1> USE DEF Typed
<1> DEFINE Fine == /\ merge' \in [Request -> Merge \cup {NoMerge}]
                   /\ \A q \in Request : merge'[q].stage \in {"save", "move"} => merge'[q].product \in Product
<1>1. Fine /\ gone' \subseteq Warehouse /\ due' \in [Key -> Int] /\ repeated' \in BOOLEAN
        => MergeTyped'
  BY DEF MergeTyped, Deletes
<1>2. NoMerge.stage = "none" /\ NoMerge \in Merge \cup {NoMerge}  BY DEF NoMerge
<1> HIDE DEF Fine
<1>3. ASSUME NEW new \in Merge \cup {NoMerge},
             new.stage \in {"save", "move"} => new.product \in Product,
             \/ merge' = [merge EXCEPT ![r] = new]
             \/ \E K : merge' = [Missed(K) EXCEPT ![r] = new]
      PROVE  Fine
  BY <1>3, GoesType DEF Fine
<1>4. merge[r] \in Merge => merge[r].product \in Product \cup {AnyProduct} /\ merge[r].left \subseteq Product
  BY DEF Merge
<1>5. Fine /\ UNCHANGED <<gone, due>> /\ repeated' \in BOOLEAN => MergeTyped'
  BY <1>1 DEF MergeTyped
<1>6. repeated \in BOOLEAN  BY DEF MergeTyped
<1>7. ASSUME NEW x \in Relocations, DeleteWarehouse(r, x[1], x[2]) PROVE MergeTyped'
  <2> DEFINE new == [stage |-> "list", from |-> x[1], to |-> x[2], left |-> {},
                     had |-> [p \in Product |-> 0], product |-> AnyProduct, other |-> 0,
                     stale |-> FALSE, changed |-> {}]
  <2>1. new \in Merge  BY DEF Merge, ShipmentsAssumption
  <2>2. merge' = [merge EXCEPT ![r] = new] /\ UNCHANGED <<gone, due>> /\ repeated' \in BOOLEAN
    BY <1>7 DEF DeleteWarehouse, AnyProduct, MergeTyped
  <2>3. new.stage = "list"  OBVIOUS
  <2> HIDE DEF new
  <2> QED BY <1>3, <1>5, <2>1, <2>2, <2>3
<1>8. CASE ListStocks(r)
  <2> DEFINE found == {p \in Product : <<p, merge[r].from>> \in hasStock}
             had == [p \in Product |-> IF p \in found THEN stock[<<p, merge[r].from>>] ELSE 0]
             new == [merge[r] EXCEPT !.stage = "find", !.changed = {}, !.left = found, !.had = had]
  <2>1. merge[r] \in Merge  BY <1>8, DeletionType DEF ListStocks, Deletes
  <2>2. had \in [Product -> Int]  BY <2>1 DEF TypeOK
  <2>3. found \subseteq Product  OBVIOUS
  <2> HIDE DEF found, had
  <2>4. new \in Merge /\ new.stage = "find"  BY <2>1, <2>2, <2>3 DEF Merge
  <2>5. merge' = [merge EXCEPT ![r] = new] /\ UNCHANGED <<gone, due, repeated>>
    BY <1>8 DEF ListStocks, Goes, OnlyMerge, found, had
  <2> HIDE DEF new
  <2> QED BY <1>3, <1>5, <1>6, <2>4, <2>5
<1>9. ASSUME NEW p \in Product, FindOther(r, p) PROVE MergeTyped'
  <2> DEFINE m == [merge[r] EXCEPT !.product = p, !.left = @ \ {p}, !.stale = FALSE]
  <2>1. merge[r] \in Merge  BY <1>9, DeletionType DEF FindOther, Deletes
  <2>2. m \in Merge /\ m.product = p  BY <2>1 DEF Merge
  <2>3. \/ merge' = [merge EXCEPT ![r] = [m EXCEPT !.stage = "save", !.other = stock[Target(m)]]]
           /\ Target(m) \in hasStock
        \/ merge' = [merge EXCEPT ![r] = [m EXCEPT !.stage = "move"]]
    BY <1>9 DEF FindOther, Goes
  <2>4. UNCHANGED <<gone, due, repeated>>  BY <1>9 DEF FindOther, OnlyMerge
  <2>5. Target(m) \in hasStock => stock[Target(m)] \in Int  BY DEF TypeOK
  <2> HIDE DEF m
  <2>6. ASSUME NEW n \in Int
        PROVE  /\ [m EXCEPT !.stage = "save", !.other = n] \in Merge
               /\ [m EXCEPT !.stage = "save", !.other = n].product = p
    BY <2>2 DEF Merge
  <2>7. CASE merge' = [merge EXCEPT ![r] = [m EXCEPT !.stage = "save", !.other = stock[Target(m)]]]
             /\ Target(m) \in hasStock
    <3>1. stock[Target(m)] \in Int  BY <2>5, <2>7
    <3>2. /\ [m EXCEPT !.stage = "save", !.other = stock[Target(m)]] \in Merge
          /\ [m EXCEPT !.stage = "save", !.other = stock[Target(m)]].product = p
      BY <2>6, <3>1
    <3>3. Fine  BY <1>3, <2>7, <3>2
    <3> QED BY <1>5, <1>6, <2>4, <3>3
  <2>8. CASE merge' = [merge EXCEPT ![r] = [m EXCEPT !.stage = "move"]]
    <3> DEFINE new == [m EXCEPT !.stage = "move"]
    <3>2. new \in Merge /\ new.product \in Product  BY <2>2 DEF Merge
    <3>3. merge' = [merge EXCEPT ![r] = new]  BY <2>8
    <3> HIDE DEF new
    <3>1. Fine  BY <1>3, <3>2, <3>3
    <3> QED BY <1>5, <1>6, <2>4, <3>1
  <2> QED BY <2>3, <2>7, <2>8
<1>10. CASE SaveOther(r)
  <2> DEFINE no == FALSE
             new == [merge[r] EXCEPT !.stage = "find", !.other = 0, !.stale = no]
  <2>1. merge[r] \in Merge  BY <1>10, DeletionType DEF SaveOther, Deletes
  <2>4. no \in BOOLEAN  OBVIOUS
  <2>3. merge' = [Missed({Target(merge[r])}) EXCEPT ![r] = new] /\ UNCHANGED <<gone, due, repeated>>
    BY <1>10 DEF SaveOther
  <2> HIDE DEF no
  <2> DEFINE nought == 0
  <2>5. nought \in Int  OBVIOUS
  <2> HIDE DEF nought
  <2>6. [merge[r] EXCEPT !.stage = "find", !.other = nought, !.stale = no] \in Merge
    BY <2>1, <2>4, <2>5 DEF Merge
  <2>2. new \in Merge /\ new.stage = "find"  BY <2>1, <2>4, <2>6 DEF Merge, nought
  <2> HIDE DEF new
  <2> QED BY <1>3, <1>5, <1>6, <2>2, <2>3
<1>11. CASE MoveRow(r)
  <2> DEFINE old == <<merge[r].product, merge[r].from>>
             new1 == [merge[r] EXCEPT !.stage = "find", !.changed = @ \ {merge[r].product}]
             new2 == [merge[r] EXCEPT !.stage = "find"]
  <2>1. merge[r] \in Merge  BY <1>11, DeletionType DEF MoveRow, Deletes
  <2>2. new1 \in Merge /\ new1.stage = "find" /\ new2 \in Merge /\ new2.stage = "find"
    BY <2>1 DEF Merge
  <2>3. /\ \/ merge' = [Missed({old, Target(merge[r])}) EXCEPT ![r] = new1]
           \/ merge' = [merge EXCEPT ![r] = new2]
        /\ UNCHANGED <<gone, due, repeated>>
    BY <1>11 DEF MoveRow, Goes
  <2> HIDE DEF new1, new2
  <2>4. Fine  BY <1>3, <2>2, <2>3
  <2> QED BY <1>5, <1>6, <2>3, <2>4
<1>12. CASE MergeRefused(r) \/ RowIsReferred(r) \/ CutShort(r)
  <2>1. /\ merge' = [merge EXCEPT ![r] = NoMerge] /\ UNCHANGED <<gone, due>> /\ repeated' = TRUE
    BY <1>12 DEF MergeRefused, RowIsReferred, CutShort, Goes
  <2> QED BY <1>2, <1>3, <1>5, <2>1
<1>13. CASE DropStocks(r)
  <2> DEFINE K == SourceOf(merge[r], Product) \cap hasStock
             new == [merge[r] EXCEPT !.stage = "row"]
  <2>1. merge[r] \in Merge  BY <1>13, DeletionType DEF DropStocks, Deletes
  <2>2. new \in Merge /\ new.stage = "row"  BY <2>1 DEF Merge
  <2>3. merge' = [Missed(K) EXCEPT ![r] = new] /\ UNCHANGED <<gone, repeated>>
    BY <1>13 DEF DropStocks
  <2>4. due' \in [Key -> Int]
    <3> DEFINE O(k) == OutOf(k[1], {merge[r].from})
               d(k) == due[<<k[1], merge[r].from>>]
               from == merge[r].from
               to == merge[r].to
    <3>1. due' = [k \in Key |-> IF k[2] = from THEN O(k)
                              ELSE IF k[2] = to THEN due[k] + d(k) - O(k) ELSE due[k]]
      BY <1>13 DEF DropStocks, Inherited
    <3>2. \A k \in Key : O(k) \in Int  BY WarehousesAssumption, GoodsTypes
    <3>3. \A k \in Key : due[k] \in Int /\ d(k) \in Int
      BY <2>1 DEF MergeTyped, Merge, Key
    <3> HIDE DEF O, d, from, to
    <3>4. \A k \in Key : due[k] + d(k) - O(k) \in Int  BY <3>2, <3>3
    <3> QED BY <3>1, <3>2, <3>3, <3>4
  <2> HIDE DEF new, K
  <2>5. Fine  BY <1>3, <2>2, <2>3
  <2> QED BY <1>1, <1>6, <2>3, <2>4, <2>5 DEF MergeTyped
<1>14. CASE DeleteRow(r)
  <2> DEFINE K == (Product \X {merge[r].from}) \cap hasStock
  <2>1. merge[r] \in Merge  BY <1>14, DeletionType DEF DeleteRow, Deletes
  <2>2. /\ merge' = [Missed(K) EXCEPT ![r] = NoMerge] /\ UNCHANGED <<due, repeated>>
        /\ gone' = gone \cup {merge[r].from}
    BY <1>14 DEF DeleteRow
  <2> HIDE DEF K
  <2>3. Fine  BY <1>2, <1>3, <2>2
  <2>4. gone' \subseteq Warehouse  BY <2>1, <2>2 DEF Merge, MergeTyped
  <2> QED BY <1>1, <1>6, <2>2, <2>3, <2>4 DEF MergeTyped
<1> QED BY <1>7, <1>8, <1>9, <1>10, <1>11, <1>12, <1>13, <1>14 DEF DeletionStep

(* Steps of the other requests leave a deletion alone but for what it misses. *)
LEMMA MergeTypeKept ==
  ASSUME Typed, UNCHANGED <<gone, repeated>>, due' \in [Key -> Int],
         merge' = merge \/ \E K : merge' = Missed(K)
  PROVE  MergeTyped'
<1>1. CASE merge' = merge  BY <1>1 DEF Typed, MergeTyped, Deletes
<1>2. ASSUME NEW K, merge' = Missed(K) PROVE MergeTyped'
  <2>1. merge' \in [Request -> Merge \cup {NoMerge}]  BY <1>2, MissedType DEF Typed
  <2>2. ASSUME NEW q \in Request, merge'[q].stage \in {"save", "move"}
        PROVE  merge'[q].product \in Product
    <3>1. merge[q] # NoMerge
      <4>1. NoMerge.stage = "none"  BY DEF NoMerge
      <4>2. merge[q] = NoMerge => Missed(K)[q] = NoMerge  BY DEF Missed
      <4> QED BY <1>2, <2>2, <4>1, <4>2
    <3>2. merge'[q].stage = merge[q].stage /\ merge'[q].product = merge[q].product
      BY <1>2, <3>1, MissedFields DEF Typed
    <3> QED BY <2>2, <3>2 DEF Typed, MergeTyped, Deletes
  <2> QED BY <2>1, <2>2 DEF Typed, MergeTyped, Deletes
<1> QED BY <1>1, <1>2

LEMMA BesideKinds ==
  ASSUME ShipmentsAssumption, WarehousesAssumption, Typed, NEW r \in Request,
         BeginBeside(r) \/ StepBeside(r)
  PROVE  /\ UNCHANGED <<gone, repeated>> /\ due' \in [Key -> Int]
         /\ \/ /\ ShipmentsStep(r)
               /\ merge' = merge \/ \E K : merge' = Missed(K)
            \/ /\ merge' = merge
               /\ \/ \E s \in Shipment : DropJob(r, s)
                  \/ Lose(r) /\ UNCHANGED aborts
<1>0. due \in [Key -> Int]  BY DEF Typed, MergeTyped
<1>1. CASE BeginBeside(r)
  <2>1. due' \in [Key -> Int]  BY <1>1, BooksKept
  <2>2. UNCHANGED <<merge, gone, repeated>>  BY <1>1 DEF BeginBeside
  <2> QED BY <1>1, <2>1, <2>2 DEF ShipmentsStep
<1>2. ASSUME NEW s \in Shipment, NEW l \in Line,
             ReadBeside(r, s, l) \/ SaveBeside(r, s, l)
      PROVE  /\ ShipmentsStep(r) /\ UNCHANGED <<gone, due, repeated>>
             /\ merge' = merge \/ \E K : merge' = Missed(K)
  BY <1>2 DEF ReadBeside, SaveBeside, ShipmentsStep, Untouched
<1>3. ASSUME NEW s \in Shipment, (\E l \in Line : StockRefused(r, s, l)) \/ ShipmentRefused(r, s)
      PROVE  DropJob(r, s) /\ UNCHANGED warehouseVars
  BY <1>3 DEF StockRefused, ShipmentRefused, DropJob, warehouseVars
<1>4. ASSUME NEW w \in Warehouse, CreateRefused(r, w)
      PROVE  Lose(r) /\ UNCHANGED aborts /\ UNCHANGED warehouseVars
  BY <1>4 DEF CreateRefused
<1>5. ASSUME \/ \E s \in Shipment : SaveShipmentBeside(r, s)
             \/ \E w \in Warehouse :
                  \/ CreateBeside(r, w)
                  \/ \E l \in Line : CreateItem(r, l, w) /\ UNCHANGED warehouseVars
             \/ Return(r) /\ UNCHANGED warehouseVars
      PROVE  ShipmentsStep(r) /\ UNCHANGED warehouseVars
  BY <1>5 DEF SaveShipmentBeside, CreateBeside, ShipmentsStep
<1>6. CASE DeleteRowsBeside(r)
  <2>1. due' \in [Key -> Int]  BY <1>6, BooksKept
  <2> QED BY <1>6, <2>1 DEF DeleteRowsBeside, ShipmentsStep
<1> QED BY <1>0, <1>1, <1>2, <1>3, <1>4, <1>5, <1>6 DEF StepBeside, warehouseVars

(* Every step keeps the types.                                               *)
LEMMA TypedStep ==
  ASSUME ShipmentsAssumption, WarehousesAssumption, Typed, [WarehousesNext]_warehousesVars
  PROVE  Typed'
<1>1. ASSUME NEW r \in Request, BeginBeside(r) \/ StepBeside(r) PROVE Typed'
  <2>0. UNCHANGED <<gone, repeated>> /\ due' \in [Key -> Int]  BY <1>1, BesideKinds
  <2>1. CASE ShipmentsStep(r) /\ (merge' = merge \/ \E K : merge' = Missed(K))
    BY <2>0, <2>1, ShipmentsStepIsNext, TypeStep, MergeTypeKept DEF Typed
  <2>2. ASSUME NEW s \in Shipment, DropJob(r, s), merge' = merge PROVE Typed'
    BY <2>0, <2>2, DropJobType, MergeTypeKept DEF Typed
  <2>3. CASE Lose(r) /\ UNCHANGED aborts /\ merge' = merge
    <3>1. aborts' \in Nat  BY <2>3 DEF Typed, TypeOK
    <3> QED BY <2>0, <2>3, <3>1, LoseType, MergeTypeKept DEF Typed
  <2> QED BY <1>1, <2>1, <2>2, <2>3, BesideKinds
<1>2. ASSUME NEW r \in Request, DeletionStep(r) PROVE Typed'
  BY <1>2, DeletionTypeStep, MergeTypeStep DEF Typed
<1>3. CASE UNCHANGED warehousesVars
  <2>1. TypeOK'  BY <1>3, TypeStep DEF Typed, warehousesVars
  <2>2. due' \in [Key -> Int]  BY <1>3 DEF Typed, MergeTyped, warehousesVars, warehouseVars
  <2>3. MergeTyped'  BY <1>3, <2>2, MergeTypeKept DEF warehousesVars, warehouseVars
  <2> QED BY <2>1, <2>3 DEF Typed
<1> QED BY <1>1, <1>2, <1>3 DEF WarehousesNext

------------------------------------------------------------------------------
(* The work on shipments beside the deletions, while no request works on the *)
(* shipment of another.                                                      *)

(* What Conserved asks of the interleaving.                                  *)
Clean == raced = {} /\ collided = {} /\ unmoved = {}

(* A job is about a row that is there, as it was when the job started.       *)
Working ==
  \A r \in Request, s \in Shipment : job[r][s] # NoJob =>
    /\ s \in live /\ job[r][s].row = row[s] /\ job[r][s].items = items[s]
    /\ \/ pc[r] = "run" /\ job[r][s].target # Deleted
       \/ pc[r] = "delete" /\ job[r][s].target = Deleted /\ row[s].order \in filter[r].orders

(* No other request is about the shipment of a job. *)
Alone ==
  \A r \in Request, s \in Shipment : job[r][s] # NoJob =>
    \A q \in Request \ {r} : job[q][s] = NoJob /\ row[s].order \notin filter[q].orders

(* A request is about the shipments of an order wherever they are.           *)
WholeFilters == \A r \in Request : filter[r].orders = {} \/ filter[r].warehouses = Warehouse

(* A shipped shipment has its shipping time.                                 *)
TimesFollow == \A s \in live : row[s].status = "shipped" => row[s].shippedAt

(* What createForOrder has made is of its order and has not left. *)
MadeHere ==
  \A r \in Request, w \in Warehouse :
    /\ pc[r] # "create" => made[r][w] = 0
    /\ made[r][w] <= lastId
    /\ made[r][w] \in live =>
         row[made[r][w]].order \in filter[r].orders /\ ~row[made[r][w]].shippedAt

(* No shipment is of a warehouse that has gone.                              *)
Standing == \A s \in live : row[s].warehouse \notin gone

Rows == WholeFilters /\ TimesFollow /\ MadeHere /\ Standing /\ live \subseteq 1..lastId
Jobs == Working /\ Alone /\ Rows

(* Steps that change nothing of this. *)
LEMMA QuietJobs ==
  ASSUME Jobs, UNCHANGED <<live, row, items, lastId, pc, filter, made, job>>,
         \A s \in live : row[s].warehouse \notin gone'
  PROVE  Jobs'
<1>1. Working' /\ Alone'  BY DEF Jobs, Working, Alone
<1>2. WholeFilters' /\ TimesFollow' /\ MadeHere' /\ live' \subseteq 1..lastId'
  BY DEF Jobs, Rows, WholeFilters, TimesFollow, MadeHere
<1>3. Standing'  BY DEF Standing
<1> QED BY <1>1, <1>2, <1>3 DEF Jobs, Rows

LEMMA Idle ==
  ASSUME Jobs, NEW r \in Request, pc[r] \notin {"run", "delete"}, NEW s \in Shipment
  PROVE  job[r][s] = NoJob
BY DEF Jobs, Working

(* A request about the shipments T, which nobody else is about. *)
LEMMA NotShared ==
  ASSUME Typed, Jobs, NEW r \in Request, NEW T \in SUBSET live, Shared(r, T) = {},
         NEW s \in T, NEW q \in Request \ {r}
  PROVE  job[q][s] = NoJob /\ row[s].order \notin filter[q].orders
<1>1. job[q][s] = NoJob /\ ~(row[s].order \in filter[q].orders /\ row[s].warehouse \in filter[q].warehouses)
  BY DEF Shared
<1>2. row[s].warehouse \in Warehouse  BY DEF Typed, TypeOK, Row
<1>3. filter[q].orders = {} \/ filter[q].warehouses = Warehouse  BY DEF Jobs, Rows, WholeFilters
<1> QED BY <1>1, <1>2, <1>3

LEMMA StartWorking ==
  ASSUME Typed, Jobs, NEW r \in Request, pc[r] = "new", NEW T \in SUBSET live, NEW S \in SUBSET T,
         NEW t \in Status \cup {Deleted}, NEW ret \in BOOLEAN,
         StartJobs(r, S, t, ret), Shared(r, T) = {},
         UNCHANGED <<live, row, items, lastId, made, gone>>,
         \/ t # Deleted /\ pc' = [pc EXCEPT ![r] = "run"] /\ filter' = filter
         \/ /\ t = Deleted /\ pc' = [pc EXCEPT ![r] = "delete"]
            /\ \E o \in Order : filter' = [filter EXCEPT ![r] = OfOrder(o)] /\ T = Matches(OfOrder(o))
  PROVE  Working' /\ Alone' /\ WholeFilters' /\ MadeHere'
<1>1. /\ \A s \in Shipment : job'[r][s] = IF s \in S THEN [row |-> row[s], items |-> items[s],
                                           target |-> t, returnStocks |-> ret] ELSE NoJob
      /\ \A q \in Request \ {r} : job'[q] = job[q]
  BY DEF StartJobs, Typed, TypeOK
<1>2. /\ \A q \in Request \ {r} : pc'[q] = pc[q] /\ filter'[q] = filter[q]
      /\ \/ t # Deleted /\ pc'[r] = "run" /\ filter'[r] = filter[r]
         \/ t = Deleted /\ pc'[r] = "delete" /\ \E o \in Order : filter'[r] = OfOrder(o) /\ T = Matches(OfOrder(o))
  BY DEF Typed, TypeOK
<1>3. \A s \in S : t = Deleted => row[s].order \in filter'[r].orders
  BY <1>2 DEF Matches
<1>4. Working'
  <2> SUFFICES ASSUME NEW q \in Request, NEW s \in Shipment, job'[q][s] # NoJob
               PROVE  /\ s \in live /\ job'[q][s].row = row[s] /\ job'[q][s].items = items[s]
                      /\ \/ pc'[q] = "run" /\ job'[q][s].target # Deleted
                         \/ /\ pc'[q] = "delete" /\ job'[q][s].target = Deleted
                            /\ row[s].order \in filter'[q].orders
    BY DEF Working
  <2>1. CASE q = r
    <3>1. s \in S /\ job'[r][s] = [row |-> row[s], items |-> items[s], target |-> t, returnStocks |-> ret]
      BY <1>1, <2>1
    <3> QED BY <1>2, <1>3, <2>1, <3>1
  <2>2. CASE q # r  BY <1>1, <1>2, <2>2 DEF Jobs, Working
  <2> QED BY <2>1, <2>2
<1>5. Alone'
  <2> SUFFICES ASSUME NEW p \in Request, NEW s \in Shipment, job'[p][s] # NoJob, NEW q \in Request \ {p}
               PROVE  job'[q][s] = NoJob /\ row[s].order \notin filter'[q].orders
    BY DEF Alone
  <2>1. CASE p = r
    <3>1. s \in S /\ s \in T  BY <1>1, <2>1
    <3>2. job[q][s] = NoJob /\ row[s].order \notin filter[q].orders  BY <2>1, <3>1, NotShared
    <3> QED BY <1>1, <1>2, <2>1, <3>2
  <2>2. CASE p # r /\ q # r  BY <1>1, <1>2, <2>2 DEF Jobs, Alone
  <2>3. CASE p # r /\ q = r
    <3>1. job[p][s] # NoJob /\ s \in live /\ row[s].order \notin filter[r].orders
      <4>1. job'[p] = job[p] /\ r \in Request \ {p}  BY <1>1, <2>3
      <4>2. job[p][s] # NoJob  BY <4>1
      <4> QED BY <4>1, <4>2 DEF Jobs, Alone, Working
    <3>2. s \notin T  BY <2>3, <3>1, NotShared
    <3>3. job'[r][s] = NoJob  BY <1>1, <3>2
    <3>4. CASE t # Deleted  BY <1>2, <2>3, <3>1, <3>3, <3>4
    <3>5. CASE t = Deleted
      <4>1. PICK o \in Order : filter'[r] = OfOrder(o) /\ T = Matches(OfOrder(o))  BY <1>2, <3>5
      <4>2. row[s].warehouse \in Warehouse  BY <3>1 DEF Typed, TypeOK, Row
      <4>3. row[s].order # o  BY <3>1, <3>2, <4>1, <4>2 DEF Matches, OfOrder
      <4> QED BY <2>3, <3>3, <4>1, <4>3 DEF OfOrder
    <3> QED BY <3>4, <3>5
  <2> QED BY <2>1, <2>2, <2>3
<1>6. WholeFilters'
  <2>1. \A o \in Order : OfOrder(o).warehouses = Warehouse  BY DEF OfOrder
  <2> QED BY <1>2, <2>1 DEF Jobs, Rows, WholeFilters
<1>7. MadeHere'
  <2>1. \A q \in Request : pc'[q] = "create" => pc[q] = "create"  BY <1>2
  <2>2. \A q \in Request : pc[q] = "create" => filter'[q] = filter[q]  BY <1>2
  <2> SUFFICES ASSUME NEW q \in Request, NEW w \in Warehouse
               PROVE  /\ pc'[q] # "create" => made[q][w] = 0
                      /\ made[q][w] <= lastId
                      /\ made[q][w] \in live =>
                           row[made[q][w]].order \in filter'[q].orders /\ ~row[made[q][w]].shippedAt
    BY DEF MadeHere
  <2>3. CASE q = r
    <3>1. made[r][w] = 0 /\ 0 \notin live
      BY DEF Jobs, Rows, MadeHere, Typed, TypeOK, Shipment
    <3>2. 0 <= lastId  BY DEF Typed, TypeOK
    <3> QED BY <2>3, <3>1, <3>2
  <2>4. CASE q # r  BY <1>2, <2>4 DEF Jobs, Rows, MadeHere
  <2> QED BY <2>3, <2>4
<1> QED BY <1>4, <1>5, <1>6, <1>7

(* The start of a request, which is about shipments nobody else is about.    *)
LEMMA BeginJobs ==
  ASSUME Typed, Jobs, NEW r \in Request, BeginBeside(r), collided' = {}
  PROVE  Jobs'
<1> USE DEF Typed
<1>1. ASSUME NEW S \in SUBSET live, NEW T \in SUBSET live, S \subseteq T, pc[r] = "new",
             NEW t \in Status, NEW ret \in BOOLEAN, StartJobs(r, S, t, ret),
             Shared(r, T) = {}, UNCHANGED <<live, row, items, lastId, made, gone, filter>>,
             pc' = [pc EXCEPT ![r] = "run"]
      PROVE  Jobs'
  <2>1. t # Deleted /\ t \in Status \cup {Deleted}  BY DEF Status, Deleted
  <2>2. Working' /\ Alone' /\ WholeFilters' /\ MadeHere'  BY <1>1, <2>1, StartWorking
  <2>4. TimesFollow' /\ Standing' /\ live' \subseteq 1..lastId'
    BY <1>1 DEF Jobs, Rows, TimesFollow, Standing
  <2> QED BY <2>2, <2>4 DEF Jobs, Rows
<1>2. ASSUME NEW s \in Shipment, NEW t \in Status, NEW ret \in BOOLEAN, ChangeStatus(r, s, t, ret)
      PROVE  Jobs'
  <2> DEFINE S == {x \in {s} : row[x].status # t}
             T == {s}
  <2>1. S \in SUBSET live /\ T \in SUBSET live /\ S \subseteq T  BY <1>2 DEF ChangeStatus
  <2>2. /\ pc[r] = "new" /\ StartJobs(r, S, t, ret) /\ Shared(r, T) = {}
        /\ UNCHANGED <<live, row, items, lastId, made, filter>> /\ pc' = [pc EXCEPT ![r] = "run"]
    BY <1>2 DEF ChangeStatus, shipmentVars, createVars
  <2>3. gone' = gone  BY DEF BeginBeside
  <2> HIDE DEF S, T
  <2> QED BY <1>1, <2>1, <2>2, <2>3
<1>3. ASSUME NEW o \in Order, NEW t \in Status, NEW ret \in BOOLEAN, ProcessOrder(r, o, t, ret)
      PROVE  Jobs'
  <2> DEFINE S == {s \in Matches(OfOrder(o)) : row[s].status # t}
  <2>1. S \in SUBSET live  BY DEF Matches
  <2>2. /\ pc[r] = "new" /\ StartJobs(r, S, t, ret) /\ Shared(r, S) = {}
        /\ UNCHANGED <<live, row, items, lastId, made, filter>> /\ pc' = [pc EXCEPT ![r] = "run"]
    BY <1>3 DEF ProcessOrder, shipmentVars, createVars
  <2>3. gone' = gone  BY DEF BeginBeside
  <2> HIDE DEF S
  <2> QED BY <1>1, <2>1, <2>2, <2>3
<1>4. ASSUME NEW o \in Order, NEW ret \in BOOLEAN, Delete(r, OfOrder(o), ret)
      PROVE  Jobs'
  <2> DEFINE T == Matches(OfOrder(o))
             S == {s \in T : ret /\ row[s].status = "shipped"}
  <2>1. S \in SUBSET T /\ T \in SUBSET live  BY DEF Matches
  <2>2. /\ pc[r] = "new" /\ StartJobs(r, S, Deleted, ret)
        /\ Shared(r, T) = {} /\ UNCHANGED <<live, row, items, lastId, made>>
        /\ filter' = [filter EXCEPT ![r] = OfOrder(o)] /\ pc' = [pc EXCEPT ![r] = "delete"]
    BY <1>4 DEF Delete, shipmentVars
  <2>3. gone' = gone  BY DEF BeginBeside
  <2> HIDE DEF S, T
  <2>7. Working' /\ Alone' /\ WholeFilters' /\ MadeHere'
    <3>1. Deleted \in Status \cup {Deleted}  OBVIOUS
    <3>2. T = Matches(OfOrder(o))  BY DEF T
    <3> QED BY <2>1, <2>2, <2>3, <3>1, <3>2, StartWorking
  <2>8. TimesFollow' /\ Standing' /\ live' \subseteq 1..lastId'
    BY <2>2, <2>3 DEF Jobs, Rows, TimesFollow, Standing
  <2> QED BY <2>7, <2>8 DEF Jobs, Rows
<1>5. ASSUME NEW o \in Order, NEW p \in [Line -> [Warehouse -> Quantity]], CreateForOrder(r, o, p)
      PROVE  Jobs'
  <2> DEFINE S == Matches(OfOrder(o))
  <2>1. /\ pc[r] = "new" /\ live' = live \ S /\ Shared(r, S) = {}
        /\ items' = [s \in Shipment |-> IF s \in S THEN [l \in Line |-> 0] ELSE items[s]]
        /\ filter' = [filter EXCEPT ![r] = OfOrder(o)] /\ pc' = [pc EXCEPT ![r] = "create"]
        /\ UNCHANGED <<row, lastId, made, job>>
    BY <1>5 DEF CreateForOrder, Replaced, jobVars
  <2>2. gone' = gone  BY DEF BeginBeside
  <2>3. S \in SUBSET live /\ \A s \in live \ S : row[s].order # o
    BY DEF Matches, OfOrder, TypeOK, Row
  <2> HIDE DEF S
  <2>4. ASSUME NEW q \in Request, NEW s \in Shipment, job[q][s] # NoJob
        PROVE  q # r /\ s \in live \ S
    <3>1. q # r  BY <2>1, <2>4, Idle
    <3>2. s \in live  BY <2>4 DEF Jobs, Working
    <3> QED BY <2>1, <2>3, <2>4, <3>1, <3>2, NotShared
  <2>5. /\ \A q \in Request \ {r} : pc'[q] = pc[q] /\ filter'[q] = filter[q]
        /\ pc'[r] = "create" /\ filter'[r] = OfOrder(o)
    BY <2>1 DEF TypeOK
  <2>6. \A s \in live \ S : items'[s] = items[s]  BY <2>1 DEF TypeOK
  <2>7. Working'
    BY <2>1, <2>4, <2>5, <2>6 DEF Jobs, Working
  <2>8. Alone'
    <3> SUFFICES ASSUME NEW q \in Request, NEW s \in Shipment, job[q][s] # NoJob, NEW x \in Request \ {q}
                 PROVE  job[x][s] = NoJob /\ row[s].order \notin filter'[x].orders
      BY <2>1 DEF Alone
    <3>1. job[x][s] = NoJob /\ row[s].order \notin filter[x].orders  BY DEF Jobs, Alone
    <3>2. row[s].order # o  BY <2>3, <2>4
    <3> QED BY <2>5, <3>1, <3>2 DEF OfOrder
  <2>9. WholeFilters' /\ TimesFollow' /\ Standing' /\ live' \subseteq 1..lastId'
    <3>1. OfOrder(o).warehouses = Warehouse  BY DEF OfOrder
    <3>2. WholeFilters'  BY <2>5, <3>1 DEF Jobs, Rows, WholeFilters
    <3> QED BY <2>1, <2>2, <3>2 DEF Jobs, Rows, TimesFollow, Standing
  <2>10. MadeHere'
    <3> SUFFICES ASSUME NEW q \in Request, NEW w \in Warehouse
                 PROVE  /\ pc'[q] # "create" => made[q][w] = 0
                        /\ made[q][w] <= lastId
                        /\ made[q][w] \in live' =>
                             row[made[q][w]].order \in filter'[q].orders /\ ~row[made[q][w]].shippedAt
      BY <2>1 DEF MadeHere
    <3>1. CASE q = r
      <4>1. made[r][w] = 0 /\ 0 \notin live /\ 0 <= lastId
        BY <2>1 DEF Jobs, Rows, MadeHere, TypeOK, Shipment
      <4> QED BY <2>1, <2>5, <3>1, <4>1
    <3>2. CASE q # r  BY <2>1, <2>5, <3>2 DEF Jobs, Rows, MadeHere
    <3> QED BY <3>1, <3>2
  <2> QED BY <2>7, <2>8, <2>9, <2>10 DEF Jobs, Rows
<1> QED BY <1>2, <1>3, <1>4, <1>5 DEF BeginBeside

(* A request ends: nothing of it is left but what it has written. *)
LEMMA EndJobs ==
  ASSUME Typed, Jobs, NEW r \in Request, NEW end \in {"done", "failed"},
         pc' = [pc EXCEPT ![r] = end], filter' = [filter EXCEPT ![r] = NoFilter],
         \A w \in Warehouse : made'[r][w] = 0, \A q \in Request \ {r} : made'[q] = made[q],
         \A s \in Shipment : job'[r][s] = NoJob, \A q \in Request \ {r} : job'[q] = job[q],
         UNCHANGED <<row, lastId, gone>>, live' \subseteq live,
         \A s \in live' : items'[s] = items[s],
         \A q \in Request \ {r}, s \in Shipment : job[q][s] # NoJob => s \in live'
  PROVE  Jobs'
<1> USE DEF Typed
<1>1. /\ \A q \in Request \ {r} : pc'[q] = pc[q] /\ filter'[q] = filter[q]
      /\ pc'[r] \notin {"run", "create", "delete"} /\ filter'[r] = NoFilter
  BY DEF TypeOK
<1>2. Working'  BY <1>1 DEF Jobs, Working
<1>3. Alone'
  <2> SUFFICES ASSUME NEW q \in Request, NEW s \in Shipment, job'[q][s] # NoJob, NEW x \in Request \ {q}
               PROVE  job'[x][s] = NoJob /\ row[s].order \notin filter'[x].orders
    BY DEF Alone
  <2>1. q # r /\ job[q][s] # NoJob  OBVIOUS
  <2>2. job[x][s] = NoJob /\ row[s].order \notin filter[x].orders  BY <2>1 DEF Jobs, Alone
  <2> QED BY <1>1, <2>2 DEF NoFilter
<1>4. WholeFilters'  BY <1>1 DEF Jobs, Rows, WholeFilters, NoFilter
<1>5. TimesFollow' /\ Standing' /\ live' \subseteq 1..lastId'
  BY DEF Jobs, Rows, TimesFollow, Standing
<1>6. MadeHere'
  <2> SUFFICES ASSUME NEW q \in Request, NEW w \in Warehouse
               PROVE  /\ pc'[q] # "create" => made'[q][w] = 0
                      /\ made'[q][w] <= lastId
                      /\ made'[q][w] \in live' =>
                           row[made'[q][w]].order \in filter'[q].orders /\ ~row[made'[q][w]].shippedAt
    BY DEF MadeHere
  <2>1. CASE q = r
    <3>1. made'[r][w] = 0 /\ 0 \notin live /\ 0 <= lastId  BY DEF TypeOK, Shipment
    <3> QED BY <2>1, <3>1
  <2>2. CASE q # r
    <3>1. made'[q] = made[q] /\ filter'[q] = filter[q] /\ pc'[q] = pc[q]  BY <1>1, <2>2
    <3>2. /\ pc[q] # "create" => made[q][w] = 0
          /\ made[q][w] <= lastId
          /\ made[q][w] \in live =>
               row[made[q][w]].order \in filter[q].orders /\ ~row[made[q][w]].shippedAt
      BY DEF Jobs, Rows, MadeHere
    <3> QED BY <3>1, <3>2
  <2> QED BY <2>1, <2>2
<1> QED BY <1>2, <1>3, <1>4, <1>5, <1>6 DEF Jobs, Rows

LEMMA DeleteRowsJobs ==
  ASSUME Typed, Jobs, NEW r \in Request, DeleteRows(r), collided' = {}, UNCHANGED gone
  PROVE  Jobs'
<1> DEFINE S == Matches(filter[r])
<1>1. /\ Shared(r, S) = {} /\ live' = live \ S /\ UNCHANGED <<row, lastId, made>>
      /\ items' = [s \in Shipment |-> IF s \in S THEN [l \in Line |-> 0] ELSE items[s]]
      /\ job' = [job EXCEPT ![r] = [s \in Shipment |-> NoJob]]
      /\ filter' = [filter EXCEPT ![r] = NoFilter] /\ pc' = [pc EXCEPT ![r] = "done"]
      /\ pc[r] = "delete"
  BY DEF DeleteRows
<1>2. S \in SUBSET live  BY DEF Matches
<1> HIDE DEF S
<1>3. \A w \in Warehouse : made'[r][w] = 0  BY <1>1 DEF Jobs, Rows, MadeHere
<1>4. /\ \A s \in Shipment : job'[r][s] = NoJob
      /\ \A q \in Request \ {r} : job'[q] = job[q]
      /\ \A s \in live' : items'[s] = items[s]
  BY <1>1 DEF Typed, TypeOK
<1>5. ASSUME NEW q \in Request \ {r}, NEW s \in Shipment, job[q][s] # NoJob PROVE s \in live'
  <2>1. s \in live  BY <1>5 DEF Jobs, Working
  <2>2. s \notin S  BY <1>1, <1>2, <1>5, NotShared
  <2> QED BY <1>1, <2>1, <2>2
<1>6. live' \subseteq live /\ \A q \in Request \ {r} : made'[q] = made[q]  BY <1>1
<1> QED BY <1>1, <1>3, <1>4, <1>5, <1>6, EndJobs

LEMMA ReturnJobs ==
  ASSUME Typed, Jobs, NEW r \in Request, Return(r), UNCHANGED gone
  PROVE  Jobs'
<1>1. /\ pc' = [pc EXCEPT ![r] = "done"] /\ filter' = [filter EXCEPT ![r] = NoFilter]
      /\ made' = [made EXCEPT ![r] = [w \in Warehouse |-> 0]]
      /\ UNCHANGED <<live, row, items, lastId, job>>
  BY DEF Return, shipmentVars, jobVars
<1>2. \A s \in Shipment : job[r][s] = NoJob
  BY Idle DEF Return, Running
<1>3. /\ \A w \in Warehouse : made'[r][w] = 0
      /\ \A q \in Request \ {r} : made'[q] = made[q]
  BY <1>1 DEF Typed, TypeOK
<1>4. \A q \in Request, s \in Shipment : job[q][s] # NoJob => s \in live  BY DEF Jobs, Working
<1> QED BY <1>1, <1>2, <1>3, <1>4, EndJobs

LEMMA LoseJobs ==
  ASSUME Typed, Jobs, NEW r \in Request, Lose(r), UNCHANGED gone
  PROVE  Jobs'
<1>1. /\ pc' = [pc EXCEPT ![r] = "failed"] /\ filter' = [filter EXCEPT ![r] = NoFilter]
      /\ made' = [made EXCEPT ![r] = [w \in Warehouse |-> 0]]
      /\ job' = [job EXCEPT ![r] = [s \in Shipment |-> NoJob]]
      /\ UNCHANGED <<live, row, items, lastId>>
  BY DEF Lose, shipmentVars
<1>2. /\ \A w \in Warehouse : made'[r][w] = 0
      /\ \A q \in Request \ {r} : made'[q] = made[q] /\ job'[q] = job[q]
      /\ \A s \in Shipment : job'[r][s] = NoJob
  BY <1>1 DEF Typed, TypeOK
<1>3. \A q \in Request, s \in Shipment : job[q][s] # NoJob => s \in live  BY DEF Jobs, Working
<1> QED BY <1>1, <1>2, <1>3, EndJobs

LEMMA CreateItemJobs ==
  ASSUME Typed, Jobs, NEW r \in Request, NEW l \in Line, NEW w \in Warehouse,
         CreateItem(r, l, w), UNCHANGED gone
  PROVE  Jobs'
<1>1. CASE made[r][w] \in live
  <2>1. /\ items' = [items EXCEPT ![made[r][w]][l] = plan[r][l][w]] /\ pc[r] = "create"
        /\ UNCHANGED <<pc, filter, made, live, row, lastId, job>>
    BY <1>1 DEF CreateItem, jobVars
  <2>2. row[made[r][w]].order \in filter[r].orders  BY <1>1 DEF Jobs, Rows, MadeHere
  <2>3. ASSUME NEW q \in Request, NEW s \in Shipment, job[q][s] # NoJob
        PROVE  items'[s] = items[s]
    <3>1. s # made[r][w]
      <4>1. CASE q = r  BY <2>1, <2>3, <4>1, Idle
      <4>2. CASE q # r  BY <2>2, <2>3, <4>2 DEF Jobs, Alone
      <4> QED BY <4>1, <4>2
    <3> QED BY <2>1, <3>1 DEF Typed, TypeOK
  <2>4. Working'  BY <2>1, <2>3 DEF Jobs, Working
  <2>5. Alone' /\ Rows'
    BY <2>1 DEF Jobs, Alone, Rows, WholeFilters, TimesFollow, MadeHere, Standing
  <2> QED BY <2>4, <2>5 DEF Jobs
<1>2. CASE made[r][w] \notin live
  <2>1. /\ pc' = [pc EXCEPT ![r] = "failed"] /\ pc[r] = "create"
        /\ made' = [made EXCEPT ![r] = [y \in Warehouse |-> 0]]
        /\ filter' = [filter EXCEPT ![r] = NoFilter]
        /\ UNCHANGED <<items, live, row, lastId, job>>
    BY <1>2 DEF CreateItem, jobVars
  <2>2. \A s \in Shipment : job[r][s] = NoJob  BY <2>1, Idle
  <2>3. /\ \A y \in Warehouse : made'[r][y] = 0
        /\ \A q \in Request \ {r} : made'[q] = made[q]
    BY <2>1 DEF Typed, TypeOK
  <2>4. \A q \in Request, s \in Shipment : job[q][s] # NoJob => s \in live  BY DEF Jobs, Working
  <2> QED BY <2>1, <2>2, <2>3, <2>4, EndJobs
<1> QED BY <1>1, <1>2

LEMMA CreateShipmentJobs ==
  ASSUME ShipmentsAssumption, Typed, Jobs, NEW r \in Request, NEW w \in Warehouse, CreateShipment(r, w),
         w \notin gone, UNCHANGED gone
  PROVE  Jobs'
<1> DEFINE n == lastId + 1
<1> USE DEF Typed
<1>1. /\ pc[r] = "create" /\ lastId' = n /\ live' = live \cup {n} /\ n \in Shipment
      /\ made' = [made EXCEPT ![r][w] = n]
      /\ UNCHANGED <<items, pc, filter, job>>
      /\ \E o \in filter[r].orders :
           row' = [row EXCEPT ![n] = [order |-> o, status |-> "sent_for_shipment",
                                      shippedAt |-> FALSE, warehouse |-> w]]
  <2>1. n \in Shipment  BY DEF CreateShipment, TypeOK, Shipment, ShipmentsAssumption
  <2>2. lastId' = n  BY DEF CreateShipment
  <2> HIDE DEF n
  <2> QED BY <2>1, <2>2 DEF CreateShipment, jobVars
<1>2. n \notin live /\ lastId \in Nat  BY DEF Jobs, Rows, TypeOK
<1>3. /\ row'[n].order \in filter[r].orders /\ row'[n].status = "sent_for_shipment"
      /\ ~row'[n].shippedAt /\ row'[n].warehouse = w
      /\ \A s \in Shipment \ {n} : row'[s] = row[s]
  BY <1>1 DEF TypeOK
<1> HIDE DEF n
<1>4. \A q \in Request, s \in Shipment : job[q][s] # NoJob => s # n
  BY <1>2 DEF Jobs, Working
<1>5. Working'
  <2> SUFFICES ASSUME NEW q \in Request, NEW s \in Shipment, job[q][s] # NoJob
               PROVE  /\ s \in live' /\ job[q][s].row = row'[s] /\ job[q][s].items = items[s]
                      /\ \/ pc[q] = "run" /\ job[q][s].target # Deleted
                         \/ /\ pc[q] = "delete" /\ job[q][s].target = Deleted
                            /\ row'[s].order \in filter[q].orders
    BY <1>1 DEF Working
  <2>1. row'[s] = row[s]  BY <1>3, <1>4
  <2> QED BY <1>1, <2>1 DEF Jobs, Working
<1>6. Alone'  BY <1>1, <1>3, <1>4 DEF Jobs, Alone
<1>7. WholeFilters' /\ TimesFollow' /\ Standing'
  BY <1>1, <1>3 DEF Jobs, Rows, WholeFilters, TimesFollow, Standing, TypeOK
<1>8. live' \subseteq 1..lastId'
  <2>1. \A s \in live : s \in Int /\ s >= 1 /\ s <= lastId  BY DEF Jobs, Rows, TypeOK
  <2>2. n = lastId + 1 /\ lastId \in Nat  BY <1>2 DEF n
  <2> QED BY <1>1, <2>1, <2>2
<1>9. MadeHere'
  <2> SUFFICES ASSUME NEW q \in Request, NEW x \in Warehouse
               PROVE  /\ pc[q] # "create" => made'[q][x] = 0
                      /\ made'[q][x] <= lastId'
                      /\ made'[q][x] \in live' =>
                           row'[made'[q][x]].order \in filter[q].orders /\ ~row'[made'[q][x]].shippedAt
    BY <1>1 DEF MadeHere
  <2>1. CASE q = r /\ x = w
    <3>1. made'[r][w] = n  BY <1>1 DEF TypeOK
    <3>2. n <= lastId'  BY <1>1, <1>2 DEF n
    <3> QED BY <1>1, <1>3, <2>1, <3>1, <3>2
  <2>2. CASE ~(q = r /\ x = w)
    <3>1. made'[q][x] = made[q][x]  BY <1>1, <2>2 DEF TypeOK
    <3>2. made[q][x] \in Nat /\ made[q][x] <= lastId  BY DEF Jobs, Rows, MadeHere, TypeOK
    <3>3. made[q][x] <= lastId' /\ made[q][x] # n  BY <1>1, <1>2, <3>2 DEF n
    <3>4. made[q][x] \in live' => made[q][x] \in live /\ row'[made[q][x]] = row[made[q][x]]
      BY <1>1, <1>3, <3>3 DEF TypeOK
    <3> QED BY <3>1, <3>3, <3>4 DEF Jobs, Rows, MadeHere
  <2> QED BY <2>1, <2>2
<1> QED BY <1>5, <1>6, <1>7, <1>8, <1>9 DEF Jobs, Rows

(* The columns saved at the end of a job. *)
LEMMA ProcessedFacts ==
  ASSUME NEW rw \in Row, NEW t \in Status
  PROVE  /\ Processed(rw, t).order = rw.order /\ Processed(rw, t).warehouse = rw.warehouse
         /\ Processed(rw, t).status = t
         /\ Processed(rw, t).shippedAt <=>
              t = "shipped" \/ (rw.shippedAt /\ t \notin {"returned", "cancelled"})
BY DEF Processed, Row

LEMMA SaveShipmentFacts ==
  ASSUME Typed, Jobs, NEW r \in Request, NEW s \in Shipment, SaveShipment(r, s)
  PROVE  /\ s \in live /\ job[r][s] # NoJob /\ job[r][s].target \in Status
         /\ live' = live /\ job' = [job EXCEPT ![r][s] = NoJob]
         /\ \A x \in Shipment \ {s} : row'[x] = row[x]
         /\ row'[s].order = row[s].order /\ row'[s].warehouse = row[s].warehouse
         /\ row'[s].status = job[r][s].target
         /\ row'[s].shippedAt <=> LeftAfter(s, job[r][s].target)
         /\ pc[r] = "run"
         /\ \A l \in Line : at[r][s][l] = "idle"
         /\ UNCHANGED <<hasStock, stock, items, lastId, pc, filter, made, at>>
<1> DEFINE j == job[r][s]
<1>1. /\ j # NoJob /\ j.target # Deleted /\ row' = [row EXCEPT ![s] = Processed(j.row, j.target)]
      /\ live' = live \cup {s} /\ job' = [job EXCEPT ![r][s] = NoJob]
      /\ \A l \in Line : at[r][s][l] = "idle"
      /\ UNCHANGED <<hasStock, stock, items, lastId, pc, filter, made, at>>
  BY DEF SaveShipment, stockVars, createVars
<1>2. s \in live /\ j.row = row[s] /\ pc[r] = "run"
  BY <1>1 DEF Jobs, Working
<1>3. j \in Job  BY <1>1 DEF Typed, TypeOK
<1>4. j.target \in Status  BY <1>1, <1>3 DEF Job
<1>5. row[s] \in Row  BY DEF Typed, TypeOK
<1>6. row'[s] = Processed(row[s], j.target) /\ \A x \in Shipment \ {s} : row'[x] = row[x]
  BY <1>1, <1>2 DEF Typed, TypeOK
<1>7. row'[s].shippedAt <=> LeftAfter(s, j.target)
  <2>1. row'[s].shippedAt <=>
          j.target = "shipped" \/ (row[s].shippedAt /\ j.target \notin {"returned", "cancelled"})
    BY <1>4, <1>5, <1>6, ProcessedFacts
  <2> QED BY <1>1, <2>1 DEF LeftAfter, Left
<1> QED BY <1>1, <1>2, <1>4, <1>5, <1>6, <1>7, ProcessedFacts

(* The end of a job.                                                         *)
LEMMA SaveShipmentJobs ==
  ASSUME Typed, Jobs, NEW r \in Request, NEW s \in Shipment, SaveShipment(r, s), UNCHANGED gone
  PROVE  Jobs'
<1> USE DEF Typed
<1>1. /\ s \in live /\ job[r][s] # NoJob /\ job[r][s].target \in Status
      /\ live' = live /\ job' = [job EXCEPT ![r][s] = NoJob]
      /\ \A x \in Shipment \ {s} : row'[x] = row[x]
      /\ row'[s].order = row[s].order /\ row'[s].warehouse = row[s].warehouse
      /\ row'[s].status = job[r][s].target
      /\ row'[s].shippedAt <=> LeftAfter(s, job[r][s].target)
      /\ pc[r] = "run"
      /\ UNCHANGED <<items, lastId, pc, filter, made>>
  BY SaveShipmentFacts
<1>2. ASSUME NEW q \in Request, NEW x \in Shipment, job'[q][x] # NoJob
      PROVE  job'[q][x] = job[q][x] /\ x # s /\ row'[x] = row[x]
  <2>1. ~(q = r /\ x = s) /\ job'[q][x] = job[q][x]  BY <1>1, <1>2 DEF TypeOK
  <2>2. x # s
    <3>1. x = s => q # r /\ job[r][s] # NoJob  BY <1>1, <2>1
    <3>2. q # r => job[q][s] = NoJob  BY <1>1 DEF Jobs, Alone
    <3> QED BY <1>2, <2>1, <3>1, <3>2
  <2> QED BY <1>1, <2>1, <2>2
<1>3. \A q \in Request, x \in Shipment : job[q][x] = NoJob => job'[q][x] = NoJob
  BY <1>1 DEF TypeOK
<1>4. Working'  BY <1>1, <1>2 DEF Jobs, Working
<1>5. Alone'
  BY <1>1, <1>2, <1>3 DEF Jobs, Alone
<1>6. WholeFilters' /\ live' \subseteq 1..lastId'  BY <1>1 DEF Jobs, Rows, WholeFilters
<1>7. Standing'
  <2>1. \A x \in live : row'[x].warehouse = row[x].warehouse  BY <1>1 DEF TypeOK
  <2> QED BY <1>1, <2>1 DEF Jobs, Rows, Standing
<1>8. TimesFollow'
  <2>1. row'[s].status = "shipped" => row'[s].shippedAt  BY <1>1 DEF LeftAfter
  <2> QED BY <1>1, <2>1 DEF Jobs, Rows, TimesFollow, TypeOK
<1>9. \A q \in Request : row[s].order \in filter[q].orders => q = r
  BY <1>1 DEF Jobs, Alone
<1>10. MadeHere'
  <2> SUFFICES ASSUME NEW q \in Request, NEW w \in Warehouse, made[q][w] \in live
               PROVE  row'[made[q][w]].order \in filter[q].orders /\ ~row'[made[q][w]].shippedAt
    BY <1>1 DEF Jobs, Rows, MadeHere
  <2>1. /\ row[made[q][w]].order \in filter[q].orders /\ ~row[made[q][w]].shippedAt
        /\ pc[q] # "create" => made[q][w] = 0
    BY DEF Jobs, Rows, MadeHere
  <2>2. made[q][w] # s
    <3>1. CASE q = r
      <4>1. made[r][w] = 0 /\ s # 0  BY <1>1, <2>1, <3>1 DEF Shipment
      <4> QED BY <3>1, <4>1
    <3>2. CASE q # r  BY <1>9, <2>1, <3>2
    <3> QED BY <3>1, <3>2
  <2>3. row'[made[q][w]] = row[made[q][w]]  BY <1>1, <2>2 DEF TypeOK
  <2> QED BY <2>1, <2>3
<1> QED BY <1>4, <1>5, <1>6, <1>7, <1>8, <1>10 DEF Jobs, Rows

(* The shipments of the old warehouse, which no job is about. *)
LEMMA DeleteWarehouseFacts ==
  ASSUME Typed, Jobs, NEW r \in Request, NEW from \in Warehouse, NEW to \in Warehouse,
         DeleteWarehouse(r, from, to), collided' = {}
  PROVE  /\ from \notin gone /\ (to \in gone => \A s \in live : row[s].warehouse # from)
         /\ pc[r] = "new" /\ pc' = [pc EXCEPT ![r] = "done"]
         /\ UNCHANGED <<hasStock, stock, live, items, lastId, filter, made, job, at, gone>>
         /\ \A s \in Shipment : /\ row'[s].order = row[s].order /\ row'[s].status = row[s].status
                                /\ row'[s].shippedAt = row[s].shippedAt
         /\ \A s \in Shipment : row'[s].warehouse =
              IF s \in live /\ row[s].warehouse = from THEN to ELSE row[s].warehouse
         /\ \A q \in Request, s \in Shipment : job[q][s] # NoJob => row'[s] = row[s]
<1> DEFINE S == Matches([orders |-> Order, warehouses |-> {from}])
<1>1. /\ from \notin gone /\ (to \in gone => \A s \in live : row[s].warehouse # from)
      /\ row' = [s \in Shipment |-> IF s \in S THEN [row[s] EXCEPT !.warehouse = to] ELSE row[s]]
      /\ pc' = [pc EXCEPT ![r] = "done"] /\ pc[r] = "new" /\ Shared(r, S) = {}
      /\ UNCHANGED <<hasStock, stock, live, items, lastId, filter, made, job, at, gone>>
  BY DEF DeleteWarehouse, Relocate, stockVars, createVars, jobVars
<1>2. \A s \in Shipment : s \in S <=> s \in live /\ row[s].warehouse = from
  BY DEF Matches, Typed, TypeOK, Row
<1>3. S \in SUBSET live  BY DEF Matches
<1> HIDE DEF S
<1>4. ASSUME NEW s \in Shipment
      PROVE  /\ row'[s].order = row[s].order /\ row'[s].status = row[s].status
             /\ row'[s].shippedAt = row[s].shippedAt
             /\ row'[s].warehouse = IF s \in live /\ row[s].warehouse = from THEN to ELSE row[s].warehouse
             /\ s \notin S => row'[s] = row[s]
  <2>1. row'[s] = IF s \in S THEN [row[s] EXCEPT !.warehouse = to] ELSE row[s]  BY <1>1
  <2>2. row[s] \in Row  BY DEF Typed, TypeOK
  <2> QED BY <1>2, <2>1, <2>2 DEF Row
<1>5. ASSUME NEW q \in Request, NEW s \in Shipment, job[q][s] # NoJob PROVE row'[s] = row[s]
  <2>1. q # r  BY <1>1, <1>5, Idle
  <2>2. s \notin S  BY <1>1, <1>3, <1>5, <2>1, NotShared
  <2> QED BY <1>4, <2>2
<1> QED BY <1>1, <1>4, <1>5

LEMMA DeleteWarehouseJobs ==
  ASSUME Typed, Jobs, NEW r \in Request, NEW from \in Warehouse, NEW to \in Warehouse,
         DeleteWarehouse(r, from, to), collided' = {}
  PROVE  Jobs'
<1> USE DEF Typed
<1>1. /\ to \in gone => \A s \in live : row[s].warehouse # from
      /\ pc' = [pc EXCEPT ![r] = "done"] /\ pc[r] = "new"
      /\ UNCHANGED <<live, items, lastId, filter, made, job, gone>>
      /\ \A s \in Shipment : /\ row'[s].order = row[s].order /\ row'[s].status = row[s].status
                             /\ row'[s].shippedAt = row[s].shippedAt
      /\ \A s \in Shipment : row'[s].warehouse =
           IF s \in live /\ row[s].warehouse = from THEN to ELSE row[s].warehouse
      /\ \A q \in Request, s \in Shipment : job[q][s] # NoJob => row'[s] = row[s]
  BY DeleteWarehouseFacts
<1>2. \A s \in live : s \in Shipment  BY DEF TypeOK
<1>3. \A q \in Request : /\ pc[q] \in {"run", "create", "delete"} => pc'[q] = pc[q]
                         /\ pc'[q] \in {"run", "create", "delete"} => pc'[q] = pc[q]
  BY <1>1 DEF TypeOK
<1>4. Working'
  <2> SUFFICES ASSUME NEW q \in Request, NEW s \in Shipment, job[q][s] # NoJob
               PROVE  /\ s \in live /\ job[q][s].row = row'[s] /\ job[q][s].items = items[s]
                      /\ \/ pc'[q] = "run" /\ job[q][s].target # Deleted
                         \/ /\ pc'[q] = "delete" /\ job[q][s].target = Deleted
                            /\ row'[s].order \in filter[q].orders
    BY <1>1 DEF Working
  <2>1. row'[s] = row[s]  BY <1>1
  <2> QED BY <1>3, <2>1 DEF Jobs, Working
<1>5. Alone'  BY <1>1 DEF Jobs, Alone
<1>6. WholeFilters' /\ TimesFollow' /\ live' \subseteq 1..lastId'
  BY <1>1, <1>2 DEF Jobs, Rows, WholeFilters, TimesFollow
<1>7. Standing'
  BY <1>1, <1>2 DEF Jobs, Rows, Standing
<1>8. MadeHere'
  BY <1>1, <1>2, <1>3 DEF Jobs, Rows, MadeHere
<1> QED BY <1>4, <1>5, <1>6, <1>7, <1>8 DEF Jobs, Rows

(* A deleted warehouse has no shipments left. *)
LEMMA DeleteRowFacts ==
  ASSUME Typed, NEW r \in Request, DeleteRow(r), collided' = {}
  PROVE  /\ merge[r] # NoMerge /\ merge[r] \in Merge /\ merge[r].stage = "row"
         /\ \A s \in live : row[s].warehouse # merge[r].from
         /\ gone' = gone \cup {merge[r].from}
         /\ UNCHANGED <<live, row, items, lastId, pc, filter, made, job, seen, stock, raced, due,
                        unmoved, oversold, repeated>>
         /\ LET K == (Product \X {merge[r].from}) \cap hasStock IN
            /\ hasStock' = hasStock \ K /\ cascaded' = cascaded \cup K /\ at' = Overtake(K)
            /\ merge' = [Missed(K) EXCEPT ![r] = NoMerge]
<1> DEFINE S == {s \in live : row[s].warehouse = merge[r].from}
<1>1. /\ live' = live \ S /\ collided' = collided \cup S
      /\ items' = [s \in Shipment |-> IF s \in S THEN [l \in Line |-> 0] ELSE items[s]]
  BY DEF DeleteRow
<1>2. S = {}  BY <1>1
<1>3. live' = live /\ items' = items
  <2> HIDE DEF S
  <2> QED BY <1>1, <1>2 DEF Typed, TypeOK
<1>4. merge[r] \in Merge /\ merge[r].stage = "row" /\ merge[r] # NoMerge
  BY DeletionType DEF DeleteRow, Deletes, Typed
<1>5. \A s \in live : row[s].warehouse # merge[r].from  BY <1>2
<1> QED BY <1>3, <1>4, <1>5 DEF DeleteRow, createVars

(* No save is refused: the rows of the shipments stand. *)
LEMMA NothingRefused ==
  ASSUME Jobs, NEW r \in Request, NEW s \in Shipment, job[r][s] # NoJob
  PROVE  job[r][s].row.warehouse \notin gone
BY DEF Jobs, Working, Rows, Standing

(* Jobs holds as long as nothing collides.                                   *)
LEMMA JobsStep ==
  ASSUME ShipmentsAssumption, Typed, Jobs, collided' = {},
         [WarehousesNext]_warehousesVars
  PROVE  Jobs'
<1> USE ShipmentsAssumption
<1>1. ASSUME UNCHANGED <<live, row, items, lastId, pc, filter, made, job, gone>> PROVE Jobs'
  BY <1>1, QuietJobs DEF Jobs, Rows, Standing
<1>2. ASSUME NEW r \in Request, StepBeside(r) PROVE Jobs'
  <2>1. ASSUME NEW s \in Shipment, NEW l \in Line, ReadBeside(r, s, l) \/ SaveBeside(r, s, l)
        PROVE  Jobs'
    BY <1>1, <2>1 DEF ReadBeside, SaveBeside, ReadStock, SaveStock, Untouched, shipmentVars, createVars
  <2>2. ASSUME NEW s \in Shipment, ShipmentRefused(r, s) \/ \E l \in Line : StockRefused(r, s, l)
        PROVE  FALSE
    BY <2>2, NothingRefused DEF ShipmentRefused, StockRefused, Refused
  <2>3. ASSUME NEW s \in Shipment, SaveShipmentBeside(r, s) PROVE Jobs'
    BY <2>3, SaveShipmentJobs DEF SaveShipmentBeside, warehouseVars
  <2>4. ASSUME NEW w \in Warehouse, CreateBeside(r, w) PROVE Jobs'
    BY <2>4, CreateShipmentJobs DEF CreateBeside, warehouseVars
  <2>5. ASSUME NEW w \in Warehouse, CreateRefused(r, w) PROVE Jobs'
    BY <2>5, LoseJobs DEF CreateRefused, warehouseVars
  <2>6. ASSUME NEW w \in Warehouse, NEW l \in Line, CreateItem(r, l, w), UNCHANGED warehouseVars
        PROVE  Jobs'
    BY <2>6, CreateItemJobs DEF warehouseVars
  <2>7. CASE DeleteRowsBeside(r) \/ (Return(r) /\ UNCHANGED warehouseVars)
    BY <2>7, DeleteRowsJobs, ReturnJobs DEF DeleteRowsBeside, warehouseVars
  <2> QED BY <1>2, <2>1, <2>2, <2>3, <2>4, <2>5, <2>6, <2>7 DEF StepBeside
<1>3. ASSUME NEW r \in Request, DeletionStep(r) PROVE Jobs'
  <2>1. ASSUME NEW x \in Relocations, DeleteWarehouse(r, x[1], x[2]) PROVE Jobs'
    <3>1. x[1] \in Warehouse /\ x[2] \in Warehouse  BY DEF ShipmentsAssumption
    <3> QED BY <2>1, <3>1, DeleteWarehouseJobs
  <2>2. CASE DeleteRow(r)
    <3>1. /\ UNCHANGED <<live, row, items, lastId, pc, filter, made, job>>
          /\ \A s \in live : row[s].warehouse \notin gone'
      BY <2>2, DeleteRowFacts DEF Jobs, Rows, Standing
    <3> QED BY <3>1, QuietJobs
  <2>3. CASE \/ ListStocks(r) \/ (\E p \in Product : FindOther(r, p)) \/ MergeRefused(r)
             \/ RowIsReferred(r)
    BY <1>1, <2>3 DEF ListStocks, FindOther, MergeRefused, RowIsReferred, OnlyMerge, vars,
                      shipmentVars, createVars, jobVars
  <2>4. CASE SaveOther(r) \/ MoveRow(r) \/ DropStocks(r) \/ CutShort(r)
    BY <1>1, <2>4 DEF SaveOther, MoveRow, DropStocks, CutShort, shipmentVars, createVars, jobVars
  <2> QED BY <1>3, <2>1, <2>2, <2>3, <2>4 DEF DeletionStep
<1>4. CASE UNCHANGED warehousesVars
  BY <1>1, <1>4 DEF warehousesVars, vars, warehouseVars, shipmentVars, createVars, jobVars
<1> QED BY <1>2, <1>3, <1>4, BeginJobs DEF WarehousesNext

(* What is written is overtaken, what is not is as it was read. *)
LEMMA WriteStep ==
  ASSUME ReadsInv, NEW K, at' = Overtake(K), UNCHANGED <<job, seen>>,
         \A k \in Key \ K : (k \in hasStock => k \in hasStock') /\ stock'[k] = stock[k],
         ShipmentsAssumption
  PROVE  MovingItems' /\ FreshReads'
<1>1. ASSUME NEW r \in Request, NEW s \in Shipment, NEW l \in Line, at'[r][s][l] # "idle"
      PROVE  at[r][s][l] # "idle"
  BY <1>1 DEF Overtake
<1>2. MovingItems'  BY <1>1 DEF ReadsInv, MovingItems
<1>3. FreshReads'
  <2> SUFFICES ASSUME NEW r \in Request, NEW s \in Shipment, NEW l \in Line, at'[r][s][l] = "read"
               PROVE  /\ KeyOf(job[r][s], l) \in hasStock'
                      /\ seen[r][s][l] = stock'[KeyOf(job[r][s], l)]
    BY DEF FreshReads, KeyOf
  <2>1. at[r][s][l] = "read" /\ KeyOf(job[r][s], l) \notin K  BY DEF Overtake
  <2>2. KeyOf(job[r][s], l) \in hasStock /\ seen[r][s][l] = stock[KeyOf(job[r][s], l)]
    BY <2>1 DEF ReadsInv, FreshReads
  <2>3. KeyOf(job[r][s], l) \in Key  BY <2>2 DEF ReadsInv, TypeOK
  <2> QED BY <2>1, <2>2, <2>3
<1> QED BY <1>2, <1>3

(* What a job has read is the present quantity, unless it has been overtaken. *)
LEMMA ReadsBesideStep ==
  ASSUME ShipmentsAssumption, Typed, Jobs, ReadsInv, collided' = {},
         [WarehousesNext]_warehousesVars
  PROVE  MovingItems' /\ FreshReads'
<1> USE ShipmentsAssumption
<1> DEFINE Fine == MovingItems' /\ FreshReads'
<1>1. ASSUME NEW r \in Request, BeginBeside(r) \/ StepBeside(r) PROVE Fine
  <2>1. CASE ShipmentsStep(r)  BY <2>1, ShipmentsStepIsNext, ReadsStep
  <2>2. CASE Lose(r)
    <3>1. /\ \A q \in Request \ {r} : job'[q] = job[q] /\ at'[q] = at[q] /\ seen'[q] = seen[q]
          /\ \A s \in Shipment, l \in Line : at'[r][s][l] = "idle"
          /\ UNCHANGED <<hasStock, stock>>
      BY <2>2 DEF Lose, stockVars, Typed, TypeOK
    <3> QED BY <3>1, JobStep
  <2>3. ASSUME NEW s \in Shipment, ShipmentRefused(r, s) \/ \E l \in Line : StockRefused(r, s, l)
        PROVE  FALSE
    BY <2>3, NothingRefused DEF ShipmentRefused, StockRefused, Refused
  <2>4. BeginBeside(r) => ShipmentsStep(r)  BY DEF ShipmentsStep
  <2>5. StepBeside(r) => \/ ShipmentsStep(r) \/ Lose(r)
                         \/ \E s \in Shipment : ShipmentRefused(r, s) \/ \E l \in Line : StockRefused(r, s, l)
    BY DEF StepBeside, ShipmentsStep, ReadBeside, SaveBeside, SaveShipmentBeside, CreateBeside, CreateRefused,
           DeleteRowsBeside
  <2> QED BY <1>1, <2>1, <2>2, <2>3, <2>4, <2>5
<1>2. ASSUME NEW r \in Request, DeletionStep(r) PROVE Fine
  <2>1. CASE UNCHANGED <<stockVars, jobVars>>  BY <2>1, QuietStep
  <2>2. CASE \/ \E x \in Relocations : DeleteWarehouse(r, x[1], x[2])
             \/ ListStocks(r) \/ (\E p \in Product : FindOther(r, p)) \/ MergeRefused(r)
             \/ RowIsReferred(r) \/ CutShort(r)
    BY <2>1, <2>2 DEF DeleteWarehouse, Relocate, ListStocks, FindOther, MergeRefused, RowIsReferred,
                      CutShort, OnlyMerge, vars
  <2>3. CASE SaveOther(r)
    <3> DEFINE k == Target(merge[r])
    <3>1. /\ at' = Overtake({k}) /\ UNCHANGED <<job, seen>> /\ hasStock' = hasStock \cup {k}
          /\ stock' = [stock EXCEPT ![k] = Merged(merge[r])]
      BY <2>3 DEF SaveOther
    <3>2. \A x \in Key \ {k} : (x \in hasStock => x \in hasStock') /\ stock'[x] = stock[x]
      BY <3>1 DEF Typed, TypeOK
    <3> QED BY <3>1, <3>2, WriteStep
  <2>4. CASE MoveRow(r)
    <3> DEFINE k == Target(merge[r])
               old == <<merge[r].product, merge[r].from>>
    <3>1. CASE UNCHANGED <<hasStock, stock, at>>
      <4>1. UNCHANGED <<stockVars, jobVars>>  BY <2>4, <3>1 DEF MoveRow, stockVars, jobVars
      <4> QED BY <2>1, <4>1
    <3>2. CASE /\ stock' = [stock EXCEPT ![k] = stock[old]]
               /\ hasStock' = (hasStock \ {old}) \cup {k} /\ at' = Overtake({old, k})
      <4>1. UNCHANGED <<job, seen>>  BY <2>4 DEF MoveRow
      <4>2. \A x \in Key \ {old, k} : (x \in hasStock => x \in hasStock') /\ stock'[x] = stock[x]
        BY <3>2 DEF Typed, TypeOK
      <4> QED BY <3>2, <4>1, <4>2, WriteStep
    <3> QED BY <2>4, <3>1, <3>2 DEF MoveRow
  <2>5. CASE DropStocks(r)
    <3> DEFINE K == SourceOf(merge[r], Product) \cap hasStock
    <3>1. /\ at' = Overtake(K) /\ UNCHANGED <<job, seen, stock>> /\ hasStock' = hasStock \ K
      BY <2>5 DEF DropStocks
    <3> HIDE DEF K
    <3>2. \A x \in Key \ K : (x \in hasStock => x \in hasStock') /\ stock'[x] = stock[x]
      BY <3>1
    <3> QED BY <3>1, <3>2, WriteStep
  <2>6. CASE DeleteRow(r)
    <3> DEFINE K == (Product \X {merge[r].from}) \cap hasStock
    <3>1. /\ at' = Overtake(K) /\ UNCHANGED <<job, seen, stock>> /\ hasStock' = hasStock \ K
      BY <2>6 DEF DeleteRow
    <3> HIDE DEF K
    <3>2. \A x \in Key \ K : (x \in hasStock => x \in hasStock') /\ stock'[x] = stock[x]
      BY <3>1
    <3> QED BY <3>1, <3>2, WriteStep
  <2> QED BY <1>2, <2>2, <2>3, <2>4, <2>5, <2>6 DEF DeletionStep
<1>3. CASE UNCHANGED warehousesVars
  BY <1>3, QuietStep DEF warehousesVars, vars
<1> QED BY <1>1, <1>2, <1>3 DEF WarehousesNext

------------------------------------------------------------------------------
(* What the steps of a deletion change, and the kinds of steps there are.    *)

(* What the steps of a deletion do, in terms of the fields they change. *)
LEMMA DeleteWarehouseMerge ==
  ASSUME Typed, NEW r \in Request, NEW from, NEW to, DeleteWarehouse(r, from, to)
  PROVE  LET m == merge'[r] IN
         /\ m # NoMerge /\ m.stage = "list" /\ m.from = from /\ m.to = to
         /\ m.left = {} /\ m.changed = {} /\ m.other = 0 /\ m.had = [p \in Product |-> 0]
         /\ \A q \in Request \ {r} : merge'[q] = merge[q]
         /\ repeated' = (repeated \/ Deletions # {})
         /\ UNCHANGED <<hasStock, stock, gone, due, unmoved, cascaded, oversold, raced>>
<1> DEFINE new == [stage |-> "list", from |-> from, to |-> to, left |-> {},
                   had |-> [p \in Product |-> 0], product |-> CHOOSE p \in Product : TRUE,
                   other |-> 0, stale |-> FALSE, changed |-> {}]
<1>1. merge' = [merge EXCEPT ![r] = new]  BY DEF DeleteWarehouse
<1>2. merge'[r] = new /\ \A q \in Request \ {r} : merge'[q] = merge[q]
  BY <1>1 DEF Typed, MergeTyped
<1>3. NoMerge.stage = "none"  BY DEF NoMerge
<1>4. new # NoMerge  BY <1>3
<1> QED BY <1>2, <1>4 DEF DeleteWarehouse, Relocate, stockVars

LEMMA ListStocksMerge ==
  ASSUME Typed, NEW r \in Request, ListStocks(r)
  PROVE  LET m == merge'[r] IN
         /\ merge[r] \in Merge /\ merge[r].stage = "list" /\ merge[r] # NoMerge
         /\ m # NoMerge /\ m.stage = "find" /\ m.from = merge[r].from /\ m.to = merge[r].to
         /\ m.left = {p \in Product : <<p, m.from>> \in hasStock} /\ m.changed = {}
         /\ m.other = merge[r].other
         /\ m.had = [p \in Product |-> IF <<p, m.from>> \in hasStock THEN stock[<<p, m.from>>] ELSE 0]
         /\ \A q \in Request \ {r} : merge'[q] = merge[q]
         /\ UNCHANGED <<vars, gone, due, unmoved, cascaded, oversold, repeated>>
<1> DEFINE found == {p \in Product : <<p, merge[r].from>> \in hasStock}
           had == [p \in Product |-> IF p \in found THEN stock[<<p, merge[r].from>>] ELSE 0]
           new == [merge[r] EXCEPT !.stage = "find", !.changed = {}, !.left = found, !.had = had]
<1>1. merge[r] \in Merge /\ merge[r].stage = "list" /\ merge[r] # NoMerge
  BY DeletionType DEF ListStocks, Deletes, Typed
<1>2. merge' = [merge EXCEPT ![r] = new]  BY DEF ListStocks, Goes
<1>3. had = [p \in Product |-> IF <<p, merge[r].from>> \in hasStock THEN stock[<<p, merge[r].from>>] ELSE 0]
  OBVIOUS
<1> HIDE DEF found, had
<1>4. /\ new.stage = "find" /\ new.from = merge[r].from /\ new.to = merge[r].to
      /\ new.left = found /\ new.changed = {} /\ new.other = merge[r].other /\ new.had = had
  BY <1>1 DEF Merge
<1> HIDE DEF new
<1>5. merge'[r] = new /\ \A q \in Request \ {r} : merge'[q] = merge[q]
  BY <1>2 DEF Typed, MergeTyped
<1>6. new # NoMerge
  <2>1. NoMerge.stage = "none"  BY DEF NoMerge
  <2> QED BY <1>4, <2>1
<1>7. UNCHANGED <<vars, gone, due, unmoved, cascaded, oversold, repeated>>  BY DEF ListStocks, OnlyMerge
<1> QED BY <1>1, <1>3, <1>4, <1>5, <1>6, <1>7 DEF found

LEMMA FindOtherMerge ==
  ASSUME Typed, NEW r \in Request, NEW p \in Product, FindOther(r, p)
  PROVE  LET m == merge'[r] IN
         /\ merge[r] \in Merge /\ merge[r].stage = "find" /\ merge[r] # NoMerge
         /\ p \in merge[r].left
         /\ m # NoMerge /\ m.from = merge[r].from /\ m.to = merge[r].to
         /\ m.product = p /\ m.left = merge[r].left \ {p} /\ m.changed = merge[r].changed
         /\ m.had = merge[r].had
         /\ \/ /\ m.stage = "save" /\ <<p, m.to>> \in hasStock /\ m.other = stock[<<p, m.to>>]
            \/ m.stage = "move" /\ m.other = merge[r].other
         /\ \A q \in Request \ {r} : merge'[q] = merge[q]
         /\ UNCHANGED <<vars, gone, due, unmoved, cascaded, oversold, repeated>>
<1> DEFINE m == [merge[r] EXCEPT !.product = p, !.left = @ \ {p}, !.stale = FALSE]
           other == stock[Target(m)]
           save == [m EXCEPT !.stage = "save", !.other = other]
           move == [m EXCEPT !.stage = "move"]
<1>1. merge[r] \in Merge /\ merge[r].stage = "find" /\ merge[r] # NoMerge /\ p \in merge[r].left
  BY DeletionType DEF FindOther, Deletes, Typed
<1>2. /\ m.from = merge[r].from /\ m.to = merge[r].to /\ m.product = p /\ m.left = merge[r].left \ {p}
      /\ m.changed = merge[r].changed /\ m.had = merge[r].had /\ m.other = merge[r].other
      /\ m \in Merge
  BY <1>1 DEF Merge
<1>3. \/ Target(m) \in hasStock /\ merge' = [merge EXCEPT ![r] = save]
      \/ merge' = [merge EXCEPT ![r] = move]
  BY DEF FindOther, Goes
<1>4. Target(m) = <<p, merge[r].to>>  BY <1>2 DEF Target
<1> HIDE DEF m, other
<1>5. /\ save.stage = "save" /\ save.from = m.from /\ save.to = m.to /\ save.product = m.product
      /\ save.left = m.left /\ save.changed = m.changed /\ save.had = m.had /\ save.other = other
      /\ move.stage = "move" /\ move.from = m.from /\ move.to = m.to /\ move.product = m.product
      /\ move.left = m.left /\ move.changed = m.changed /\ move.had = m.had /\ move.other = m.other
  BY <1>2 DEF Merge
<1> HIDE DEF save, move
<1>6. /\ \/ Target(m) \in hasStock /\ merge'[r] = save
         \/ merge'[r] = move
      /\ \A q \in Request \ {r} : merge'[q] = merge[q]
  BY <1>3 DEF Typed, MergeTyped
<1>7. merge'[r] # NoMerge
  <2>1. NoMerge.stage = "none"  BY DEF NoMerge
  <2> QED BY <1>5, <1>6, <2>1
<1>8. UNCHANGED <<vars, gone, due, unmoved, cascaded, oversold, repeated>>  BY DEF FindOther, OnlyMerge
<1> QED BY <1>1, <1>2, <1>4, <1>5, <1>6, <1>7, <1>8 DEF other

LEMMA SaveOtherMerge ==
  ASSUME Typed, NEW r \in Request, SaveOther(r)
  PROVE  LET m == merge'[r]
             k == <<merge[r].product, merge[r].to>>
         IN
         /\ merge[r] \in Merge /\ merge[r].stage = "save" /\ merge[r] # NoMerge
         /\ merge[r].product \in Product /\ k \in Key
         /\ m # NoMerge /\ m.stage = "find" /\ m.from = merge[r].from /\ m.to = merge[r].to
         /\ m.left = merge[r].left /\ m.changed = merge[r].changed /\ m.had = merge[r].had /\ m.other = 0
         /\ \A q \in Request \ {r} : merge'[q] = Missed({k})[q]
         /\ hasStock' = hasStock \cup {k}
         /\ stock' = [stock EXCEPT ![k] = merge[r].other + merge[r].had[merge[r].product]]
         /\ raced' = {} => ~merge[r].stale /\ merge[r].product \notin merge[r].changed
         /\ at' = Overtake({k})
         /\ UNCHANGED <<live, row, items, job, gone, due, unmoved, cascaded, oversold, repeated>>
<1> DEFINE k == Target(merge[r])
           no == FALSE
           new == [merge[r] EXCEPT !.stage = "find", !.other = 0, !.stale = no]
<1>1. merge[r] \in Merge /\ merge[r].stage = "save" /\ merge[r] # NoMerge /\ merge[r].product \in Product
  BY DeletionType DEF SaveOther, Deletes, Typed, MergeTyped
<1>2. merge' = [Missed({k}) EXCEPT ![r] = new]  BY DEF SaveOther
<1>3. k = <<merge[r].product, merge[r].to>> /\ k \in Key  BY <1>1 DEF Target, Merge, Key
<1> HIDE DEF k, no
<1>4. /\ new.stage = "find" /\ new.from = merge[r].from /\ new.to = merge[r].to
      /\ new.left = merge[r].left /\ new.changed = merge[r].changed /\ new.had = merge[r].had
      /\ new.other = 0
  BY <1>1 DEF Merge
<1> HIDE DEF new
<1>5. merge'[r] = new /\ \A q \in Request \ {r} : merge'[q] = Missed({k})[q]
  BY <1>2, MissedType DEF Typed
<1>6. new # NoMerge
  <2>1. NoMerge.stage = "none"  BY DEF NoMerge
  <2> QED BY <1>4, <2>1
<1>7. /\ hasStock' = hasStock \cup {k}
      /\ stock' = [stock EXCEPT ![k] = merge[r].other + merge[r].had[merge[r].product]]
      /\ raced' = {} => ~merge[r].stale /\ merge[r].product \notin merge[r].changed
      /\ at' = Overtake({k})
      /\ UNCHANGED <<live, row, items, job, gone, due, unmoved, cascaded, oversold, repeated>>
  BY DEF SaveOther, Merged, shipmentVars, k
<1> QED BY <1>1, <1>3, <1>4, <1>5, <1>6, <1>7

LEMMA MoveRowMerge ==
  ASSUME Typed, NEW r \in Request, MoveRow(r)
  PROVE  LET m == merge'[r]
             k == <<merge[r].product, merge[r].to>>
             old == <<merge[r].product, merge[r].from>>
         IN
         /\ merge[r] \in Merge /\ merge[r].stage = "move" /\ merge[r] # NoMerge
         /\ merge[r].product \in Product /\ k \in Key /\ old \in Key
         /\ m # NoMerge /\ m.stage = "find" /\ m.from = merge[r].from /\ m.to = merge[r].to
         /\ m.left = merge[r].left /\ m.had = merge[r].had /\ m.other = merge[r].other
         /\ \/ /\ k \notin hasStock /\ old \in hasStock
               /\ hasStock' = (hasStock \ {old}) \cup {k}
               /\ stock' = [stock EXCEPT ![k] = stock[old]]
               /\ m.changed = merge[r].changed \ {merge[r].product}
               /\ at' = Overtake({old, k})
               /\ \A q \in Request \ {r} : merge'[q] = Missed({old, k})[q]
            \/ /\ old \notin hasStock \/ m.from = m.to
               /\ UNCHANGED <<hasStock, stock, at>>
               /\ m.changed = merge[r].changed
               /\ \A q \in Request \ {r} : merge'[q] = merge[q]
         /\ UNCHANGED <<live, row, items, job, raced, gone, due, unmoved, cascaded, oversold, repeated>>
<1> DEFINE k == Target(merge[r])
           old == <<merge[r].product, merge[r].from>>
           new1 == [merge[r] EXCEPT !.stage = "find", !.changed = @ \ {merge[r].product}]
           new2 == [merge[r] EXCEPT !.stage = "find"]
<1>1. merge[r] \in Merge /\ merge[r].stage = "move" /\ merge[r] # NoMerge /\ merge[r].product \in Product
  BY DeletionType DEF MoveRow, Deletes, Typed, MergeTyped
<1>2. k = <<merge[r].product, merge[r].to>> /\ k \in Key /\ old \in Key
  BY <1>1 DEF Target, Merge, Key
<1>3. \/ /\ k \notin hasStock /\ old \in hasStock /\ hasStock' = (hasStock \ {old}) \cup {k}
         /\ stock' = [stock EXCEPT ![k] = stock[old]] /\ at' = Overtake({old, k})
         /\ merge' = [Missed({old, k}) EXCEPT ![r] = new1]
      \/ /\ old \notin hasStock \/ merge[r].from = merge[r].to
         /\ UNCHANGED <<hasStock, stock, at>> /\ merge' = [merge EXCEPT ![r] = new2]
  BY DEF MoveRow, Goes
<1> HIDE DEF k
<1>4. /\ new1.stage = "find" /\ new1.from = merge[r].from /\ new1.to = merge[r].to
      /\ new1.left = merge[r].left /\ new1.had = merge[r].had /\ new1.other = merge[r].other
      /\ new1.changed = merge[r].changed \ {merge[r].product}
      /\ new2.stage = "find" /\ new2.from = merge[r].from /\ new2.to = merge[r].to
      /\ new2.left = merge[r].left /\ new2.had = merge[r].had /\ new2.other = merge[r].other
      /\ new2.changed = merge[r].changed
  BY <1>1 DEF Merge
<1> HIDE DEF new1, new2
<1>5. new1 # NoMerge /\ new2 # NoMerge
  <2>1. NoMerge.stage = "none"  BY DEF NoMerge
  <2> QED BY <1>4, <2>1
<1>6. UNCHANGED <<live, row, items, job, raced, gone, due, unmoved, cascaded, oversold, repeated>>
  BY DEF MoveRow, shipmentVars
<1>7. CASE /\ k \notin hasStock /\ old \in hasStock /\ hasStock' = (hasStock \ {old}) \cup {k}
           /\ stock' = [stock EXCEPT ![k] = stock[old]] /\ at' = Overtake({old, k})
           /\ merge' = [Missed({old, k}) EXCEPT ![r] = new1]
  <2>1. merge'[r] = new1 /\ \A q \in Request \ {r} : merge'[q] = Missed({old, k})[q]
    BY <1>7, MissedType DEF Typed
  <2> QED BY <1>1, <1>2, <1>4, <1>5, <1>6, <1>7, <2>1
<1>8. CASE /\ old \notin hasStock \/ merge[r].from = merge[r].to
           /\ UNCHANGED <<hasStock, stock, at>> /\ merge' = [merge EXCEPT ![r] = new2]
  <2>1. merge'[r] = new2 /\ \A q \in Request \ {r} : merge'[q] = merge[q]
    BY <1>8 DEF Typed, MergeTyped
  <2> QED BY <1>1, <1>2, <1>4, <1>5, <1>6, <1>8, <2>1
<1> QED BY <1>3, <1>7, <1>8

LEMMA DropStocksMerge ==
  ASSUME Typed, NEW r \in Request, DropStocks(r)
  PROVE  LET m == merge'[r]
             K == {k \in hasStock : k[2] = merge[r].from}
         IN
         /\ merge[r] \in Merge /\ merge[r].stage = "find" /\ merge[r] # NoMerge /\ merge[r].left = {}
         /\ m # NoMerge /\ m.stage = "row" /\ m.from = merge[r].from /\ m.to = merge[r].to
         /\ m.had = merge[r].had /\ m.other = merge[r].other
         /\ hasStock' = hasStock \ K /\ raced' = raced \cup (merge[r].changed \X {merge[r].to})
         /\ at' = Overtake(K)
         /\ due' = Inherited(merge[r])
         /\ cascaded \subseteq cascaded'
         /\ cascaded' = IF m.from = m.to THEN cascaded \cup SourceOf(m, Product) ELSE cascaded
         /\ \A q \in Request \ {r} : merge'[q] = Missed(K)[q]
         /\ UNCHANGED <<stock, live, row, items, job, gone, unmoved, oversold, repeated>>
<1> DEFINE K == SourceOf(merge[r], Product) \cap hasStock
           new == [merge[r] EXCEPT !.stage = "row"]
<1>1. merge[r] \in Merge /\ merge[r].stage = "find" /\ merge[r] # NoMerge /\ merge[r].left = {}
  BY DeletionType DEF DropStocks, Deletes, Typed, MergeTyped
<1>2. K = {k \in hasStock : k[2] = merge[r].from}  BY DEF SourceOf, Typed, TypeOK, Key
<1>3. /\ merge' = [Missed(K) EXCEPT ![r] = new] /\ hasStock' = hasStock \ K
      /\ raced' = raced \cup (merge[r].changed \X {merge[r].to}) /\ at' = Overtake(K)
      /\ due' = Inherited(merge[r])
      /\ cascaded' = IF merge[r].from = merge[r].to THEN cascaded \cup SourceOf(merge[r], Product)
                     ELSE cascaded
      /\ UNCHANGED <<stock, live, row, items, job, gone, unmoved, oversold, repeated>>
  BY DEF DropStocks, shipmentVars
<1> HIDE DEF K
<1>4. /\ new.stage = "row" /\ new.from = merge[r].from /\ new.to = merge[r].to
      /\ new.had = merge[r].had /\ new.other = merge[r].other
  BY <1>1 DEF Merge
<1> HIDE DEF new
<1>5. new # NoMerge
  <2>1. NoMerge.stage = "none"  BY DEF NoMerge
  <2> QED BY <1>4, <2>1
<1>6. merge'[r] = new /\ \A q \in Request \ {r} : merge'[q] = Missed(K)[q]
  BY <1>3, MissedType DEF Typed
<1>7. SourceOf(new, Product) = SourceOf(merge[r], Product)  BY <1>4 DEF SourceOf
<1> QED BY <1>1, <1>2, <1>3, <1>4, <1>5, <1>6, <1>7

LEMMA DeleteRowMerge ==
  ASSUME Typed, NEW r \in Request, DeleteRow(r)
  PROVE  LET K == {k \in hasStock : k[2] = merge[r].from} IN
         /\ merge[r] \in Merge /\ merge[r].stage = "row" /\ merge[r] # NoMerge
         /\ merge'[r] = NoMerge /\ \A q \in Request \ {r} : merge'[q] = Missed(K)[q]
         /\ hasStock' = hasStock \ K /\ cascaded' = cascaded \cup K /\ at' = Overtake(K)
         /\ UNCHANGED <<stock, raced, row, due, unmoved, oversold, repeated>>
<1> DEFINE K == (Product \X {merge[r].from}) \cap hasStock
<1>1. merge[r] \in Merge /\ merge[r].stage = "row" /\ merge[r] # NoMerge
  BY DeletionType DEF DeleteRow, Deletes, Typed, MergeTyped
<1>2. K = {k \in hasStock : k[2] = merge[r].from}  BY DEF Typed, TypeOK, Key
<1>3. /\ merge' = [Missed(K) EXCEPT ![r] = NoMerge] /\ hasStock' = hasStock \ K
      /\ cascaded' = cascaded \cup K /\ at' = Overtake(K)
      /\ UNCHANGED <<stock, raced, row, due, unmoved, oversold, repeated>>
  BY DEF DeleteRow
<1> HIDE DEF K
<1>4. merge'[r] = NoMerge /\ \A q \in Request \ {r} : merge'[q] = Missed(K)[q]
  BY <1>3, MissedType DEF Typed
<1> QED BY <1>1, <1>2, <1>3, <1>4

(* A deletion that ends before it is done. *)
Ends(r) == MergeRefused(r) \/ RowIsReferred(r) \/ CutShort(r)

LEMMA EndsMerge ==
  ASSUME Typed, NEW r \in Request, Ends(r)
  PROVE  /\ merge[r] # NoMerge /\ merge'[r] = NoMerge /\ repeated' = TRUE
         /\ \A q \in Request \ {r} : merge'[q] = merge[q]
         /\ UNCHANGED <<hasStock, stock, live, row, items, job, at, raced, gone, due, unmoved, cascaded,
                        oversold>>
<1>1. merge[r] # NoMerge
  <2>1. NoMerge.stage = "none"  BY DEF NoMerge
  <2> QED BY <2>1 DEF Ends, MergeRefused, RowIsReferred, CutShort, Deletes
<1>2. merge' = [merge EXCEPT ![r] = NoMerge] /\ repeated' = TRUE
  BY DEF Ends, MergeRefused, RowIsReferred, CutShort, Goes
<1>3. merge'[r] = NoMerge /\ \A q \in Request \ {r} : merge'[q] = merge[q]
  BY <1>2 DEF Typed, MergeTyped
<1>4. UNCHANGED <<hasStock, stock, live, row, items, job, at, raced, gone, due, unmoved, cascaded,
                  oversold>>
  BY DEF Ends, MergeRefused, RowIsReferred, CutShort, vars, stockVars, shipmentVars, jobVars
<1> QED BY <1>1, <1>2, <1>3, <1>4

(* A job moves goods in or out of the stock row k. *)
Writes(r, s, l, k) ==
  /\ job[r][s] \in Job /\ job[r][s] # NoJob /\ k \in Key /\ job[r][s].items[l] \in Nat
  /\ at[r][s][l] # "idle" /\ (raced' = {} => at[r][s][l] = "read")
  /\ hasStock' = hasStock \cup {k}
  /\ stock'[k] = seen[r][s][l]
       + Direction(job[r][s].target, job[r][s].returnStocks) * job[r][s].items[l]
  /\ \A x \in Key \ {k} : (x \in hasStock <=> x \in hasStock') /\ stock'[x] = stock[x]
  /\ at' = [Overtake({k}) EXCEPT ![r][s][l] = "idle"]
  /\ merge' = Missed({k})
  /\ oversold \subseteq oversold' /\ (stock'[k] < 0 => oversold' # {})
  /\ UNCHANGED <<live, row, items, job, gone, due, unmoved, cascaded, repeated>>

LEMMA SaveBesideFacts ==
  ASSUME ShipmentsAssumption, Typed, NEW r \in Request, NEW s \in Shipment, NEW l \in Line,
         SaveBeside(r, s, l)
  PROVE  Writes(r, s, l, KeyOf(job[r][s], l))
<1> DEFINE j == job[r][s]
           k == KeyOf(j, l)
           v == seen[r][s][l] + Direction(j.target, j.returnStocks) * j.items[l]
<1>1. j \in Job /\ j # NoJob /\ j.items[l] \in Nat
  BY DEF SaveBeside, SaveStock, Typed, TypeOK, Job, Items, Quantity, ShipmentsAssumption
<1>2. k \in Key  BY <1>1, KeyOfType
<1>3. /\ hasStock' = hasStock \cup {k}
      /\ stock' = [stock EXCEPT ![k] = v]
      /\ raced' = {} => at[r][s][l] = "read"
      /\ at[r][s][l] # "idle"
      /\ at' = [Overtake({k}) EXCEPT ![r][s][l] = "idle"]
      /\ merge' = Missed({k})
      /\ UNCHANGED <<live, row, items, job, gone, due, unmoved, cascaded, repeated>>
  BY DEF SaveBeside, SaveStock, Untouched, shipmentVars
<1>4. oversold' = oversold \cup {x \in {k} : stock'[x] < 0}  BY DEF SaveBeside
<1> HIDE DEF v, k
<1>5. stock'[k] = v /\ \A x \in Key \ {k} : stock'[x] = stock[x]
  BY <1>2, <1>3 DEF Typed, TypeOK
<1>6. \A x \in Key \ {k} : x \in hasStock <=> x \in hasStock'  BY <1>3
<1>7. oversold \subseteq oversold' /\ (stock'[k] < 0 => oversold' # {})
  <2> DEFINE n == stock'[k]
  <2>1. n = stock'[k] /\ oversold' = oversold \cup {x \in {k} : stock'[x] < 0}  BY <1>4
  <2> HIDE DEF n
  <2> QED BY <2>1
<1> QED BY <1>1, <1>2, <1>3, <1>5, <1>6, <1>7 DEF Writes, v, k

(* The kinds of steps, for what follows. *)
Keeps == UNCHANGED <<hasStock, stock, merge, gone, cascaded, oversold, repeated>>

LEMMA BesideKeeps ==
  ASSUME NEW r \in Request, BeginBeside(r) \/ StepBeside(r),
         ~\E s \in Shipment, l \in Line : SaveBeside(r, s, l)
  PROVE  Keeps
<1>1. CASE BeginBeside(r)
  BY <1>1 DEF Keeps, BeginBeside, ChangeStatus, ProcessOrder, CreateForOrder, Delete, stockVars,
              warehouseVars
<1>2. ASSUME NEW s \in Shipment, NEW l \in Line, ReadBeside(r, s, l) \/ StockRefused(r, s, l)
      PROVE  Keeps
  BY <1>2 DEF Keeps, ReadBeside, ReadStock, Untouched, StockRefused, DropJob, stockVars, warehouseVars
<1>3. ASSUME NEW s \in Shipment, SaveShipmentBeside(r, s) \/ ShipmentRefused(r, s) PROVE Keeps
  BY <1>3 DEF Keeps, SaveShipmentBeside, SaveShipment, ShipmentRefused, DropJob, stockVars, warehouseVars
<1>4. ASSUME NEW w \in Warehouse,
             \/ CreateBeside(r, w) \/ CreateRefused(r, w)
             \/ \E l \in Line : CreateItem(r, l, w) /\ UNCHANGED warehouseVars
      PROVE  Keeps
  BY <1>4 DEF Keeps, CreateBeside, CreateShipment, CreateRefused, Lose, CreateItem, stockVars, warehouseVars
<1>5. CASE DeleteRowsBeside(r) \/ (Return(r) /\ UNCHANGED warehouseVars)
  BY <1>5 DEF Keeps, DeleteRowsBeside, DeleteRows, Return, stockVars, warehouseVars
<1> QED BY <1>1, <1>2, <1>3, <1>4, <1>5 DEF StepBeside

(* Every step is of one of these kinds.                                      *)
LEMMA Kinds ==
  ASSUME ShipmentsAssumption, [WarehousesNext]_warehousesVars
  PROVE  \/ Keeps
         \/ \E r \in Request :
              \/ \E s \in Shipment, l \in Line : SaveBeside(r, s, l)
              \/ \E from, to \in Warehouse : DeleteWarehouse(r, from, to)
              \/ ListStocks(r) \/ \E p \in Product : FindOther(r, p)
              \/ SaveOther(r) \/ MoveRow(r) \/ DropStocks(r) \/ DeleteRow(r) \/ Ends(r)
<1>1. UNCHANGED warehousesVars => Keeps
  BY DEF warehousesVars, warehouseVars, vars, stockVars, Keeps
<1>2. ASSUME NEW r \in Request, BeginBeside(r) \/ StepBeside(r)
      PROVE  Keeps \/ \E s \in Shipment, l \in Line : SaveBeside(r, s, l)
  BY <1>2, BesideKeeps
<1>3. ASSUME NEW r \in Request, DeletionStep(r)
      PROVE  \/ \E from, to \in Warehouse : DeleteWarehouse(r, from, to)
             \/ ListStocks(r) \/ \E p \in Product : FindOther(r, p)
             \/ SaveOther(r) \/ MoveRow(r) \/ DropStocks(r) \/ DeleteRow(r) \/ Ends(r)
  <2>1. \A m \in Relocations : m[1] \in Warehouse /\ m[2] \in Warehouse  BY DEF ShipmentsAssumption
  <2> QED BY <1>3, <2>1 DEF DeletionStep, Ends
<1> QED BY <1>1, <1>2, <1>3 DEF WarehousesNext

------------------------------------------------------------------------------
Now(r, p) == merge[r].stage \in {"save", "move"} /\ merge[r].product = p
Merging(r) == merge[r].stage \in {"find", "save", "move"}

(* What a deletion has read still holds, unless it has been marked: the row  *)
(* it will save, and, but for a warehouse merged into itself, the rows it    *)
(* has listed.                                                               *)
ReadingOf(r) ==
  LET m == merge[r] IN m # NoMerge =>
    /\ m.stage = "save" /\ ~m.stale =>
         <<m.product, m.to>> \in hasStock /\ m.other = stock[<<m.product, m.to>>]
    /\ m.from # m.to =>
         /\ m.stage \in {"save", "move"} => m.product \notin m.left
         /\ Merging(r) => \A p \in Product \ m.changed :
              /\ p \in m.left \/ Now(r, p) => <<p, m.from>> \in hasStock
              /\ <<p, m.from>> \in hasStock => m.had[p] = stock[<<p, m.from>>]
Reading == \A r \in Request : ReadingOf(r)

(* Deletions overlap only where repeated says so.                            *)
OneMerge == ~repeated => \A q, r \in Request : merge[q] # NoMerge /\ merge[r] # NoMerge => q = r

(* Nothing below zero is in stock or held by a deletion.                     *)
Positive == oversold = {} =>
  /\ \A k \in hasStock : stock[k] >= 0
  /\ \A r \in Request : merge[r] # NoMerge =>
       merge[r].other >= 0 /\ \A p \in Product : merge[r].had[p] >= 0

LEMMA ReadingKept ==
  ASSUME NEW q \in Request, ReadingOf(q), UNCHANGED <<hasStock, stock>>, merge'[q] = merge[q]
  PROVE  ReadingOf(q)'
BY DEF ReadingOf, Merging, Now

LEMMA ReadingMissed ==
  ASSUME Typed, NEW K, NEW q \in Request, ReadingOf(q), merge'[q] = Missed(K)[q],
         \A k \in Key \ K : (k \in hasStock <=> k \in hasStock') /\ stock'[k] = stock[k]
  PROVE  ReadingOf(q)'
<1> USE DEF Typed
<1>1. CASE merge[q] = NoMerge
  <2>1. merge'[q] = NoMerge  BY <1>1 DEF Missed
  <2> QED BY <2>1 DEF ReadingOf
<1>2. CASE merge[q] # NoMerge
  <2> DEFINE m == merge[q]
             n == merge'[q]
  <2>1. /\ n # NoMerge /\ n.stage = m.stage /\ n.from = m.from /\ n.to = m.to /\ n.left = m.left
        /\ n.had = m.had /\ n.product = m.product /\ n.other = m.other
        /\ n.changed = m.changed \cup {p \in Product : <<p, m.from>> \in K}
        /\ n.stale <=> m.stale \/ (m.stage = "save" /\ Target(m) \in K)
    BY <1>2, MissedFields
  <2>2. m \in Merge  BY <1>2, DeletionType
  <2>3. m.from \in Warehouse /\ m.to \in Warehouse /\ m.changed \subseteq Product
    BY <2>2 DEF Merge
  <2>4. m.stage = "save" => m.product \in Product  BY DEF MergeTyped, Deletes
  <2> HIDE DEF n, m
  <2>5. /\ m.stage = "save" /\ ~m.stale =>
             <<m.product, m.to>> \in hasStock /\ m.other = stock[<<m.product, m.to>>]
        /\ m.from # m.to =>
             /\ m.stage \in {"save", "move"} => m.product \notin m.left
             /\ m.stage \in {"find", "save", "move"} => \A p \in Product \ m.changed :
                  /\ p \in m.left \/ (m.stage \in {"save", "move"} /\ m.product = p)
                       => <<p, m.from>> \in hasStock
                  /\ <<p, m.from>> \in hasStock => m.had[p] = stock[<<p, m.from>>]
    BY <1>2 DEF ReadingOf, Merging, Now, m
  <2>6. n.stage = "save" /\ ~n.stale =>
          <<n.product, n.to>> \in hasStock' /\ n.other = stock'[<<n.product, n.to>>]
    <3> SUFFICES ASSUME n.stage = "save", ~n.stale
                 PROVE  <<n.product, n.to>> \in hasStock' /\ n.other = stock'[<<n.product, n.to>>]
      OBVIOUS
    <3>1. m.stage = "save" /\ ~m.stale /\ <<m.product, m.to>> \notin K  BY <2>1 DEF Target
    <3>2. <<m.product, m.to>> \in Key  BY <2>3, <2>4, <3>1 DEF Key
    <3> QED BY <2>1, <2>5, <3>1, <3>2
  <2>7. ASSUME n.from # n.to, n.stage \in {"find", "save", "move"}, NEW p \in Product \ n.changed
        PROVE  /\ p \in n.left \/ (n.stage \in {"save", "move"} /\ n.product = p)
                    => <<p, n.from>> \in hasStock'
               /\ <<p, n.from>> \in hasStock' => n.had[p] = stock'[<<p, n.from>>]
    <3>1. p \in Product \ m.changed /\ <<p, m.from>> \notin K  BY <2>1
    <3>2. <<p, m.from>> \in Key  BY <2>3 DEF Key
    <3> QED BY <2>1, <2>5, <2>7, <3>1, <3>2
  <2> QED BY <2>1, <2>5, <2>6, <2>7 DEF ReadingOf, Merging, Now, n
<1> QED BY <1>1, <1>2

------------------------------------------------------------------------------
(* What a deletion has read, and what of it another write has made stale.    *)

(* Every step marks what it makes stale.                                     *)
LEMMA ReadingStep ==
  ASSUME ShipmentsAssumption, Typed, Reading, [WarehousesNext]_warehousesVars
  PROVE  Reading'
<1> SUFFICES ASSUME NEW q \in Request PROVE ReadingOf(q)'
  BY DEF Reading
<1> USE ShipmentsAssumption
<1>1. ReadingOf(q)  BY DEF Reading
<1>2. CASE Keeps  BY <1>1, <1>2, ReadingKept DEF Keeps
<1>3. ASSUME NEW r \in Request, NEW s \in Shipment, NEW l \in Line, SaveBeside(r, s, l)
      PROVE  ReadingOf(q)'
  <2>1. PICK k : Writes(r, s, l, k)  BY <1>3, SaveBesideFacts
  <2>2. /\ merge' = Missed({k})
        /\ \A x \in Key \ {k} : (x \in hasStock <=> x \in hasStock') /\ stock'[x] = stock[x]
    BY <2>1 DEF Writes
  <2> QED BY <1>1, <2>2, ReadingMissed
<1>4. ASSUME NEW r \in Request, NEW from \in Warehouse, NEW to \in Warehouse,
             DeleteWarehouse(r, from, to)
      PROVE  ReadingOf(q)'
  <2>1. LET m == merge'[r] IN
         /\ m # NoMerge /\ m.stage = "list" /\ m.from = from /\ m.to = to
         /\ \A x \in Request \ {r} : merge'[x] = merge[x]
         /\ UNCHANGED <<hasStock, stock>>
    BY <1>4, DeleteWarehouseMerge
  <2>2. CASE q = r  BY <2>1, <2>2 DEF ReadingOf, Merging
  <2>3. CASE q # r  BY <1>1, <2>1, <2>3, ReadingKept
  <2> QED BY <2>2, <2>3
<1>5. ASSUME NEW r \in Request, ListStocks(r) PROVE ReadingOf(q)'
  <2>1. LET m == merge'[r] IN
         /\ merge[r] # NoMerge
         /\ m # NoMerge /\ m.stage = "find" /\ m.from = merge[r].from /\ m.to = merge[r].to
         /\ m.left = {p \in Product : <<p, m.from>> \in hasStock} /\ m.changed = {}
         /\ m.had = [p \in Product |-> IF <<p, m.from>> \in hasStock THEN stock[<<p, m.from>>] ELSE 0]
         /\ \A x \in Request \ {r} : merge'[x] = merge[x]
         /\ UNCHANGED vars
    BY <1>5, ListStocksMerge
  <2>2. UNCHANGED <<hasStock, stock>>  BY <2>1 DEF vars, stockVars
  <2>3. CASE q = r  BY <1>1, <2>1, <2>2, <2>3 DEF ReadingOf, Merging, Now
  <2>4. CASE q # r  BY <1>1, <2>1, <2>2, <2>4, ReadingKept
  <2> QED BY <2>3, <2>4
<1>6. ASSUME NEW r \in Request, NEW p \in Product, FindOther(r, p) PROVE ReadingOf(q)'
  <2>1. LET m == merge'[r] IN
         /\ merge[r].stage = "find" /\ merge[r] # NoMerge /\ p \in merge[r].left
         /\ m # NoMerge /\ m.from = merge[r].from /\ m.to = merge[r].to
         /\ m.product = p /\ m.left = merge[r].left \ {p} /\ m.changed = merge[r].changed
         /\ m.had = merge[r].had
         /\ \/ /\ m.stage = "save" /\ <<p, m.to>> \in hasStock /\ m.other = stock[<<p, m.to>>]
            \/ m.stage = "move"
         /\ \A x \in Request \ {r} : merge'[x] = merge[x]
         /\ UNCHANGED vars
    BY <1>6, FindOtherMerge
  <2>2. UNCHANGED <<hasStock, stock>>  BY <2>1 DEF vars, stockVars
  <2>3. CASE q = r
    <3> DEFINE m == merge[r]
               n == merge'[r]
    <3>1. m.from # m.to =>
            \A x \in Product \ m.changed :
               /\ x \in m.left => <<x, m.from>> \in hasStock
               /\ <<x, m.from>> \in hasStock => m.had[x] = stock[<<x, m.from>>]
      BY <1>1, <2>1, <2>3 DEF ReadingOf, Merging
    <3>2. /\ n # NoMerge /\ n.from = m.from /\ n.to = m.to /\ n.product = p /\ n.left = m.left \ {p}
          /\ n.changed = m.changed /\ n.had = m.had /\ p \in m.left
          /\ n.stage = "save" => <<p, n.to>> \in hasStock /\ n.other = stock[<<p, n.to>>]
      BY <2>1
    <3> HIDE DEF m, n
    <3> QED BY <2>2, <2>3, <3>1, <3>2 DEF ReadingOf, Merging, Now, n
  <2>4. CASE q # r  BY <1>1, <2>1, <2>2, <2>4, ReadingKept
  <2> QED BY <2>3, <2>4
<1>7. ASSUME NEW r \in Request, SaveOther(r) PROVE ReadingOf(q)'
  <2> DEFINE k == <<merge[r].product, merge[r].to>>
             m == merge[r]
             n == merge'[r]
  <2>1. /\ m \in Merge /\ m.stage = "save" /\ m # NoMerge /\ m.product \in Product /\ k \in Key
        /\ n # NoMerge /\ n.stage = "find" /\ n.from = m.from /\ n.to = m.to
        /\ n.left = m.left /\ n.changed = m.changed /\ n.had = m.had
        /\ \A x \in Request \ {r} : merge'[x] = Missed({k})[x]
        /\ hasStock' = hasStock \cup {k}
        /\ stock' = [stock EXCEPT ![k] = m.other + m.had[m.product]]
    BY <1>7, SaveOtherMerge
  <2>2. \A x \in Key \ {k} : (x \in hasStock <=> x \in hasStock') /\ stock'[x] = stock[x]
    BY <2>1 DEF Typed, TypeOK
  <2>3. CASE q = r /\ m.from # m.to
    <3>1. \A x \in Product \ m.changed :
            /\ x \in m.left => <<x, m.from>> \in hasStock
            /\ <<x, m.from>> \in hasStock => m.had[x] = stock[<<x, m.from>>]
      BY <1>1, <2>1, <2>3 DEF ReadingOf, Merging
    <3>2. m.from \in Warehouse  BY <2>1 DEF Merge
    <3>3. \A x \in Product : <<x, m.from>> \in Key \ {k}  BY <2>3, <3>2 DEF Key
    <3> HIDE DEF m, n, k
    <3> QED BY <2>1, <2>2, <2>3, <3>1, <3>3 DEF ReadingOf, Merging, Now, n
  <2>4. CASE q # r
    <3> HIDE DEF k
    <3> QED BY <1>1, <2>1, <2>2, <2>4, ReadingMissed
  <2>5. CASE q = r /\ m.from = m.to
    <3> HIDE DEF m, n, k
    <3> QED BY <2>1, <2>5 DEF ReadingOf, n
  <2> QED BY <2>3, <2>4, <2>5
<1>8. ASSUME NEW r \in Request, MoveRow(r) PROVE ReadingOf(q)'
  <2> DEFINE k == <<merge[r].product, merge[r].to>>
             old == <<merge[r].product, merge[r].from>>
             m == merge[r]
             n == merge'[r]
  <2>1. /\ m \in Merge /\ m.stage = "move" /\ m # NoMerge /\ m.product \in Product /\ k \in Key
        /\ n # NoMerge /\ n.stage = "find" /\ n.from = m.from /\ n.to = m.to
        /\ n.left = m.left /\ n.had = m.had
    BY <1>8, MoveRowMerge
  <2>2. q = r /\ m.from # m.to =>
          /\ m.product \notin m.left
          /\ \A x \in Product \ m.changed :
               /\ x \in m.left => <<x, m.from>> \in hasStock
               /\ <<x, m.from>> \in hasStock => m.had[x] = stock[<<x, m.from>>]
    BY <1>1, <2>1 DEF ReadingOf, Merging
  <2>9. CASE q = r /\ m.from = m.to
    <3> HIDE DEF m, n, k, old
    <3> QED BY <2>1, <2>9 DEF ReadingOf, n
  <2>3. CASE /\ old \in hasStock /\ hasStock' = (hasStock \ {old}) \cup {k}
             /\ stock' = [stock EXCEPT ![k] = stock[old]] /\ n.changed = m.changed \ {m.product}
             /\ \A x \in Request \ {r} : merge'[x] = Missed({old, k})[x]
    <3>1. \A x \in Key \ {old, k} : (x \in hasStock <=> x \in hasStock') /\ stock'[x] = stock[x]
      BY <2>3 DEF Typed, TypeOK
    <3>2. CASE q = r /\ m.from # m.to
      <4>1. m.from \in Warehouse  BY <2>1 DEF Merge
      <4>2. old \notin hasStock'  BY <2>2, <2>3, <3>2
      <4>3. \A x \in Product \ {m.product} : <<x, m.from>> \in Key \ {old, k}
        BY <2>2, <3>2, <4>1 DEF Key
      <4>4. ASSUME NEW x \in Product \ n.changed
            PROVE  /\ x \in n.left => <<x, n.from>> \in hasStock'
                   /\ <<x, n.from>> \in hasStock' => n.had[x] = stock'[<<x, n.from>>]
        <5>1. CASE x = m.product  BY <2>1, <2>2, <3>2, <4>2, <5>1
        <5>2. CASE x # m.product
          <6>1. x \in Product \ m.changed  BY <2>3, <5>2
          <6>2. <<x, m.from>> \in Key \ {old, k}  BY <4>3, <5>2
          <6> HIDE DEF old, k, m, n
          <6> QED BY <2>1, <2>2, <3>1, <3>2, <6>1, <6>2
        <5> QED BY <5>1, <5>2
      <4> HIDE DEF m, n, k, old
      <4> QED BY <2>1, <2>2, <3>2, <4>4 DEF ReadingOf, Merging, Now, n
    <3>3. CASE q # r
      <4> HIDE DEF k, old
      <4> QED BY <1>1, <2>3, <3>1, <3>3, ReadingMissed
    <3> QED BY <2>9, <3>2, <3>3
  <2>4. CASE /\ UNCHANGED <<hasStock, stock>> /\ n.changed = m.changed
             /\ \A x \in Request \ {r} : merge'[x] = merge[x]
    <3>1. CASE q = r /\ m.from # m.to
      <4> HIDE DEF m, n, k, old
      <4> QED BY <2>1, <2>2, <2>4, <3>1 DEF ReadingOf, Merging, Now, n
    <3>2. CASE q # r  BY <1>1, <2>4, <3>2, ReadingKept
    <3> QED BY <2>9, <3>1, <3>2
  <2> QED BY <1>8, <2>3, <2>4, MoveRowMerge
<1>9. ASSUME NEW r \in Request, DropStocks(r) PROVE ReadingOf(q)'
  <2> DEFINE K == {k \in hasStock : k[2] = merge[r].from}
  <2>1. /\ merge[r] # NoMerge /\ merge'[r] # NoMerge /\ merge'[r].stage = "row"
        /\ merge'[r].from = merge[r].from /\ merge'[r].to = merge[r].to
        /\ hasStock' = hasStock \ K /\ UNCHANGED stock
        /\ \A x \in Request \ {r} : merge'[x] = Missed(K)[x]
    BY <1>9, DropStocksMerge
  <2>2. CASE q = r  BY <1>1, <2>1, <2>2 DEF ReadingOf, Merging
  <2>3. CASE q # r
    <3> HIDE DEF K
    <3>1. \A x \in Key \ K : (x \in hasStock <=> x \in hasStock') /\ stock'[x] = stock[x]  BY <2>1
    <3> QED BY <1>1, <2>1, <2>3, <3>1, ReadingMissed
  <2> QED BY <2>2, <2>3
<1>10. ASSUME NEW r \in Request, DeleteRow(r) PROVE ReadingOf(q)'
  <2> DEFINE K == {k \in hasStock : k[2] = merge[r].from}
  <2>1. /\ merge'[r] = NoMerge /\ hasStock' = hasStock \ K /\ UNCHANGED stock
        /\ \A x \in Request \ {r} : merge'[x] = Missed(K)[x]
    BY <1>10, DeleteRowMerge
  <2>2. CASE q = r  BY <2>1, <2>2 DEF ReadingOf
  <2>3. CASE q # r
    <3> HIDE DEF K
    <3>1. \A x \in Key \ K : (x \in hasStock <=> x \in hasStock') /\ stock'[x] = stock[x]  BY <2>1
    <3> QED BY <1>1, <2>1, <2>3, <3>1, ReadingMissed
  <2> QED BY <2>2, <2>3
<1>11. ASSUME NEW r \in Request, Ends(r) PROVE ReadingOf(q)'
  <2>1. /\ merge'[r] = NoMerge /\ \A x \in Request \ {r} : merge'[x] = merge[x]
        /\ UNCHANGED <<hasStock, stock>>
    BY <1>11, EndsMerge
  <2>2. CASE q = r  BY <2>1, <2>2 DEF ReadingOf
  <2>3. CASE q # r  BY <1>1, <2>1, <2>3, ReadingKept
  <2> QED BY <2>2, <2>3
<1> QED BY <1>2, <1>3, <1>4, <1>5, <1>6, <1>7, <1>8, <1>9, <1>10, <1>11, Kinds

(* What the ghosts have recorded stays recorded. *)
Grows == raced \subseteq raced' /\ collided \subseteq collided' /\ unmoved \subseteq unmoved'

LEMMA GhostsGrow ==
  ASSUME [WarehousesNext]_warehousesVars
  PROVE  Grows
<1>1. UNCHANGED warehousesVars => Grows
  BY DEF warehousesVars, warehouseVars, vars, stockVars, Grows
<1>2. ASSUME NEW r \in Request, BeginBeside(r) PROVE Grows
  BY <1>2 DEF Grows, BeginBeside, ChangeStatus, ProcessOrder, CreateForOrder, Delete, stockVars,
              warehouseVars
<1>3. ASSUME NEW r \in Request, NEW s \in Shipment, NEW l \in Line,
             ReadBeside(r, s, l) \/ SaveBeside(r, s, l) \/ StockRefused(r, s, l)
      PROVE  Grows
  BY <1>3 DEF Grows, ReadBeside, ReadStock, SaveBeside, SaveStock, StockRefused, DropJob, stockVars,
              warehouseVars
<1>4. ASSUME NEW r \in Request, NEW s \in Shipment, SaveShipmentBeside(r, s) \/ ShipmentRefused(r, s)
      PROVE  Grows
  BY <1>4 DEF Grows, SaveShipmentBeside, SaveShipment, ShipmentRefused, DropJob, stockVars, warehouseVars
<1>5. ASSUME NEW r \in Request, NEW w \in Warehouse,
             \/ CreateBeside(r, w) \/ CreateRefused(r, w)
             \/ \E l \in Line : CreateItem(r, l, w) /\ UNCHANGED warehouseVars
      PROVE  Grows
  BY <1>5 DEF Grows, CreateBeside, CreateShipment, CreateRefused, Lose, CreateItem, stockVars, warehouseVars
<1>6. ASSUME NEW r \in Request, DeleteRowsBeside(r) \/ (Return(r) /\ UNCHANGED warehouseVars)
      PROVE  Grows
  BY <1>6 DEF Grows, DeleteRowsBeside, DeleteRows, Return, stockVars, warehouseVars
<1>7. ASSUME NEW r \in Request, NEW from, NEW to, DeleteWarehouse(r, from, to) PROVE Grows
  BY <1>7 DEF Grows, DeleteWarehouse, Relocate, stockVars
<1>8. ASSUME NEW r \in Request, ListStocks(r) \/ (\E p \in Product : FindOther(r, p)) \/ Ends(r)
      PROVE  Grows
  BY <1>8 DEF Grows, ListStocks, FindOther, OnlyMerge, Ends, MergeRefused, RowIsReferred, CutShort, vars, stockVars
<1>9. ASSUME NEW r \in Request, SaveOther(r) \/ MoveRow(r) \/ DropStocks(r) \/ DeleteRow(r) PROVE Grows
  BY <1>9 DEF Grows, SaveOther, MoveRow, DropStocks, DeleteRow
<1> QED
  BY <1>1, <1>2, <1>3, <1>4, <1>5, <1>6, <1>7, <1>8, <1>9
  DEF WarehousesNext, StepBeside, DeletionStep, Ends

(* What is clean after a step was clean before it.                           *)
LEMMA CleanBefore ==
  ASSUME [WarehousesNext]_warehousesVars, Clean' PROVE Clean
BY GhostsGrow DEF Grows, Clean

------------------------------------------------------------------------------
(* But for new deletions, the ones that run ran before. *)
LEMMA MissedStays ==
  ASSUME Typed, NEW K, NEW q \in Request
  PROVE  /\ merge[q] = NoMerge <=> Missed(K)[q] = NoMerge
         /\ Missed(K)[q] # NoMerge =>
              /\ Missed(K)[q].stage = merge[q].stage /\ Missed(K)[q].from = merge[q].from
              /\ Missed(K)[q].had = merge[q].had /\ Missed(K)[q].other = merge[q].other
<1>1. CASE merge[q] = NoMerge  BY <1>1 DEF Missed
<1>2. CASE merge[q] # NoMerge  BY <1>2, MissedFields DEF Typed
<1> QED BY <1>1, <1>2

(* The other deletions at a step of one.                                     *)
LEMMA StepsOfDeletion ==
  ASSUME Typed, NEW r \in Request,
         \/ ListStocks(r) \/ \E p \in Product : FindOther(r, p)
         \/ SaveOther(r) \/ MoveRow(r) \/ DropStocks(r) \/ DeleteRow(r) \/ Ends(r)
  PROVE  /\ merge[r] # NoMerge /\ (repeated' = repeated \/ repeated' = TRUE)
         /\ \/ \A q \in Request \ {r} : merge'[q] = merge[q]
            \/ \E K : \A q \in Request \ {r} : merge'[q] = Missed(K)[q]
<1> DEFINE Kept == \A q \in Request \ {r} : merge'[q] = merge[q]
           Some(K) == \A q \in Request \ {r} : merge'[q] = Missed(K)[q]
           Flag == merge[r] # NoMerge /\ (repeated' = repeated \/ repeated' = TRUE)
<1>1. CASE ListStocks(r)
  <2>1. Flag /\ Kept  BY <1>1, ListStocksMerge
  <2> QED BY <2>1
<1>2. ASSUME NEW p \in Product, FindOther(r, p) PROVE Flag /\ Kept
  BY <1>2, FindOtherMerge
<1>3. CASE SaveOther(r)
  <2>1. Flag /\ Some({<<merge[r].product, merge[r].to>>})  BY <1>3, SaveOtherMerge
  <2> QED BY <2>1
<1>4. CASE MoveRow(r)
  <2>1. Flag /\ (Kept \/ Some({<<merge[r].product, merge[r].from>>, <<merge[r].product, merge[r].to>>}))
    BY <1>4, MoveRowMerge
  <2> QED BY <2>1
<1>5. CASE DropStocks(r)
  <2>1. Flag /\ Some({k \in hasStock : k[2] = merge[r].from})  BY <1>5, DropStocksMerge
  <2> QED BY <2>1
<1>6. CASE DeleteRow(r)
  <2>1. Flag /\ Some({k \in hasStock : k[2] = merge[r].from})  BY <1>6, DeleteRowMerge
  <2> QED BY <2>1
<1>7. CASE Ends(r)
  <2>1. Flag /\ Kept  BY <1>7, EndsMerge
  <2> QED BY <2>1
<1> QED BY <1>1, <1>2, <1>3, <1>4, <1>5, <1>6, <1>7

(* At most one deletion runs, unless repeated.                               *)
LEMMA OneMergeStep ==
  ASSUME ShipmentsAssumption, Typed, OneMerge, [WarehousesNext]_warehousesVars
  PROVE  OneMerge'
<1> USE ShipmentsAssumption
<1>1. CASE Keeps  BY <1>1 DEF Keeps, OneMerge
<1>2. ASSUME NEW r \in Request, NEW s \in Shipment, NEW l \in Line, SaveBeside(r, s, l)
      PROVE  OneMerge'
  <2>1. PICK k : Writes(r, s, l, k)  BY <1>2, SaveBesideFacts
  <2>2. merge' = Missed({k}) /\ repeated' = repeated  BY <2>1 DEF Writes
  <2>3. \A q \in Request : merge[q] = NoMerge <=> merge'[q] = NoMerge  BY <2>2, MissedStays
  <2> QED BY <2>2, <2>3 DEF OneMerge
<1>3. ASSUME NEW r \in Request, NEW from \in Warehouse, NEW to \in Warehouse, DeleteWarehouse(r, from, to)
      PROVE  OneMerge'
  <2>1. /\ \A q \in Request \ {r} : merge'[q] = merge[q]
        /\ repeated' = (repeated \/ Deletions # {})
    BY <1>3, DeleteWarehouseMerge
  <2> QED BY <2>1 DEF OneMerge, Deletions
<1>4. ASSUME NEW r \in Request,
             \/ ListStocks(r) \/ \E p \in Product : FindOther(r, p)
             \/ SaveOther(r) \/ MoveRow(r) \/ DropStocks(r) \/ DeleteRow(r) \/ Ends(r)
      PROVE  OneMerge'
  <2>1. /\ merge[r] # NoMerge /\ (repeated' = repeated \/ repeated' = TRUE)
        /\ \/ \A q \in Request \ {r} : merge'[q] = merge[q]
           \/ \E K : \A q \in Request \ {r} : merge'[q] = Missed(K)[q]
    BY <1>4, StepsOfDeletion
  <2>2. \A q \in Request \ {r} : merge'[q] # NoMerge => merge[q] # NoMerge
    <3>1. ASSUME NEW K, \A q \in Request \ {r} : merge'[q] = Missed(K)[q]
          PROVE  \A q \in Request \ {r} : merge'[q] # NoMerge => merge[q] # NoMerge
      BY <3>1, MissedStays
    <3> QED BY <2>1, <3>1
  <2> QED BY <2>1, <2>2 DEF OneMerge
<1> QED BY <1>1, <1>2, <1>3, <1>4, Kinds

(* A deletion does not hold less than nothing. *)
Holds(m) == m # NoMerge => m.other >= 0 /\ \A p \in Product : m.had[p] >= 0

(* Sums of what is not below zero are not.                                   *)
LEMMA PositiveStep ==
  ASSUME ShipmentsAssumption, Typed, TypeOK', Positive, [WarehousesNext]_warehousesVars
  PROVE  Positive'
<1> USE ShipmentsAssumption DEF Typed
<1>1. CASE Keeps  BY <1>1 DEF Keeps, Positive
<1> DEFINE Safe == (\A k \in hasStock : stock[k] >= 0) /\ \A q \in Request : Holds(merge[q])
           Safe2 == (\A k \in hasStock' : stock'[k] >= 0) /\ \A q \in Request : Holds(merge'[q])
<1>2. (oversold = {} => Safe) /\ (Positive' <=> (oversold' = {} => Safe2))
  BY DEF Positive, Holds
<1>3. ASSUME NEW K, NEW q \in Request, merge'[q] = Missed(K)[q], Holds(merge[q]) PROVE Holds(merge'[q])
  BY <1>3, MissedStays DEF Holds
<1>4. /\ stock \in [Key -> Int] /\ hasStock \subseteq Key
      /\ stock' \in [Key -> Int] /\ hasStock' \subseteq Key
  BY DEF TypeOK
<1>5. ASSUME NEW r \in Request, NEW s \in Shipment, NEW l \in Line, SaveBeside(r, s, l), oversold' = {}
      PROVE  Safe2
  <2>1. PICK k : Writes(r, s, l, k)  BY <1>5, SaveBesideFacts
  <2>2. /\ merge' = Missed({k}) /\ oversold = {} /\ ~(stock'[k] < 0) /\ k \in Key
        /\ hasStock' = hasStock \cup {k} /\ \A x \in Key \ {k} : stock'[x] = stock[x]
    BY <1>5, <2>1 DEF Writes
  <2>3. \A q \in Request : Holds(merge'[q])  BY <1>2, <1>3, <2>2
  <2>4. ASSUME NEW x \in hasStock' PROVE stock'[x] >= 0
    <3>1. CASE x = k
      <4>1. stock'[x] \in Int /\ ~(stock'[x] < 0)  BY <1>4, <2>2, <3>1
      <4> QED BY <4>1
    <3>2. CASE x # k  BY <1>2, <1>4, <2>2, <3>2
    <3> QED BY <3>1, <3>2
  <2> QED BY <2>3, <2>4
<1>6. ASSUME NEW r \in Request, NEW from \in Warehouse, NEW to \in Warehouse, DeleteWarehouse(r, from, to),
             Safe
      PROVE  Safe2
  <2> DEFINE n == merge'[r]
             nought == 0
  <2>1. /\ n.other = nought /\ n.had = [p \in Product |-> nought]
        /\ \A q \in Request \ {r} : merge'[q] = merge[q]
        /\ UNCHANGED <<hasStock, stock>>
    BY <1>6, DeleteWarehouseMerge
  <2>2. nought >= 0  OBVIOUS
  <2> HIDE DEF n, nought
  <2>3. Holds(n)  BY <2>1, <2>2 DEF Holds
  <2> QED BY <1>6, <2>1, <2>3 DEF n
<1>7. ASSUME NEW r \in Request, ListStocks(r), Safe PROVE Safe2
  <2> DEFINE n == merge'[r]
  <2>1. /\ merge[r] # NoMerge /\ n.other = merge[r].other
        /\ n.had = [p \in Product |-> IF <<p, n.from>> \in hasStock THEN stock[<<p, n.from>>] ELSE 0]
        /\ \A q \in Request \ {r} : merge'[q] = merge[q]
        /\ UNCHANGED vars
    BY <1>7, ListStocksMerge
  <2>2. UNCHANGED <<hasStock, stock>>  BY <2>1 DEF vars, stockVars
  <2>3. Holds(merge[r])  BY <1>7
  <2> HIDE DEF n
  <2>4. Holds(n)  BY <1>7, <2>1, <2>3 DEF Holds
  <2> QED BY <1>7, <2>1, <2>2, <2>4 DEF n
<1>8. ASSUME NEW r \in Request, NEW p \in Product, FindOther(r, p), Safe PROVE Safe2
  <2> DEFINE n == merge'[r]
             m == merge[r]
  <2>1. /\ m # NoMerge /\ n.had = m.had
        /\ \/ <<p, n.to>> \in hasStock /\ n.other = stock[<<p, n.to>>]
           \/ n.other = m.other
        /\ \A q \in Request \ {r} : merge'[q] = merge[q]
        /\ UNCHANGED vars
    BY <1>8, FindOtherMerge
  <2>2. UNCHANGED <<hasStock, stock>>  BY <2>1 DEF vars, stockVars
  <2>3. Holds(m)  BY <1>8
  <2> HIDE DEF n, m
  <2>4. Holds(n)  BY <1>8, <2>1, <2>3 DEF Holds
  <2> QED BY <1>8, <2>1, <2>2, <2>4 DEF n
<1>9. ASSUME NEW r \in Request, SaveOther(r), Safe PROVE Safe2
  <2> DEFINE n == merge'[r]
             m == merge[r]
             k == <<m.product, m.to>>
             v == m.other + m.had[m.product]
             nought == 0
  <2>1. /\ m \in Merge /\ m # NoMerge /\ m.product \in Product /\ k \in Key
        /\ n.had = m.had /\ n.other = nought
        /\ \A q \in Request \ {r} : merge'[q] = Missed({k})[q]
        /\ hasStock' = hasStock \cup {k} /\ stock' = [stock EXCEPT ![k] = v]
    BY <1>9, SaveOtherMerge
  <2>2. Holds(m) /\ nought >= 0  BY <1>9
  <2>3. m.other \in Int /\ m.had[m.product] \in Int  BY <2>1 DEF Merge
  <2>4. v >= 0  BY <2>1, <2>2, <2>3 DEF Holds
  <2> HIDE DEF n, m, k, v, nought
  <2>5. Holds(n)  BY <2>1, <2>2 DEF Holds
  <2>6. \A x \in hasStock' : stock'[x] >= 0  BY <1>4, <1>9, <2>1, <2>4
  <2>7. \A q \in Request \ {r} : Holds(merge'[q])  BY <1>3, <1>9, <2>1
  <2> QED BY <2>5, <2>6, <2>7 DEF n
<1>10. ASSUME NEW r \in Request, MoveRow(r), Safe PROVE Safe2
  <2> DEFINE n == merge'[r]
             m == merge[r]
             k == <<m.product, m.to>>
             old == <<m.product, m.from>>
  <2>1. /\ m # NoMerge /\ n.had = m.had /\ n.other = m.other /\ k \in Key
        /\ \/ /\ hasStock' = (hasStock \ {old}) \cup {k} /\ stock' = [stock EXCEPT ![k] = stock[old]]
              /\ old \in hasStock /\ \A q \in Request \ {r} : merge'[q] = Missed({old, k})[q]
           \/ UNCHANGED <<hasStock, stock>> /\ \A q \in Request \ {r} : merge'[q] = merge[q]
    BY <1>10, MoveRowMerge
  <2>2. Holds(m)  BY <1>10
  <2> HIDE DEF n, m, k, old
  <2>3. Holds(n)  BY <2>1, <2>2 DEF Holds
  <2>4. \A x \in hasStock' : stock'[x] >= 0  BY <1>4, <1>10, <2>1
  <2>5. \A q \in Request \ {r} : Holds(merge'[q])  BY <1>3, <1>10, <2>1
  <2> QED BY <2>3, <2>4, <2>5 DEF n
<1>11. ASSUME NEW r \in Request, DropStocks(r), Safe PROVE Safe2
  <2> DEFINE K == {k \in hasStock : k[2] = merge[r].from}
  <2>1. /\ merge[r] # NoMerge /\ merge'[r].had = merge[r].had /\ merge'[r].other = merge[r].other
        /\ hasStock' = hasStock \ K /\ stock' = stock
        /\ \A q \in Request \ {r} : merge'[q] = Missed(K)[q]
    BY <1>11, DropStocksMerge
  <2> HIDE DEF K
  <2>2. Holds(merge'[r])  BY <1>11, <2>1 DEF Holds
  <2>3. \A q \in Request \ {r} : Holds(merge'[q])  BY <1>3, <1>11, <2>1
  <2> QED BY <1>11, <2>1, <2>2, <2>3
<1>12. ASSUME NEW r \in Request, DeleteRow(r), Safe PROVE Safe2
  <2> DEFINE K == {k \in hasStock : k[2] = merge[r].from}
  <2>1. /\ merge'[r] = NoMerge /\ hasStock' = hasStock \ K /\ stock' = stock
        /\ \A q \in Request \ {r} : merge'[q] = Missed(K)[q]
    BY <1>12, DeleteRowMerge
  <2> HIDE DEF K
  <2>2. Holds(merge'[r])  BY <2>1 DEF Holds
  <2>3. \A q \in Request \ {r} : Holds(merge'[q])  BY <1>3, <1>12, <2>1
  <2> QED BY <1>12, <2>1, <2>2, <2>3
<1>13. ASSUME NEW r \in Request, Ends(r), Safe PROVE Safe2
  <2>1. /\ merge'[r] = NoMerge /\ UNCHANGED <<hasStock, stock>>
        /\ \A q \in Request \ {r} : merge'[q] = merge[q]
    BY <1>13, EndsMerge
  <2>2. Holds(merge'[r])  BY <2>1 DEF Holds
  <2> QED BY <1>13, <2>1, <2>2
<1>14. ASSUME NEW r \in Request,
              \/ \E from, to \in Warehouse : DeleteWarehouse(r, from, to)
              \/ ListStocks(r) \/ \E p \in Product : FindOther(r, p)
              \/ SaveOther(r) \/ MoveRow(r) \/ DropStocks(r) \/ DeleteRow(r) \/ Ends(r)
       PROVE  oversold' = oversold
  <2>1. ASSUME NEW from \in Warehouse, NEW to \in Warehouse, DeleteWarehouse(r, from, to)
        PROVE  oversold' = oversold
    BY <2>1 DEF DeleteWarehouse
  <2> QED
    BY <1>14, <2>1 DEF ListStocks, FindOther, OnlyMerge, SaveOther, MoveRow, DropStocks, DeleteRow, Ends, MergeRefused,
                RowIsReferred, CutShort
<1> HIDE DEF Safe, Safe2
<1> QED BY <1>1, <1>2, <1>5, <1>6, <1>7, <1>8, <1>9, <1>10, <1>11, <1>12, <1>13, <1>14, Kinds

(* A deletion about to drop the row of its warehouse has left no stock there. *)
Emptied == ~repeated => \A r \in Request : merge[r] # NoMerge /\ merge[r].stage = "row" =>
  \A p \in Product : <<p, merge[r].from>> \notin hasStock

(* Dropped stock rows do not come back.                                      *)
LEMMA EmptiedStep ==
  ASSUME ShipmentsAssumption, Typed, OneMerge, FreshReads, Emptied, raced' = {},
         [WarehousesNext]_warehousesVars
  PROVE  Emptied'
<1> USE ShipmentsAssumption
<1>1. CASE Keeps  BY <1>1 DEF Keeps, Emptied
<1>2. ASSUME NEW r \in Request, NEW s \in Shipment, NEW l \in Line, SaveBeside(r, s, l)
      PROVE  Emptied'
  <2>1. Writes(r, s, l, KeyOf(job[r][s], l))  BY <1>2, SaveBesideFacts
  <2> DEFINE k == KeyOf(job[r][s], l)
  <2>2. /\ merge' = Missed({k}) /\ hasStock' = hasStock \cup {k} /\ UNCHANGED repeated
        /\ at[r][s][l] = "read"
    BY <2>1 DEF Writes
  <2>3. k \in hasStock  BY <2>2 DEF FreshReads
  <2> HIDE DEF k
  <2>4. hasStock' = hasStock  BY <2>2, <2>3
  <2>5. \A q \in Request : merge'[q] # NoMerge =>
          merge[q] # NoMerge /\ merge'[q].stage = merge[q].stage /\ merge'[q].from = merge[q].from
    BY <2>2, MissedStays
  <2> QED BY <2>2, <2>4, <2>5 DEF Emptied
<1>3. ASSUME NEW r \in Request, NEW from \in Warehouse, NEW to \in Warehouse, DeleteWarehouse(r, from, to)
      PROVE  Emptied'
  <2>1. /\ merge'[r].stage = "list" /\ \A q \in Request \ {r} : merge'[q] = merge[q]
        /\ repeated' = (repeated \/ Deletions # {}) /\ UNCHANGED hasStock
    BY <1>3, DeleteWarehouseMerge
  <2> QED BY <2>1 DEF Emptied
<1>4. ASSUME NEW r \in Request,
             \/ ListStocks(r) \/ \E p \in Product : FindOther(r, p)
             \/ SaveOther(r) \/ MoveRow(r) \/ DropStocks(r) \/ DeleteRow(r) \/ Ends(r)
      PROVE  Emptied'
  <2> DEFINE n == merge'[r]
  <2>1. /\ merge[r] # NoMerge /\ (repeated' = repeated \/ repeated' = TRUE)
        /\ \/ \A q \in Request \ {r} : merge'[q] = merge[q]
           \/ \E K : \A q \in Request \ {r} : merge'[q] = Missed(K)[q]
    BY <1>4, StepsOfDeletion
  <2>2. ~repeated' => \A q \in Request \ {r} : merge'[q] = NoMerge
    <3> SUFFICES ASSUME ~repeated', NEW q \in Request \ {r} PROVE merge'[q] = NoMerge
      OBVIOUS
    <3>1. merge[q] = NoMerge  BY <2>1 DEF OneMerge
    <3>2. ASSUME NEW K, merge'[q] = Missed(K)[q] PROVE merge'[q] = NoMerge  BY <3>1, <3>2, MissedStays
    <3> QED BY <2>1, <3>1, <3>2
  <2>3. ~repeated' /\ n # NoMerge /\ n.stage = "row" =>
          \A p \in Product : <<p, n.from>> \notin hasStock'
    <3>1. CASE ListStocks(r)
      <4>1. n.stage = "find"  BY <3>1, ListStocksMerge
      <4> QED BY <4>1
    <3>2. ASSUME NEW p \in Product, FindOther(r, p) PROVE ~(n.stage = "row")
      <4>1. n.stage = "save" \/ n.stage = "move"  BY <3>2, FindOtherMerge
      <4> QED BY <4>1
    <3>3. CASE SaveOther(r)
      <4>1. n.stage = "find"  BY <3>3, SaveOtherMerge
      <4> QED BY <4>1
    <3>4. CASE MoveRow(r)
      <4>1. n.stage = "find"  BY <3>4, MoveRowMerge
      <4> QED BY <4>1
    <3>5. CASE DropStocks(r)
      <4> DEFINE m == merge[r]
                 K == {k \in hasStock : k[2] = m.from}
      <4>1. /\ m \in Merge /\ m # NoMerge /\ n.from = m.from /\ hasStock' = hasStock \ K
        BY <3>5, DropStocksMerge
      <4> HIDE DEF m, n
      <4> QED BY <4>1
    <3>6. CASE DeleteRow(r)
      <4>1. n = NoMerge  BY <3>6, DeleteRowMerge
      <4> QED BY <4>1
    <3>7. CASE Ends(r)
      <4>1. n = NoMerge  BY <3>7, EndsMerge
      <4> QED BY <4>1
    <3> QED BY <1>4, <3>1, <3>2, <3>3, <3>4, <3>5, <3>6, <3>7
  <2> HIDE DEF n
  <2> QED BY <2>2, <2>3 DEF Emptied, n
<1> QED BY <1>1, <1>2, <1>3, <1>4, Kinds

------------------------------------------------------------------------------
(* Where the goods are: those that have left the stock are out with their    *)
(* shipment, whose columns say so only when its job ends.  Most steps leave  *)
(* them there; the start of a call and the end of a delete enter in due what *)
(* they make more or fewer.                                                  *)

(* A step that moves no goods in or out of shipments.                        *)
Steady ==
  \A s \in Shipment, l \in Line :
    OutAt(s, l)' = OutAt(s, l) /\ (OutAt(s, l) # 0 => row'[s].warehouse = row[s].warehouse)

(* The jobs stand where they stood. *)
LEMMA SteadyJobs ==
  ASSUME UNCHANGED <<live, row, items>>,
         \A q \in Request, s \in Shipment :
           job'[q][s] = job[q][s]
           /\ (job[q][s] # NoJob => \A l \in Line : at'[q][s][l] = "idle" <=> at[q][s][l] = "idle")
  PROVE  Steady
<1> SUFFICES ASSUME NEW s \in Shipment, NEW l \in Line PROVE OutAt(s, l)' = OutAt(s, l)
  BY DEF Steady
<1>1. \A q \in Request : job'[q][s] = job[q][s]
        /\ (job[q][s] # NoJob => (at'[q][s][l] = "idle" <=> at[q][s][l] = "idle"))
  OBVIOUS
<1>2. Out(s, l)' <=> Out(s, l)  BY <1>1 DEF Out, Left, LeftAfter
<1> QED BY <1>2 DEF OutAt

LEMMA SteadyOvertaken ==
  ASSUME Typed, NEW K, at' = Overtake(K), UNCHANGED <<live, row, items, job>>
  PROVE  Steady
<1>1. \A q \in Request, s \in Shipment, l \in Line : at'[q][s][l] = "idle" <=> at[q][s][l] = "idle"
  BY DEF Overtake, Typed, TypeOK
<1> QED BY <1>1, SteadyJobs

(* A step that enters in due what the goods of the shipments S become by gain. *)
OwedFor(S, gain) ==
  /\ gain \in [Shipment -> Int] /\ due' = Owed(S, gain)
  /\ UNCHANGED <<hasStock, stock, row>>
  /\ \A s \in Shipment, l \in Line :
       OutAt(s, l)' = OutAt(s, l) + (IF s \in S THEN gain[s] * items[s][l] ELSE 0)
Accounted == \E S, gain : OwedFor(S, gain)

(* New jobs about S: what has left comes back or stays out, what has not     *)
(* will leave or is taken back all the same.                                 *)
Starts(r, T, S, t, ret) ==
  /\ pc[r] = "new" /\ StartJobs(r, S, t, ret) /\ UNCHANGED <<live, row, items>>
  /\ T \in SUBSET live /\ S \in SUBSET T /\ Shared(r, T) = {}
  /\ t \in Status \cup {Deleted} /\ ret \in BOOLEAN /\ (t = Deleted => ret)

LEMMA JobsStart ==
  ASSUME ShipmentsAssumption, Typed, Jobs, NEW r \in Request, NEW T, NEW S, NEW t, NEW ret,
         Starts(r, T, S, t, ret), NEW s \in Shipment, NEW l \in Line
  PROVE  OutAt(s, l)' = OutAt(s, l) + (IF s \in S THEN Gain(s, t, ret) * items[s][l] ELSE 0)
<1>0. /\ pc[r] = "new" /\ StartJobs(r, S, t, ret) /\ UNCHANGED <<live, row, items>>
      /\ T \in SUBSET live /\ S \in SUBSET T /\ Shared(r, T) = {}
      /\ t \in Status \cup {Deleted} /\ ret \in BOOLEAN /\ (t = Deleted => ret)
  BY DEF Starts
<1>1. /\ \A q \in Request \ {r} : job'[q] = job[q] /\ at'[q] = at[q]
      /\ s \in S => job'[r][s].target = t /\ job'[r][s] # NoJob
      /\ s \notin S => job'[r][s] = NoJob
      /\ s \in S /\ items[s][l] > 0 => (at'[r][s][l] = "idle" <=> Direction(t, ret) = 0)
  <2>1. job'[r][s] = IF s \in S THEN [row |-> row[s], items |-> items[s],
                                      target |-> t, returnStocks |-> ret] ELSE NoJob
    BY <1>0 DEF StartJobs, Typed, TypeOK
  <2>2. at'[r][s][l] = IF s \in S /\ items[s][l] > 0 /\ Direction(t, ret) # 0
                         THEN "todo" ELSE "idle"
    BY <1>0 DEF StartJobs, Typed, TypeOK
  <2>3. \A q \in Request \ {r} : job'[q] = job[q] /\ at'[q] = at[q]  BY <1>0 DEF StartJobs, Typed, TypeOK
  <2>4. t # "none"  BY <1>0 DEF Status, Deleted
  <2>5. s \in S => job'[r][s].target = t /\ job'[r][s] # NoJob  BY <2>1, <2>4 DEF NoJob
  <2> QED BY <2>1, <2>2, <2>3, <2>5
<1>2. job[r][s] = NoJob  BY <1>0, Idle
<1>6. items[s][l] \in Nat  BY ItemsNat
<1>3. CASE s \notin S
  <2>1. \A q \in Request : job'[q][s] = job[q][s] /\ (job[q][s] # NoJob => at'[q] = at[q])
    BY <1>1, <1>2, <1>3
  <2>2. Out(s, l)' <=> Out(s, l)  BY <1>0, <2>1 DEF Out, Left, LeftAfter
  <2> QED BY <1>0, <1>3, <1>6, <2>2 DEF OutAt
<1>4. CASE s \in S /\ items[s][l] > 0
  <2>0. s \in T  BY <1>0, <1>4
  <2>1. \A q \in Request \ {r} : job[q][s] = NoJob /\ job'[q][s] = NoJob
    <3>1. ASSUME NEW q \in Request \ {r} PROVE job[q][s] = NoJob
      <4>1. T \in SUBSET live /\ Shared(r, T) = {} /\ Typed /\ Jobs  BY <1>0
      <4> QED BY <2>0, <4>1, NotShared
    <3> QED BY <1>1, <3>1
  <2>2. Out(s, l) <=> Left(s)  BY <1>2, <2>1 DEF Out
  <2>3. Out(s, l)' <=> IF Direction(t, ret) = 0 THEN LeftAfter(s, t) ELSE t # "shipped"
    <3>1. LeftAfter(s, t)' <=> LeftAfter(s, t)  BY <1>0 DEF LeftAfter, Left
    <3>2. \A q \in Request : job'[q][s] # NoJob => q = r  BY <2>1
    <3>3. Out(s, l)' <=> IF at'[r][s][l] = "idle" THEN LeftAfter(s, t)' ELSE t # "shipped"
      BY <1>0, <1>1, <1>4, <3>2 DEF Out, LeftAfter, Left
    <3> QED BY <1>1, <1>4, <3>1, <3>3
  <2>4. s \in live /\ live' = live /\ items' = items  BY <1>0, <1>4
  <2>5. Gain(s, t, ret) * items[s][l] =
          (IF Out(s, l)' THEN items[s][l] ELSE 0) - (IF Out(s, l) THEN items[s][l] ELSE 0)
    <3>1. Gain(s, t, ret) = (IF Out(s, l)' THEN 1 ELSE 0) - (IF Out(s, l) THEN 1 ELSE 0)
      BY <1>0, <2>2, <2>3 DEF Gain, Direction, LeftAfter, Deleted, Status
    <3> QED BY <1>6, <3>1
  <2> QED BY <1>4, <1>6, <2>4, <2>5 DEF OutAt
<1>5. CASE s \in S /\ ~(items[s][l] > 0)
  <2>1. items[s][l] = 0  BY <1>5, <1>6
  <2>2. Gain(s, t, ret) \in Int  BY DEF Gain
  <2> QED BY <1>0, <1>5, <2>1, <2>2 DEF OutAt
<1> QED BY <1>3, <1>4, <1>5

LEMMA StartAccounted ==
  ASSUME ShipmentsAssumption, Typed, Jobs, NEW r \in Request, pc[r] = "new",
         NEW S \in SUBSET live, NEW t \in Status, NEW ret \in BOOLEAN,
         StartJobs(r, S, t, ret), Shared(r, S) = {}, UNCHANGED <<hasStock, stock, live, row, items>>,
         due' = Owed(S, [s \in Shipment |-> Gain(s, t, ret)])
  PROVE  Accounted
<1> DEFINE gain == [s \in Shipment |-> Gain(s, t, ret)]
<1>1. gain \in [Shipment -> Int]  BY DEF Gain
<1>2. t \in Status \cup {Deleted} /\ (t = Deleted => ret)  BY DEF Status, Deleted
<1>3. ASSUME NEW s \in Shipment, NEW l \in Line
      PROVE  OutAt(s, l)' = OutAt(s, l) + (IF s \in S THEN gain[s] * items[s][l] ELSE 0)
  <2>1. Starts(r, S, S, t, ret)  BY <1>2 DEF Starts
  <2>2. OutAt(s, l)' = OutAt(s, l) + (IF s \in S THEN Gain(s, t, ret) * items[s][l] ELSE 0)
    BY <2>1, JobsStart
  <2>3. gain[s] = Gain(s, t, ret)  OBVIOUS
  <2> HIDE DEF gain
  <2> QED BY <2>2, <2>3
<1> HIDE DEF gain
<1>4. OwedFor(S, gain)  BY <1>1, <1>3 DEF OwedFor, gain
<1> QED BY <1>4 DEF Accounted

(* Shipments without a job of another request are deleted. *)
LEMMA DeleteAccounted ==
  ASSUME ShipmentsAssumption, Typed, Jobs, NEW S \in SUBSET live, NEW D \in SUBSET S,
         live' = live \ S, UNCHANGED <<hasStock, stock, row>>,
         items' = [s \in Shipment |-> IF s \in S THEN [l \in Line |-> 0] ELSE items[s]],
         \A s \in D : \A q \in Request : job[q][s] = NoJob,
         \A s \in S \ D : \A l \in Line : ~Out(s, l),
         \A s \in live \ S : \A l \in Line : Out(s, l)' <=> Out(s, l),
         WrittenOff(D)
  PROVE  Accounted
<1> DEFINE gain == [s \in Shipment |-> -1]
           L == {s \in D : Left(s)}
<1>1. gain \in [Shipment -> Int]  OBVIOUS
<1>2. ASSUME NEW s \in Shipment, NEW l \in Line
      PROVE  OutAt(s, l)' = OutAt(s, l) + (IF s \in L THEN gain[s] * items[s][l] ELSE 0)
  <2>1. items[s][l] \in Nat /\ gain[s] * items[s][l] = 0 - items[s][l]
    <3>1. items[s][l] \in Nat /\ gain[s] = -1  BY ItemsNat
    <3> HIDE DEF gain
    <3> QED BY <3>1
  <2> HIDE DEF gain
  <2>2. CASE s \in D
    <3>1. Out(s, l) <=> Left(s)  BY <2>2 DEF Out
    <3>2. s \in live /\ s \notin live'  BY <2>2
    <3> QED BY <2>1, <2>2, <3>1, <3>2 DEF OutAt
  <2>3. CASE s \in S \ D
    <3>1. ~Out(s, l) /\ s \notin live'  BY <2>3
    <3> QED BY <2>1, <2>3, <3>1 DEF OutAt
  <2>4. CASE s \in live \ S
    <3>1. (Out(s, l)' <=> Out(s, l)) /\ items'[s] = items[s] /\ s \in live'  BY <2>4
    <3> QED BY <2>1, <2>4, <3>1 DEF OutAt
  <2>5. CASE s \notin live  BY <2>1, <2>5 DEF OutAt
  <2> QED BY <2>2, <2>3, <2>4, <2>5
<1>3. due' = Owed(L, gain)  BY DEF WrittenOff
<1> HIDE DEF gain, L
<1>4. OwedFor(L, gain)  BY <1>1, <1>2, <1>3 DEF OwedFor
<1> QED BY <1>4 DEF Accounted

LEMMA BeginAccounted ==
  ASSUME ShipmentsAssumption, Typed, Jobs, NEW r \in Request, BeginBeside(r), collided' = {}
  PROVE  Accounted \/ (Steady /\ due' = due)
<1> USE DEF Typed
<1>1. ASSUME NEW s \in Shipment, NEW t \in Status, NEW ret \in BOOLEAN,
             ChangeStatus(r, s, t, ret), Moved({s}, t, ret)
      PROVE  Accounted
  <2> DEFINE S == {x \in {s} : row[x].status # t}
  <2>1. S \in SUBSET live /\ S \subseteq {s}  BY <1>1 DEF ChangeStatus
  <2>2. /\ pc[r] = "new" /\ StartJobs(r, S, t, ret) /\ Shared(r, {s}) = {}
        /\ UNCHANGED <<hasStock, stock, live, row, items>>
    BY <1>1 DEF ChangeStatus, shipmentVars, stockVars
  <2>3. due' = Owed(S, [x \in Shipment |-> Gain(x, t, ret)])  BY <1>1 DEF Moved
  <2> HIDE DEF S
  <2>4. Shared(r, S) = {}  BY <2>1, <2>2 DEF Shared
  <2> QED BY <2>1, <2>2, <2>3, <2>4, StartAccounted
<1>2. ASSUME NEW o \in Order, NEW t \in Status, NEW ret \in BOOLEAN,
             ProcessOrder(r, o, t, ret), Moved(Matches(OfOrder(o)), t, ret)
      PROVE  Accounted
  <2> DEFINE S == {s \in Matches(OfOrder(o)) : row[s].status # t}
  <2>1. S \in SUBSET live  BY DEF Matches
  <2>2. /\ pc[r] = "new" /\ StartJobs(r, S, t, ret) /\ Shared(r, S) = {}
        /\ UNCHANGED <<hasStock, stock, live, row, items>>
    BY <1>2 DEF ProcessOrder, shipmentVars, stockVars
  <2>3. due' = Owed(S, [x \in Shipment |-> Gain(x, t, ret)])  BY <1>2 DEF Moved
  <2> HIDE DEF S
  <2> QED BY <2>1, <2>2, <2>3, StartAccounted
<1>3. ASSUME NEW o \in Order, NEW ret \in BOOLEAN, Delete(r, OfOrder(o), ret), due' = due
      PROVE  Steady /\ due' = due
  <2> DEFINE T == Matches(OfOrder(o))
             S == {s \in T : ret /\ row[s].status = "shipped"}
  <2>1. S \in SUBSET T /\ T \in SUBSET live  BY DEF Matches
  <2>2. /\ pc[r] = "new" /\ StartJobs(r, S, Deleted, ret)
        /\ Shared(r, T) = {} /\ UNCHANGED <<live, row, items>>
    BY <1>3 DEF Delete, shipmentVars
  <2>3. \A s \in S : ret /\ Left(s)
    BY DEF Jobs, Rows, TimesFollow, Left, Matches
  <2>4. Deleted \in Status \cup {Deleted}  OBVIOUS
  <2>5. ASSUME NEW s \in Shipment, NEW l \in Line PROVE OutAt(s, l)' = OutAt(s, l)
    <3>1. OutAt(s, l) \in Int
      <4>1. items[s][l] \in Int  BY ItemsNat
      <4> QED BY <4>1 DEF OutAt
    <3>2. CASE ret
      <4>1. OutAt(s, l)' = OutAt(s, l) + (IF s \in S THEN Gain(s, Deleted, ret) * items[s][l] ELSE 0)
        <5> HIDE DEF S, T
        <5>1. Starts(r, T, S, Deleted, ret)  BY <2>1, <2>2, <2>4, <3>2 DEF Starts
        <5> QED BY <5>1, JobsStart
      <4>2. s \in S => Gain(s, Deleted, ret) = 0  BY <2>3 DEF Gain, Deleted
      <4>3. s \in S => Gain(s, Deleted, ret) * items[s][l] = 0
        <5> DEFINE g == Gain(s, Deleted, ret)
        <5>1. items[s][l] \in Int  BY ItemsNat
        <5>2. s \in S => g = 0  BY <4>2
        <5> HIDE DEF g, S
        <5>3. s \in S => g * items[s][l] = 0  BY <5>1, <5>2
        <5> QED BY <5>3 DEF g
      <4> HIDE DEF S, T
      <4> QED BY <3>1, <4>1, <4>3
    <3>3. CASE ~ret
      <4>1. S = {}  BY <3>3
      <4>2. \A q \in Request : job'[q][s] = job[q][s] /\ (job[q][s] # NoJob => at'[q][s] = at[q][s])
        <5>1. job[r][s] = NoJob  BY <2>2, Idle
        <5>2. job'[r][s] = NoJob  BY <2>2, <4>1 DEF StartJobs, TypeOK
        <5>3. \A q \in Request \ {r} : job'[q] = job[q] /\ at'[q] = at[q]
          BY <2>2 DEF StartJobs, TypeOK
        <5> QED BY <5>1, <5>2, <5>3
      <4>3. Out(s, l)' <=> Out(s, l)  BY <2>2, <4>2 DEF Out, Left, LeftAfter
      <4> QED BY <2>2, <4>3 DEF OutAt
    <3> QED BY <3>2, <3>3
  <2> QED BY <1>3, <2>2, <2>5 DEF Steady
<1>4. ASSUME NEW o \in Order, NEW p \in [Line -> [Warehouse -> Quantity]],
             CreateForOrder(r, o, p), WrittenOff(Replaced(o))
      PROVE  Accounted
  <2> DEFINE S == Replaced(o)
  <2>1. /\ pc[r] = "new" /\ live' = live \ S /\ Shared(r, S) = {}
        /\ items' = [s \in Shipment |-> IF s \in S THEN [l \in Line |-> 0] ELSE items[s]]
        /\ UNCHANGED <<hasStock, stock, row, job, at>>
    BY <1>4 DEF CreateForOrder, jobVars, stockVars
  <2>2. S \in SUBSET live  BY DEF Replaced, Matches
  <2>3. WrittenOff(S)  BY <1>4
  <2> HIDE DEF S
  <2>4. ASSUME NEW s \in S, NEW q \in Request PROVE job[q][s] = NoJob
    <3>1. q # r => job[q][s] = NoJob  BY <2>1, <2>2, NotShared
    <3>2. s \in Shipment  BY <2>2 DEF TypeOK
    <3>3. job[r][s] = NoJob  BY <2>1, <3>2, Idle
    <3> QED BY <3>1, <3>3
  <2>5. \A s \in live \ S : \A l \in Line : Out(s, l)' <=> Out(s, l)
    BY <2>1 DEF Out, Left, LeftAfter
  <2> QED BY <2>1, <2>2, <2>3, <2>4, <2>5, DeleteAccounted
<1> QED BY <1>1, <1>2, <1>3, <1>4 DEF BeginBeside

LEMMA DeleteRowsAccounted ==
  ASSUME ShipmentsAssumption, Typed, Jobs, NEW r \in Request, DeleteRowsBeside(r), collided' = {}
  PROVE  Accounted
<1> DEFINE S == Matches(filter[r])
           D == S \ Running(r)
<1>1. /\ Shared(r, S) = {} /\ live' = live \ S /\ UNCHANGED <<hasStock, stock, row, at>>
      /\ pc[r] = "delete"
      /\ items' = [s \in Shipment |-> IF s \in S THEN [l \in Line |-> 0] ELSE items[s]]
      /\ job' = [job EXCEPT ![r] = [s \in Shipment |-> NoJob]]
      /\ \A s \in Shipment, l \in Line : at[r][s][l] = "idle"
  BY DEF DeleteRowsBeside, DeleteRows, stockVars
<1>2. S \in SUBSET live  BY DEF Matches
<1>3. \A s \in live : row[s].order \in filter[r].orders => s \in S
  BY DEF Matches, Jobs, Rows, WholeFilters, Typed, TypeOK, Row
<1>4. WrittenOff(D) /\ D \in SUBSET S  BY DEF DeleteRowsBeside
<1>5. \A s \in D : job[r][s] = NoJob  BY <1>2 DEF Running, Typed, TypeOK
<1>6. \A s \in S \ D : job[r][s] # NoJob /\ s \in Shipment  BY DEF Running
<1> HIDE DEF S, D
<1>7. \A s \in S : \A q \in Request \ {r} : job[q][s] = NoJob  BY <1>1, <1>2, NotShared
<1>8. \A s \in D : \A q \in Request : job[q][s] = NoJob  BY <1>4, <1>5, <1>7
<1>9. ASSUME NEW s \in S \ D, NEW l \in Line PROVE ~Out(s, l)
  <2>1. /\ job[r][s] # NoJob /\ s \in Shipment /\ at[r][s][l] = "idle"
        /\ \A q \in Request : job[q][s] # NoJob => q = r
    BY <1>1, <1>6, <1>7
  <2>2. job[r][s].target = Deleted  BY <1>1, <2>1 DEF Jobs, Working
  <2> QED BY <2>1, <2>2 DEF Out, LeftAfter, Deleted
<1>10. ASSUME NEW s \in live \ S, NEW l \in Line PROVE Out(s, l)' <=> Out(s, l)
  <2>1. job[r][s] = NoJob  BY <1>1, <1>3, <1>10 DEF Jobs, Working, Typed, TypeOK
  <2>2. \A q \in Request : job'[q][s] = job[q][s]
    BY <1>1, <1>10, <2>1 DEF Typed, TypeOK
  <2> QED BY <1>1, <2>2 DEF Out, Left, LeftAfter
<1> QED BY <1>1, <1>2, <1>4, <1>8, <1>9, <1>10, DeleteAccounted

LEMMA SteadyCreateShipment ==
  ASSUME ShipmentsAssumption, Typed, Jobs, NEW r \in Request, NEW w \in Warehouse,
         CreateShipment(r, w)
  PROVE  Steady
<1> DEFINE n == lastId + 1
<1>1. /\ live' = live \cup {n} /\ n \in Shipment /\ UNCHANGED <<items, job, at>>
      /\ \E o \in filter[r].orders :
           row' = [row EXCEPT ![n] = [order |-> o, status |-> "sent_for_shipment",
                                      shippedAt |-> FALSE, warehouse |-> w]]
  <2>1. n \in Shipment
    BY DEF CreateShipment, Typed, TypeOK, Shipment, ShipmentsAssumption
  <2>2. lastId' = n  BY DEF CreateShipment
  <2> HIDE DEF n
  <2> QED BY <2>1, <2>2 DEF CreateShipment, jobVars
<1>2. n \notin live  BY DEF Jobs, Rows, Typed, TypeOK
<1>3. ~row'[n].shippedAt /\ \A s \in Shipment \ {n} : row'[s] = row[s]
  BY <1>1 DEF Typed, TypeOK
<1> HIDE DEF n
<1> SUFFICES ASSUME NEW s \in Shipment, NEW l \in Line
             PROVE  /\ OutAt(s, l)' = OutAt(s, l)
                    /\ (OutAt(s, l) # 0 => row'[s].warehouse = row[s].warehouse)
  BY DEF Steady
<1>4. CASE s = n
  <2>1. OutAt(s, l) = 0  BY <1>2, <1>4 DEF OutAt
  <2>2. \A q \in Request : job[q][s] = NoJob  BY <1>2, <1>4 DEF Jobs, Working
  <2>3. ~Out(s, l)'  BY <1>1, <1>3, <1>4, <2>2 DEF Out, Left
  <2> QED BY <2>1, <2>3 DEF OutAt
<1>5. CASE s # n
  <2>1. Out(s, l)' <=> Out(s, l)  BY <1>1, <1>3, <1>5 DEF Out, Left, LeftAfter
  <2> QED BY <1>1, <1>3, <1>5, <2>1 DEF OutAt
<1> QED BY <1>4, <1>5

LEMMA SteadyCreateItem ==
  ASSUME Typed, Jobs, NEW r \in Request, NEW l \in Line, NEW w \in Warehouse, CreateItem(r, l, w)
  PROVE  Steady
<1>1. UNCHANGED <<live, row, job, at>> /\ pc[r] = "create"  BY DEF CreateItem, jobVars
<1>2. CASE made[r][w] \in live
  <2>1. items' = [items EXCEPT ![made[r][w]][l] = plan[r][l][w]]  BY <1>2 DEF CreateItem
  <2>2. row[made[r][w]].order \in filter[r].orders /\ ~row[made[r][w]].shippedAt
    BY <1>2 DEF Jobs, Rows, MadeHere
  <2>3. \A q \in Request : job[q][made[r][w]] = NoJob
    <3>1. made[r][w] \in Shipment  BY <1>2 DEF Typed, TypeOK
    <3> QED BY <1>1, <2>2, <3>1, Idle DEF Jobs, Alone
  <2> SUFFICES ASSUME NEW s \in Shipment, NEW x \in Line PROVE OutAt(s, x)' = OutAt(s, x)
    BY <1>1 DEF Steady
  <2>4. Out(s, x)' <=> Out(s, x)  BY <1>1 DEF Out, Left, LeftAfter
  <2>5. CASE s = made[r][w]
    <3>1. ~Out(s, x)  BY <2>2, <2>3, <2>5 DEF Out, Left
    <3> QED BY <2>4, <3>1 DEF OutAt
  <2>6. CASE s # made[r][w]
    <3>1. items'[s] = items[s]  BY <2>1, <2>6 DEF Typed, TypeOK
    <3> QED BY <1>1, <2>4, <3>1 DEF OutAt
  <2> QED BY <2>5, <2>6
<1>3. CASE made[r][w] \notin live
  <2>1. items' = items  BY <1>3 DEF CreateItem
  <2> QED BY <1>1, <2>1, SteadyJobs
<1> QED BY <1>2, <1>3

(* The column that says so is written when the goods have moved. *)
LEMMA SteadySaveShipment ==
  ASSUME Typed, Jobs, NEW r \in Request, NEW s \in Shipment, SaveShipment(r, s)
  PROVE  Steady
<1>1. /\ s \in live /\ job[r][s] # NoJob /\ job[r][s].target \in Status
      /\ live' = live /\ job' = [job EXCEPT ![r][s] = NoJob]
      /\ \A x \in Shipment \ {s} : row'[x] = row[x]
      /\ row'[s].warehouse = row[s].warehouse
      /\ row'[s].shippedAt <=> LeftAfter(s, job[r][s].target)
      /\ \A l \in Line : at[r][s][l] = "idle"
      /\ UNCHANGED <<items, at>>
  BY SaveShipmentFacts
<1> SUFFICES ASSUME NEW x \in Shipment, NEW l \in Line
             PROVE  OutAt(x, l)' = OutAt(x, l) /\ row'[x].warehouse = row[x].warehouse
  BY DEF Steady
<1>2. CASE x = s
  <2>1. \A q \in Request \ {r} : job[q][s] = NoJob  BY <1>1 DEF Jobs, Alone
  <2>2. \A q \in Request : job'[q][s] = NoJob  BY <1>1, <2>1 DEF Typed, TypeOK
  <2>3. Out(s, l)' <=> LeftAfter(s, job[r][s].target)  BY <1>1, <2>2 DEF Out, Left
  <2>4. Out(s, l) <=> LeftAfter(s, job[r][s].target)
    <3>1. \A q \in Request : job[q][s] # NoJob => q = r  BY <2>1
    <3> QED BY <1>1, <3>1 DEF Out
  <2> QED BY <1>1, <1>2, <2>3, <2>4 DEF OutAt
<1>3. CASE x # s
  <2>1. \A q \in Request : job'[q][x] = job[q][x]  BY <1>1, <1>3 DEF Typed, TypeOK
  <2>2. Out(x, l)' <=> Out(x, l)  BY <1>1, <1>3, <2>1 DEF Out, Left, LeftAfter
  <2> QED BY <1>1, <1>3, <2>2 DEF OutAt
<1> QED BY <1>2, <1>3

(* The other writes of stock rows and moves of shipments have lemmas below.  *)
LEMMA SteadyStep ==
  ASSUME ShipmentsAssumption, Typed, Jobs, Clean', [WarehousesNext]_warehousesVars
  PROVE  \/ Accounted /\ Keeps
         \/ Steady /\ (due' = due \/ \E r \in Request : DropStocks(r))
         \/ \E r \in Request :
              \/ \E s \in Shipment, l \in Line : SaveBeside(r, s, l)
              \/ \E from, to \in Warehouse : DeleteWarehouse(r, from, to)
<1> USE ShipmentsAssumption DEF Clean
<1> DEFINE Calm == Steady /\ due' = due
<1>1. CASE UNCHANGED warehousesVars
  <2>1. UNCHANGED <<live, row, items, job, at>> /\ due' = due
    BY <1>1 DEF warehousesVars, vars, shipmentVars, jobVars, warehouseVars
  <2> QED BY <2>1, SteadyJobs
<1>2. ASSUME NEW r \in Request, BeginBeside(r) PROVE (Accounted /\ Keeps) \/ Calm
  <2>1. Accounted \/ Calm  BY <1>2, BeginAccounted
  <2>2. Keeps
    BY <1>2 DEF Keeps, BeginBeside, ChangeStatus, ProcessOrder, CreateForOrder, Delete, stockVars
  <2> QED BY <2>1, <2>2
<1>3. ASSUME NEW r \in Request, NEW s \in Shipment, NEW l \in Line, ReadBeside(r, s, l) PROVE Calm
  <2> DEFINE k == KeyOf(job[r][s], l)
  <2>1. at[r][s][l] = "todo" /\ UNCHANGED <<live, row, items, job, due>>
    BY <1>3 DEF ReadBeside, ReadStock, shipmentVars, Untouched
  <2>2. k \in hasStock
    <3> SUFFICES ASSUME k \notin hasStock PROVE FALSE  OBVIOUS
    <3>1. s \in unmoved'  BY <1>3 DEF ReadBeside
    <3> QED BY <3>1
  <2>3. at' = [at EXCEPT ![r][s][l] = "read"]  BY <1>3, <2>2 DEF ReadBeside, ReadStock
  <2> HIDE DEF k
  <2>4. \A q \in Request, x \in Shipment, y \in Line : at'[q][x][y] = "idle" <=> at[q][x][y] = "idle"
    BY <2>1, <2>3 DEF Typed, TypeOK
  <2> QED BY <2>1, <2>4, SteadyJobs
<1>4. ASSUME NEW r \in Request, NEW s \in Shipment,
             \/ ShipmentRefused(r, s) \/ \E l \in Line : StockRefused(r, s, l)
      PROVE  FALSE
  BY <1>4, NothingRefused DEF ShipmentRefused, StockRefused, Refused
<1>5. ASSUME NEW r \in Request, NEW s \in Shipment, SaveShipmentBeside(r, s) PROVE Calm
  BY <1>5, SteadySaveShipment DEF SaveShipmentBeside, warehouseVars
<1>6. ASSUME NEW r \in Request, NEW w \in Warehouse, CreateBeside(r, w) PROVE Calm
  BY <1>6, SteadyCreateShipment DEF CreateBeside, warehouseVars
<1>7. ASSUME NEW r \in Request, NEW w \in Warehouse, CreateRefused(r, w) PROVE Calm
  <2>1. /\ pc[r] = "create" /\ UNCHANGED <<live, row, items, due>>
        /\ job' = [job EXCEPT ![r] = [s \in Shipment |-> NoJob]]
        /\ at' = [at EXCEPT ![r] = [s \in Shipment |-> [l \in Line |-> "idle"]]]
    BY <1>7 DEF CreateRefused, Lose, shipmentVars, warehouseVars
  <2>2. \A s \in Shipment : job[r][s] = NoJob  BY <2>1, Idle
  <2>3. /\ \A q \in Request \ {r} : job'[q] = job[q] /\ at'[q] = at[q]
        /\ \A s \in Shipment : job'[r][s] = NoJob
    BY <2>1 DEF Typed, TypeOK
  <2> QED BY <2>1, <2>2, <2>3, SteadyJobs
<1>8. ASSUME NEW r \in Request, NEW w \in Warehouse, NEW l \in Line, CreateItem(r, l, w),
             UNCHANGED warehouseVars
      PROVE  Calm
  BY <1>8, SteadyCreateItem DEF warehouseVars
<1>9. ASSUME NEW r \in Request, DeleteRowsBeside(r) PROVE Accounted /\ Keeps
  BY <1>9, DeleteRowsAccounted DEF Keeps, DeleteRowsBeside, DeleteRows, stockVars
<1>10. ASSUME NEW r \in Request, Return(r), UNCHANGED warehouseVars PROVE Calm
  <2>1. UNCHANGED <<live, row, items, job, at, due>>
    BY <1>10 DEF Return, shipmentVars, jobVars, warehouseVars
  <2> QED BY <2>1, SteadyJobs
<1>11. ASSUME NEW r \in Request, ListStocks(r) \/ (\E p \in Product : FindOther(r, p)) \/ Ends(r)
       PROVE  Calm
  <2>1. UNCHANGED <<live, row, items, job, at, due>>
    BY <1>11 DEF ListStocks, FindOther, Ends, MergeRefused, RowIsReferred, CutShort, OnlyMerge, vars,
                 shipmentVars, jobVars
  <2> QED BY <2>1, SteadyJobs
<1>12. ASSUME NEW r \in Request, SaveOther(r) \/ DropStocks(r)
       PROVE  Steady /\ (due' = due \/ DropStocks(r))
  <2>1. UNCHANGED <<live, row, items, job>> /\ \E K : at' = Overtake(K)
    BY <1>12 DEF SaveOther, DropStocks, shipmentVars
  <2>2. PICK K : at' = Overtake(K)  BY <2>1
  <2>3. due' = due \/ DropStocks(r)  BY <1>12 DEF SaveOther
  <2> QED BY <2>1, <2>2, <2>3, SteadyOvertaken
<1>13. ASSUME NEW r \in Request, MoveRow(r) PROVE Calm
  <2>1. UNCHANGED <<live, row, items, job, due>>  BY <1>13 DEF MoveRow, shipmentVars
  <2>2. at' = at \/ \E K : at' = Overtake(K)  BY <1>13 DEF MoveRow
  <2>3. ASSUME NEW K, at' = Overtake(K) PROVE Steady  BY <2>1, <2>3, SteadyOvertaken
  <2>4. at' = at => Steady  BY <2>1, SteadyJobs
  <2> QED BY <2>1, <2>2, <2>3, <2>4
<1>14. ASSUME NEW r \in Request, DeleteRow(r) PROVE Calm
  <2>1. /\ UNCHANGED <<live, row, items, job, due>>
        /\ at' = Overtake((Product \X {merge[r].from}) \cap hasStock)
    BY <1>14, DeleteRowFacts
  <2> QED BY <2>1, SteadyOvertaken
<1>15. ASSUME NEW r \in Request, DeletionStep(r)
       PROVE  \/ Steady /\ (due' = due \/ DropStocks(r))
              \/ \E from, to \in Warehouse : DeleteWarehouse(r, from, to)
  <2>1. \A m \in Relocations : m[1] \in Warehouse /\ m[2] \in Warehouse  BY DEF ShipmentsAssumption
  <2> QED BY <1>11, <1>12, <1>13, <1>14, <1>15, <2>1 DEF DeletionStep, Ends
<1> QED
  BY <1>1, <1>2, <1>3, <1>4, <1>5, <1>6, <1>7, <1>8, <1>9, <1>10, <1>15 DEF WarehousesNext, StepBeside

------------------------------------------------------------------------------
(* The goods of a warehouse, in stock or out with its shipments.             *)

Had(p, w) == IF <<p, w>> \in hasStock THEN stock[<<p, w>>] ELSE 0
HadFn(p) == [w \in Warehouse |-> Had(p, w)]

(* By how much they exceed what it should have.                              *)
Excess(p, w) == Had(p, w) + OutOf(p, {w}) - due[<<p, w>>]
ExcessFn(p) == [w \in Warehouse |-> Excess(p, w)]
ExcessAll(p) == SumFunction(ExcessFn(p))

LEMMA HadTypes ==
  ASSUME WarehousesAssumption, Typed, NEW p \in Product
  PROVE  /\ \A w \in Warehouse : Had(p, w) \in Int
         /\ HadFn(p) \in [Warehouse -> Int] /\ SumFunction(HadFn(p)) \in Int
<1>1. ASSUME NEW w \in Warehouse PROVE Had(p, w) \in Int
  <2>1. <<p, w>> \in Key  BY DEF Key
  <2>2. stock[<<p, w>>] \in Int  BY <2>1 DEF Typed, TypeOK
  <2> QED BY <2>2 DEF Had
<1>2. HadFn(p) \in [Warehouse -> Int]  BY <1>1 DEF HadFn
<1>3. SumFunction(HadFn(p)) \in Int
  <2> DEFINE f == HadFn(p)
  <2>1. f \in [Warehouse -> Int]  BY <1>2
  <2> HIDE DEF f
  <2>2. SumFunction(f) \in Int  BY <2>1, SumType DEF WarehousesAssumption
  <2> QED BY <2>2 DEF f
<1> QED BY <1>1, <1>2, <1>3

LEMMA ExcessTypes ==
  ASSUME ShipmentsAssumption, WarehousesAssumption, Typed, NEW p \in Product
  PROVE  /\ \A w \in Warehouse : /\ Had(p, w) \in Int /\ OutOf(p, {w}) \in Int
                                 /\ due[<<p, w>>] \in Int /\ Excess(p, w) \in Int
         /\ ExcessFn(p) \in [Warehouse -> Int] /\ ExcessAll(p) \in Int
<1>1. ASSUME NEW w \in Warehouse
      PROVE  /\ Had(p, w) \in Int /\ OutOf(p, {w}) \in Int
             /\ due[<<p, w>>] \in Int /\ Excess(p, w) \in Int
  <2>1. <<p, w>> \in Key  BY DEF Key
  <2>2. due[<<p, w>>] \in Int  BY <2>1 DEF Typed, MergeTyped
  <2>3. Had(p, w) \in Int /\ OutOf(p, {w}) \in Int  BY HadTypes, GoodsTypes
  <2> QED BY <2>2, <2>3 DEF Excess
<1>2. ExcessFn(p) \in [Warehouse -> Int]  BY <1>1 DEF ExcessFn
<1>3. ExcessAll(p) \in Int
  <2> DEFINE f == ExcessFn(p)
  <2>1. f \in [Warehouse -> Int]  BY <1>2
  <2> HIDE DEF f
  <2>2. SumFunction(f) \in Int  BY <2>1, SumType DEF WarehousesAssumption
  <2> QED BY <2>2 DEF ExcessAll, f
<1> QED BY <1>1, <1>2, <1>3

LEMMA ExcessThen ==
  ASSUME ShipmentsAssumption, WarehousesAssumption, Typed', NEW p \in Product
  PROVE  /\ \A w \in Warehouse : /\ Had(p, w)' \in Int /\ OutOf(p, {w})' \in Int
                                 /\ due'[<<p, w>>] \in Int /\ Excess(p, w)' \in Int
         /\ ExcessFn(p)' \in [Warehouse -> Int] /\ ExcessAll(p)' \in Int
<1>1. ASSUME NEW w \in Warehouse
      PROVE  /\ Had(p, w)' \in Int /\ OutOf(p, {w})' \in Int
             /\ due'[<<p, w>>] \in Int /\ Excess(p, w)' \in Int
  <2>1. <<p, w>> \in Key  BY DEF Key
  <2>2. due'[<<p, w>>] \in Int /\ stock'[<<p, w>>] \in Int
    BY <2>1 DEF Typed, TypeOK, MergeTyped
  <2>3. Had(p, w)' \in Int  BY <2>2 DEF Had
  <2>4. OutOf(p, {w})' \in Int
    <3> DEFINE g == OutFn(p, {w})'
    <3>1. \A s \in Shipment, l \in Line : OutAt(s, l)' \in Int
      <4> SUFFICES ASSUME NEW s \in Shipment, NEW l \in Line PROVE OutAt(s, l)' \in Int
        OBVIOUS
      <4>1. items'[s][l] \in Int  BY DEF Typed, TypeOK, Items, Quantity, ShipmentsAssumption
      <4> QED BY <4>1 DEF OutAt
    <3>2. g \in [Shipment \X Line -> Int]  BY <3>1 DEF OutFn
    <3> HIDE DEF g
    <3>3. SumFunction(g) \in Int  BY <3>2, SlotsFinite, SumType
    <3> QED BY <3>3 DEF OutOf, g
  <2> QED BY <2>2, <2>3, <2>4 DEF Excess
<1>2. ExcessFn(p)' \in [Warehouse -> Int]  BY <1>1 DEF ExcessFn
<1>3. ExcessAll(p)' \in Int
  <2> DEFINE f == ExcessFn(p)'
  <2>1. f \in [Warehouse -> Int]  BY <1>2
  <2> HIDE DEF f
  <2>2. SumFunction(f) \in Int  BY <2>1, SumType DEF WarehousesAssumption
  <2> QED BY <2>2 DEF ExcessAll, f
<1> QED BY <1>1, <1>2, <1>3

(* A step that leaves every warehouse as far off as it was. *)
Level == \A p \in Product, w \in Warehouse : Excess(p, w)' = Excess(p, w)

LEMMA LevelAll ==
  ASSUME Level, NEW p \in Product
  PROVE  ExcessAll(p)' = ExcessAll(p)
<1>1. ExcessFn(p)' = ExcessFn(p)  BY DEF Level, ExcessFn
<1> QED BY <1>1 DEF ExcessAll

(* Steady steps keep the sums.                                               *)
LEMMA SteadySums ==
  ASSUME Steady, NEW p, NEW W
  PROVE  OutOf(p, W)' = OutOf(p, W)
<1> DEFINE G(x) == IF row'[x[1]].warehouse \in W /\ ProductOf[x[2]] = p THEN OutAt(x[1], x[2])' ELSE 0
           F(x) == IF row[x[1]].warehouse \in W /\ ProductOf[x[2]] = p THEN OutAt(x[1], x[2]) ELSE 0
<1>1. ASSUME NEW x \in Shipment \X Line PROVE G(x) = F(x)
  <2>1. x[1] \in Shipment /\ x[2] \in Line  OBVIOUS
  <2>2. /\ OutAt(x[1], x[2])' = OutAt(x[1], x[2])
        /\ OutAt(x[1], x[2]) # 0 => row'[x[1]].warehouse = row[x[1]].warehouse
    BY <2>1 DEF Steady
  <2> QED BY <2>2
<1>2. OutFn(p, W)' = [x \in Shipment \X Line |-> G(x)]  BY DEF OutFn
<1>3. OutFn(p, W) = [x \in Shipment \X Line |-> F(x)]  BY DEF OutFn
<1> HIDE DEF F, G
<1>4. OutFn(p, W)' = OutFn(p, W)  BY <1>1, <1>2, <1>3
<1> QED BY <1>4 DEF OutOf

LEMMA LevelSteady ==
  ASSUME Steady, UNCHANGED <<hasStock, stock, due>>
  PROVE  Level
<1> SUFFICES ASSUME NEW p \in Product, NEW w \in Warehouse PROVE Excess(p, w)' = Excess(p, w)
  BY DEF Level
<1>1. OutOf(p, {w})' = OutOf(p, {w})  BY SteadySums
<1> QED BY <1>1 DEF Excess, Had

(* What a step makes of the goods that are out it enters in due.             *)
LEMMA LevelAccounted ==
  ASSUME ShipmentsAssumption, WarehousesAssumption, Typed, Accounted
  PROVE  Level
<1>1. PICK S, gain : OwedFor(S, gain)  BY DEF Accounted
<1>2. /\ gain \in [Shipment -> Int] /\ due' = Owed(S, gain)
      /\ UNCHANGED <<hasStock, stock, row>>
      /\ \A s \in Shipment, l \in Line :
           OutAt(s, l)' = OutAt(s, l) + (IF s \in S THEN gain[s] * items[s][l] ELSE 0)
  BY <1>1 DEF OwedFor
<1> SUFFICES ASSUME NEW p \in Product, NEW w \in Warehouse PROVE Excess(p, w)' = Excess(p, w)
  BY DEF Level
<1> DEFINE D == Shipment \X Line
           f == OutFn(p, {w})
           g == GainFn(S, gain, p, w)
           h == OutFn(p, {w})'
<1>3. f \in [D -> Int] /\ g \in [D -> Int] /\ IsFiniteSet(D)
  BY <1>2, GoodsTypes, OwedType, SlotsFinite
<1>4. h = [x \in D |-> f[x] + g[x]]
  <2> DEFINE F(x) == IF row[x[1]].warehouse \in {w} /\ ProductOf[x[2]] = p
                       THEN OutAt(x[1], x[2]) ELSE 0
             F2(x) == IF row'[x[1]].warehouse \in {w} /\ ProductOf[x[2]] = p
                       THEN OutAt(x[1], x[2])' ELSE 0
             G(x) == IF x[1] \in S /\ row[x[1]].warehouse = w /\ ProductOf[x[2]] = p
                       THEN gain[x[1]] * items[x[1]][x[2]] ELSE 0
  <2>1. f = [x \in D |-> F(x)] /\ h = [x \in D |-> F2(x)]  BY DEF OutFn
  <2>2. g = [x \in D |-> G(x)]  BY DEF GainFn
  <2>3. ASSUME NEW x \in D PROVE F2(x) = F(x) + G(x)
    <3>1. x[1] \in Shipment /\ x[2] \in Line  OBVIOUS
    <3>2. OutAt(x[1], x[2]) \in Int  BY <3>1, GoodsTypes
    <3> DEFINE more == gain[x[1]] * items[x[1]][x[2]]
    <3>3. more \in Int
      <4>1. gain[x[1]] \in Int /\ items[x[1]][x[2]] \in Int  BY <1>2, <3>1, ItemsNat
      <4> QED BY <4>1
    <3>4. OutAt(x[1], x[2])' = OutAt(x[1], x[2]) + (IF x[1] \in S THEN more ELSE 0)
      BY <1>2, <3>1
    <3>5. G(x) = IF x[1] \in S /\ row[x[1]].warehouse = w /\ ProductOf[x[2]] = p THEN more ELSE 0
      OBVIOUS
    <3>6. row' = row  BY <1>2
    <3> HIDE DEF more, G
    <3> QED BY <3>2, <3>3, <3>4, <3>5, <3>6
  <2> HIDE DEF F, F2, G, f, g, h, D
  <2>4. \A x \in D : f[x] + g[x] = F2(x)  BY <2>1, <2>2, <2>3
  <2> QED BY <2>1, <2>4
<1> HIDE DEF f, g, h, D
<1>5. SumFunction(h) = SumFunction(f) + SumFunction(g)  BY <1>3, <1>4, SumPlus
<1>6. <<p, w>> \in Key /\ <<p, w>>[1] = p /\ <<p, w>>[2] = w  BY DEF Key
<1>7. due'[<<p, w>>] = due[<<p, w>>] + SumFunction(g)  BY <1>2, <1>6 DEF Owed, g
<1>8. Had(p, w)' = Had(p, w)  BY <1>2 DEF Had
<1>9. SumFunction(f) \in Int /\ SumFunction(g) \in Int  BY <1>3, SumType
<1>10. Had(p, w) \in Int /\ due[<<p, w>>] \in Int  BY ExcessTypes
<1>11. OutOf(p, {w}) = SumFunction(f) /\ OutOf(p, {w})' = SumFunction(h)  BY DEF OutOf, f, h
<1> QED BY <1>5, <1>7, <1>8, <1>9, <1>10, <1>11 DEF Excess

------------------------------------------------------------------------------
(* An item of a shipment moves between its stock row and the shipment. *)
GoodsMove(s, l, d) ==
  LET k == <<ProductOf[l], row[s].warehouse>> IN
  /\ d \in Int /\ k \in hasStock /\ stock'[k] = stock[k] + d
  /\ OutAt(s, l)' = OutAt(s, l) - d
  /\ UNCHANGED <<hasStock, row, due>>
  /\ \A x \in Key \ {k} : stock'[x] = stock[x]
  /\ \A x \in Shipment, y \in Line : ~(x = s /\ y = l) => OutAt(x, y)' = OutAt(x, y)

(* A write of a stock row is such a move, when nothing has raced.            *)
LEMMA SaveBesideMoves ==
  ASSUME ShipmentsAssumption, Typed, Jobs, MovingItems, FreshReads, raced' = {},
         NEW r \in Request, NEW s \in Shipment, NEW l \in Line, SaveBeside(r, s, l)
  PROVE  \E d : GoodsMove(s, l, d)
<1> DEFINE k == KeyOf(job[r][s], l)
           d == Direction(job[r][s].target, job[r][s].returnStocks) * items[s][l]
<1>1. Writes(r, s, l, k)  BY SaveBesideFacts
<1>2. /\ job[r][s] # NoJob /\ at[r][s][l] = "read" /\ hasStock' = hasStock \cup {k}
      /\ stock'[k] = seen[r][s][l]
           + Direction(job[r][s].target, job[r][s].returnStocks) * job[r][s].items[l]
      /\ \A x \in Key \ {k} : stock'[x] = stock[x]
      /\ at' = [Overtake({k}) EXCEPT ![r][s][l] = "idle"]
      /\ UNCHANGED <<live, row, items, job, due>>
  BY <1>1 DEF Writes
<1>3. /\ s \in live /\ job[r][s].row = row[s] /\ job[r][s].items = items[s]
      /\ \A q \in Request \ {r} : job[q][s] = NoJob
  BY <1>2 DEF Jobs, Working, Alone
<1>4. k = <<ProductOf[l], row[s].warehouse>>  BY <1>3 DEF KeyOf
<1>5. k \in hasStock /\ seen[r][s][l] = stock[k]  BY <1>2 DEF FreshReads
<1>6. Direction(job[r][s].target, job[r][s].returnStocks) # 0  BY <1>2 DEF MovingItems
<1>7. \A q \in Request, x \in Shipment, y \in Line :
        ~(q = r /\ x = s /\ y = l) => (at'[q][x][y] = "idle" <=> at[q][x][y] = "idle")
  BY <1>2 DEF Overtake, Typed, TypeOK
<1>8. at'[r][s][l] = "idle" /\ at[r][s][l] # "idle"  BY <1>2 DEF Overtake, Typed, TypeOK
<1>9. items[s][l] \in Int  BY ItemsNat
<1>10. LET t == job[r][s].target IN
         /\ Out(s, l) <=> t # "shipped"
         /\ Out(s, l)' <=> LeftAfter(s, t)
         /\ t # "shipped" => t \in {"returned", "cancelled", Deleted}
  <2>1. \A q \in Request : job[q][s] # NoJob => q = r  BY <1>3
  <2>2. Out(s, l) <=> job[r][s].target # "shipped"  BY <1>2, <1>8, <2>1 DEF Out
  <2>3. Out(s, l)' <=> LeftAfter(s, job[r][s].target)
    BY <1>2, <1>8, <2>1 DEF Out, LeftAfter, Left
  <2> QED BY <1>6, <2>2, <2>3 DEF Direction
<1>11. OutAt(s, l)' = OutAt(s, l) - d /\ d \in Int
  <2>1. CASE job[r][s].target = "shipped"
    <3>1. d = 0 - items[s][l]
      <4>1. Direction(job[r][s].target, job[r][s].returnStocks) = -1  BY <2>1 DEF Direction
      <4> QED BY <1>9, <4>1
    <3>2. OutAt(s, l) = 0 /\ OutAt(s, l)' = items[s][l]
      BY <1>2, <1>3, <1>10, <2>1 DEF OutAt, LeftAfter
    <3> HIDE DEF d
    <3> QED BY <1>9, <3>1, <3>2
  <2>2. CASE job[r][s].target # "shipped"
    <3>1. d = items[s][l]
      <4>1. Direction(job[r][s].target, job[r][s].returnStocks) = 1  BY <1>6, <2>2 DEF Direction
      <4> QED BY <1>9, <4>1
    <3>2. OutAt(s, l) = items[s][l] /\ OutAt(s, l)' = 0
      BY <1>2, <1>3, <1>10, <2>2 DEF OutAt, LeftAfter
    <3> HIDE DEF d
    <3> QED BY <1>9, <3>1, <3>2
  <2> QED BY <2>1, <2>2
<1>12. ASSUME NEW x \in Shipment, NEW y \in Line, ~(x = s /\ y = l)
       PROVE  OutAt(x, y)' = OutAt(x, y)
  <2>1. \A q \in Request : at'[q][x][y] = "idle" <=> at[q][x][y] = "idle"  BY <1>7, <1>12
  <2>2. Out(x, y)' <=> Out(x, y)  BY <1>2, <2>1 DEF Out, Left, LeftAfter
  <2> QED BY <1>2, <2>2 DEF OutAt
<1>13. stock'[k] = stock[k] + d  BY <1>2, <1>3, <1>5
<1>14. hasStock' = hasStock  BY <1>2, <1>5
<1> HIDE DEF d, k
<1>15. GoodsMove(s, l, d)
  BY <1>2, <1>4, <1>5, <1>11, <1>12, <1>13, <1>14 DEF GoodsMove
<1> QED BY <1>15

(* What leaves the stock is out with the shipment.                           *)
LEMMA OutMoves ==
  ASSUME ShipmentsAssumption, WarehousesAssumption, Typed, Typed', NEW p, NEW W,
         NEW s \in Shipment, NEW l \in Line, NEW d, GoodsMove(s, l, d)
  PROVE  OutOf(p, W)' = OutOf(p, W)
           - (IF row[s].warehouse \in W /\ ProductOf[l] = p THEN d ELSE 0)
<1> DEFINE f == OutFn(p, W)
           g == OutFn(p, W)'
           x == <<s, l>>
           c == IF row[s].warehouse \in W /\ ProductOf[l] = p THEN d ELSE 0
<1>1. f \in [Shipment \X Line -> Int]  BY GoodsTypes
<1>2. g \in [Shipment \X Line -> Int]
  <2>1. \A y \in Shipment, z \in Line : OutAt(y, z)' \in Int
    <3> SUFFICES ASSUME NEW y \in Shipment, NEW z \in Line PROVE OutAt(y, z)' \in Int
      OBVIOUS
    <3>1. items'[y][z] \in Int
      BY DEF Typed, TypeOK, Items, Quantity, ShipmentsAssumption
    <3> QED BY <3>1 DEF OutAt
  <2> QED BY <2>1 DEF OutFn
<1>3. x \in Shipment \X Line /\ x[1] = s /\ x[2] = l  OBVIOUS
<1>4. /\ d \in Int /\ OutAt(s, l)' = OutAt(s, l) - d /\ row' = row
      /\ \A y \in Shipment, z \in Line : ~(y = s /\ z = l) => OutAt(y, z)' = OutAt(y, z)
  BY DEF GoodsMove
<1>5. g[x] = f[x] - c
  <2>1. f[x] = IF row[s].warehouse \in W /\ ProductOf[l] = p THEN OutAt(s, l) ELSE 0
    BY <1>3 DEF OutFn
  <2>2. g[x] = IF row'[s].warehouse \in W /\ ProductOf[l] = p THEN OutAt(s, l)' ELSE 0
    BY <1>3 DEF OutFn
  <2>3. f[x] \in Int  BY <1>1, <1>3
  <2> HIDE DEF f, g
  <2> QED BY <1>4, <2>1, <2>2, <2>3
<1>6. ASSUME NEW y \in (Shipment \X Line) \ {x} PROVE g[y] = f[y]
  <2>1. y[1] \in Shipment /\ y[2] \in Line /\ ~(y[1] = s /\ y[2] = l)  OBVIOUS
  <2>2. OutAt(y[1], y[2])' = OutAt(y[1], y[2])  BY <1>4, <2>1
  <2>3. f[y] = IF row[y[1]].warehouse \in W /\ ProductOf[y[2]] = p THEN OutAt(y[1], y[2]) ELSE 0
    BY DEF OutFn
  <2>4. g[y] = IF row'[y[1]].warehouse \in W /\ ProductOf[y[2]] = p THEN OutAt(y[1], y[2])' ELSE 0
    BY DEF OutFn
  <2> HIDE DEF f, g
  <2> QED BY <1>4, <2>2, <2>3, <2>4
<1> HIDE DEF f, g, x, c
<1>7. SumFunction(g) = SumFunction(f) + g[x] - f[x]
  BY <1>1, <1>2, <1>3, <1>6, SlotsFinite, PointChange
<1>8. SumFunction(f) \in Int /\ SumFunction(g) \in Int /\ f[x] \in Int /\ c \in Int
  BY <1>1, <1>2, <1>3, <1>4, SlotsFinite, SumType DEF c
<1>9. SumFunction(g) = SumFunction(f) - c  BY <1>5, <1>7, <1>8
<1> QED BY <1>9 DEF OutOf, f, g, c

(* What leaves the one arrives at the other. *)
LEMMA LevelMoves ==
  ASSUME ShipmentsAssumption, WarehousesAssumption, Typed, Typed',
         NEW s \in Shipment, NEW l \in Line, NEW d, GoodsMove(s, l, d)
  PROVE  Level
<1> SUFFICES ASSUME NEW p \in Product, NEW w \in Warehouse PROVE Excess(p, w)' = Excess(p, w)
  BY DEF Level
<1> DEFINE v == row[s].warehouse
           k == <<ProductOf[l], v>>
<1>1. /\ d \in Int /\ k \in hasStock /\ stock'[k] = stock[k] + d /\ hasStock' = hasStock
      /\ due' = due /\ \A x \in Key \ {k} : stock'[x] = stock[x]
  BY DEF GoodsMove
<1>2. v \in Warehouse /\ ProductOf[l] \in Product
  BY DEF Typed, TypeOK, Row, ShipmentsAssumption
<1>3. Had(p, w)' = Had(p, w) + (IF ProductOf[l] = p /\ v = w THEN d ELSE 0)
  <2>1. <<p, w>> \in Key  BY DEF Key
  <2>2. stock[<<p, w>>] \in Int  BY <2>1 DEF Typed, TypeOK
  <2>3. CASE ProductOf[l] = p /\ v = w  BY <1>1, <2>3 DEF Had
  <2>4. CASE ~(ProductOf[l] = p /\ v = w)
    <3>1. stock'[<<p, w>>] = stock[<<p, w>>]  BY <1>1, <2>1, <2>4
    <3>2. Had(p, w)' = Had(p, w) /\ Had(p, w) \in Int  BY <1>1, <2>2, <3>1 DEF Had
    <3> QED BY <2>4, <3>2
  <2> QED BY <2>3, <2>4
<1>4. OutOf(p, {w})' = OutOf(p, {w}) - (IF v \in {w} /\ ProductOf[l] = p THEN d ELSE 0)
  BY OutMoves
<1>5. OutOf(p, {w}) \in Int /\ Had(p, w) \in Int /\ due[<<p, w>>] \in Int  BY ExcessTypes
<1>6. due'[<<p, w>>] = due[<<p, w>>]  BY <1>1
<1> HIDE DEF v
<1> QED BY <1>1, <1>3, <1>4, <1>5, <1>6 DEF Excess

(* A step between two warehouses that together become further off by d. *)
Even(p, from, to, d) ==
  /\ \A w \in Warehouse \ {from, to} : Excess(p, w)' = Excess(p, w)
  /\ Excess(p, from)' + Excess(p, to)' = Excess(p, from) + Excess(p, to) + d

LEMMA EvenAll ==
  ASSUME ShipmentsAssumption, WarehousesAssumption, Typed, Typed', NEW p \in Product,
         NEW from \in Warehouse, NEW to \in Warehouse, from # to, NEW d \in Int, Even(p, from, to, d)
  PROVE  ExcessAll(p)' = ExcessAll(p) + d
<1> DEFINE f == ExcessFn(p)
           g == ExcessFn(p)'
<1>1. f \in [Warehouse -> Int] /\ \A w \in Warehouse : f[w] = Excess(p, w) /\ f[w] \in Int
  BY ExcessTypes DEF ExcessFn
<1>2. g \in [Warehouse -> Int] /\ \A w \in Warehouse : g[w] = Excess(p, w)' /\ g[w] \in Int
  BY ExcessThen DEF ExcessFn
<1> HIDE DEF f, g
<1>3. /\ \A w \in Warehouse \ {from, to} : g[w] = f[w]
      /\ g[from] + g[to] = f[from] + f[to] + d
  BY <1>1, <1>2 DEF Even
<1>4. SumFunction(g) = SumFunction(f) + (g[from] + g[to]) - (f[from] + f[to])
  BY <1>1, <1>2, <1>3, PairChange DEF WarehousesAssumption
<1>5. SumFunction(f) \in Int /\ SumFunction(g) \in Int
  BY <1>1, <1>2, SumType DEF WarehousesAssumption
<1>6. SumFunction(g) = SumFunction(f) + d  BY <1>1, <1>2, <1>3, <1>4, <1>5
<1> QED BY <1>6 DEF ExcessAll, f, g

(* The shipments move from one warehouse to another. *)
LEMMA DeleteWarehouseExcess ==
  ASSUME ShipmentsAssumption, WarehousesAssumption, Typed, Typed', Jobs, NEW r \in Request,
         NEW from \in Warehouse, NEW to \in Warehouse, DeleteWarehouse(r, from, to), collided' = {}
  PROVE  /\ from = to => Level
         /\ from # to => \A p \in Product : Even(p, from, to, 0)
<1> DEFINE D == Shipment \X Line
<1>1. /\ UNCHANGED <<hasStock, stock, live, items, job, at>>
      /\ \A s \in Shipment : row'[s].shippedAt = row[s].shippedAt
      /\ \A s \in Shipment : row'[s].warehouse =
           IF s \in live /\ row[s].warehouse = from THEN to ELSE row[s].warehouse
  BY DeleteWarehouseFacts
<1>2. due' = due  BY DEF DeleteWarehouse
<1>3. ASSUME NEW s \in Shipment, NEW l \in Line PROVE OutAt(s, l)' = OutAt(s, l)
  <2>1. Out(s, l)' <=> Out(s, l)  BY <1>1 DEF Out, Left, LeftAfter
  <2> QED BY <1>1, <2>1 DEF OutAt
<1>4. from = to => Level
  <2> SUFFICES ASSUME from = to PROVE Level  OBVIOUS
  <2>1. \A s \in Shipment : row'[s].warehouse = row[s].warehouse  BY <1>1
  <2>2. Steady  BY <1>3, <2>1 DEF Steady
  <2> QED BY <1>1, <1>2, <2>2, LevelSteady
<1>5. ASSUME from # to, NEW p \in Product PROVE Even(p, from, to, 0)
  <2> DEFINE F(w, x) == IF row[x[1]].warehouse \in {w} /\ ProductOf[x[2]] = p
                          THEN OutAt(x[1], x[2]) ELSE 0
             G(w, x) == IF row'[x[1]].warehouse \in {w} /\ ProductOf[x[2]] = p
                          THEN OutAt(x[1], x[2]) ELSE 0
  <2>1. ASSUME NEW w PROVE /\ OutFn(p, {w}) = [x \in D |-> F(w, x)]
                           /\ OutFn(p, {w})' = [x \in D |-> G(w, x)]
    <3>1. OutFn(p, {w}) = [x \in D |-> F(w, x)]  BY DEF OutFn
    <3>2. OutFn(p, {w})' = [x \in D |-> IF row'[x[1]].warehouse \in {w} /\ ProductOf[x[2]] = p
                                        THEN OutAt(x[1], x[2])' ELSE 0]
      BY DEF OutFn
    <3>3. \A x \in D : OutAt(x[1], x[2])' = OutAt(x[1], x[2])  BY <1>3
    <3> QED BY <3>1, <3>2, <3>3
  <2>2. ASSUME NEW x \in D
        PROVE  /\ row[x[1]].warehouse \in Warehouse /\ row'[x[1]].warehouse \in Warehouse
               /\ x[1] \in live /\ row[x[1]].warehouse = from => row'[x[1]].warehouse = to
               /\ ~(x[1] \in live /\ row[x[1]].warehouse = from) =>
                     row'[x[1]].warehouse = row[x[1]].warehouse
               /\ x[1] \notin live => OutAt(x[1], x[2]) = 0
               /\ OutAt(x[1], x[2]) \in Int
    <3>1. x[1] \in Shipment /\ x[2] \in Line  OBVIOUS
    <3>2. row[x[1]].warehouse \in Warehouse /\ row'[x[1]].warehouse \in Warehouse
      BY <3>1 DEF Typed, TypeOK, Row
    <3>3. OutAt(x[1], x[2]) \in Int  BY <3>1, GoodsTypes
    <3> QED BY <1>1, <3>1, <3>2, <3>3 DEF OutAt
  <2>3. IsFiniteSet(D)  BY SlotsFinite
  <2> HIDE DEF D
  <2>4. ASSUME NEW w \in Warehouse \ {from, to} PROVE Excess(p, w)' = Excess(p, w)
    <3>1. \A x \in D : F(w, x) = G(w, x)  BY <2>2
    <3>2. /\ OutFn(p, {w}) = [x \in D |-> F(w, x)]
          /\ OutFn(p, {w})' = [x \in D |-> G(w, x)]
      BY <2>1
    <3> HIDE DEF F, G
    <3>3. [x \in D |-> F(w, x)] = [x \in D |-> G(w, x)]  BY <3>1
    <3>4. OutFn(p, {w})' = OutFn(p, {w})  BY <3>2, <3>3
    <3>5. OutOf(p, {w})' = OutOf(p, {w})  BY <3>4 DEF OutOf
    <3> QED BY <1>1, <1>2, <3>5 DEF Excess, Had
  <2>5. OutOf(p, {from})' + OutOf(p, {to})' = OutOf(p, {from}) + OutOf(p, {to})
    <3> DEFINE f1 == [x \in D |-> F(from, x)]
               f2 == [x \in D |-> F(to, x)]
               g1 == [x \in D |-> G(from, x)]
               g2 == [x \in D |-> G(to, x)]
    <3>1. ASSUME NEW x \in D
          PROVE  /\ F(from, x) \in Int /\ F(to, x) \in Int
                 /\ G(from, x) \in Int /\ G(to, x) \in Int
                 /\ F(from, x) + F(to, x) = G(from, x) + G(to, x)
      BY <1>5, <2>2
    <3>2. /\ f1 \in [D -> Int] /\ f2 \in [D -> Int] /\ g1 \in [D -> Int] /\ g2 \in [D -> Int]
          /\ \A x \in D : f1[x] + f2[x] = g1[x] + g2[x]
      BY <3>1
    <3>3. /\ OutOf(p, {from}) = SumFunction(f1) /\ OutOf(p, {to}) = SumFunction(f2)
          /\ OutOf(p, {from})' = SumFunction(g1) /\ OutOf(p, {to})' = SumFunction(g2)
      BY <2>1 DEF OutOf
    <3> HIDE DEF f1, f2, g1, g2
    <3>4. SumFunction([x \in D |-> f1[x] + f2[x]]) = SumFunction(f1) + SumFunction(f2)
      BY <2>3, <3>2, SumPlus
    <3>5. SumFunction([x \in D |-> g1[x] + g2[x]]) = SumFunction(g1) + SumFunction(g2)
      BY <2>3, <3>2, SumPlus
    <3>6. [x \in D |-> f1[x] + f2[x]] = [x \in D |-> g1[x] + g2[x]]  BY <3>2
    <3> QED BY <3>3, <3>4, <3>5, <3>6
  <2>6. Had(p, from)' = Had(p, from) /\ Had(p, to)' = Had(p, to)  BY <1>1 DEF Had
  <2>7. \A w \in Warehouse : /\ Had(p, w) \in Int /\ OutOf(p, {w}) \in Int
                             /\ OutOf(p, {w})' \in Int /\ due[<<p, w>>] \in Int
    BY ExcessTypes, ExcessThen
  <2>8. Excess(p, from)' + Excess(p, to)' = Excess(p, from) + Excess(p, to) + 0
    BY <1>2, <2>5, <2>6, <2>7 DEF Excess
  <2> QED BY <2>4, <2>8 DEF Even
<1> QED BY <1>4, <1>5

------------------------------------------------------------------------------
(* Half-way through a merge goods are at two warehouses.                     *)

(* Deletion r has merged the row of product p into another warehouse.        *)
Done(r, p) == /\ Merging(r) /\ merge[r].from # merge[r].to
              /\ p \notin merge[r].left /\ ~Now(r, p)

(* Goods of product p that deletion r has added at the new warehouse and not *)
(* yet dropped at the old one.                                               *)
Twice(r, p) ==
  IF Done(r, p) /\ p \notin merge[r].changed /\ <<p, merge[r].from>> \in hasStock
    THEN merge[r].had[p] ELSE 0
TwiceFn(p) == [r \in Request |-> Twice(r, p)]

(* The row has changed since: dropping it will show in raced. *)
Unsure(r, p) == Done(r, p) /\ p \in merge[r].changed

LEMMA TwiceInt ==
  ASSUME Typed, NEW r \in Request, NEW p \in Product
  PROVE  Twice(r, p) \in Int
<1>1. Merging(r) => merge[r] \in Merge
  <2>1. NoMerge.stage = "none"  BY DEF NoMerge
  <2>2. Merging(r) => merge[r] # NoMerge  BY <2>1 DEF Merging
  <2> QED BY <2>2, DeletionType DEF Typed
<1>2. Merging(r) => merge[r].had[p] \in Int  BY <1>1 DEF Merge
<1> QED BY <1>2 DEF Twice, Done

LEMMA TwiceIntThen ==
  ASSUME Typed', NEW r \in Request, NEW p \in Product
  PROVE  Twice(r, p)' \in Int
<1>1. NoMerge.stage = "none"  BY DEF NoMerge
<1>2. CASE merge'[r] = NoMerge
  <2>1. Twice(r, p)' = 0  BY <1>1, <1>2 DEF Twice, Done, Merging
  <2> QED BY <2>1
<1>3. CASE merge'[r] # NoMerge
  <2>1. merge'[r] \in Merge  BY <1>3 DEF Typed, MergeTyped
  <2>2. merge'[r].had[p] \in Int  BY <2>1 DEF Merge
  <2> QED BY <2>2 DEF Twice, Done
<1> QED BY <1>2, <1>3

LEMMA TwiceNat ==
  ASSUME Typed, Positive, oversold = {}, NEW r \in Request, NEW p \in Product
  PROVE  Twice(r, p) >= 0
<1>1. NoMerge.stage = "none"  BY DEF NoMerge
<1>2. Merging(r) => merge[r] # NoMerge  BY <1>1 DEF Merging
<1>3. Merging(r) => merge[r].had[p] >= 0  BY <1>2 DEF Positive
<1> QED BY <1>3 DEF Twice, Done

LEMMA TwiceKept ==
  ASSUME NEW q \in Request, NEW p \in Product, merge'[q] = merge[q], UNCHANGED hasStock
  PROVE  Twice(q, p)' = Twice(q, p) /\ (Unsure(q, p)' <=> Unsure(q, p))
BY DEF Twice, Unsure, Done, Merging, Now

(* A write that a deletion has missed leaves what it holds twice, or unsure. *)
LEMMA TwiceMissed ==
  ASSUME Typed, NEW K, NEW q \in Request, NEW p \in Product, merge'[q] = Missed(K)[q],
         \A k \in Key \ K : k \in hasStock <=> k \in hasStock'
  PROVE  /\ Twice(q, p)' = Twice(q, p) \/ (Twice(q, p)' = 0 /\ Unsure(q, p)')
         /\ Unsure(q, p) => Unsure(q, p)'
<1> DEFINE m == merge[q]
           n == merge'[q]
<1>1. CASE m = NoMerge
  <2>1. n = NoMerge  BY <1>1 DEF Missed
  <2>2. NoMerge.stage = "none"  BY DEF NoMerge
  <2> QED BY <1>1, <2>1, <2>2 DEF Twice, Unsure, Done, Merging
<1>2. CASE m # NoMerge
  <2>1. /\ n.stage = m.stage /\ n.from = m.from /\ n.to = m.to /\ n.left = m.left /\ n.had = m.had
        /\ n.product = m.product
        /\ n.changed = m.changed \cup {x \in Product : <<x, m.from>> \in K}
    BY <1>2, MissedFields DEF Typed
  <2>2. m \in Merge  BY <1>2, DeletionType DEF Typed
  <2>3. <<p, m.from>> \in Key  BY <2>2 DEF Merge, Key
  <2> DEFINE In == /\ m.stage \in {"find", "save", "move"} /\ p \notin m.left /\ m.from # m.to
                   /\ ~(m.stage \in {"save", "move"} /\ m.product = p)
             had == m.had[p]
             nought == 0
  <2>4. /\ Twice(q, p) = IF In /\ p \notin m.changed /\ <<p, m.from>> \in hasStock THEN had ELSE nought
        /\ Unsure(q, p) <=> In /\ p \in m.changed
    BY DEF Twice, Unsure, Done, Merging, Now
  <2>5. /\ Twice(q, p)' = IF In /\ p \notin n.changed /\ <<p, m.from>> \in hasStock' THEN had ELSE nought
        /\ Unsure(q, p)' <=> In /\ p \in n.changed
    BY <2>1 DEF Twice, Unsure, Done, Merging, Now
  <2> HIDE DEF In, had, m, n
  <2>6. CASE <<p, m.from>> \in K
    <3>1. p \in n.changed  BY <2>1, <2>6
    <3>2. In => Unsure(q, p)' /\ Twice(q, p)' = nought  BY <2>5, <3>1
    <3>3. ~In => Twice(q, p)' = Twice(q, p) /\ ~Unsure(q, p)  BY <2>4, <2>5
    <3> QED BY <2>4, <3>2, <3>3
  <2>7. CASE <<p, m.from>> \notin K
    <3>1. p \in n.changed <=> p \in m.changed  BY <2>1, <2>7
    <3>2. <<p, m.from>> \in hasStock <=> <<p, m.from>> \in hasStock'  BY <2>3, <2>7
    <3> QED BY <2>4, <2>5, <3>1, <3>2
  <2> QED BY <2>6, <2>7
<1> QED BY <1>1, <1>2

------------------------------------------------------------------------------
(* What a step of a deletion adds at its two warehouses it holds twice. *)
Balanced(r, from, to) ==
  /\ merge[r] # NoMerge /\ merge'[r] # NoMerge /\ from # to
  /\ merge[r].from = from /\ merge[r].to = to /\ merge'[r].from = from /\ merge'[r].to = to
  /\ \A p \in Product :
       /\ \A w \in Warehouse \ {from, to} : Had(p, w)' = Had(p, w)
       /\ Had(p, from)' + Had(p, to)' + Twice(r, p) = Had(p, from) + Had(p, to) + Twice(r, p)'
       /\ Unsure(r, p) => Unsure(r, p)'
       /\ \A q \in Request \ {r} : Twice(q, p)' \in {Twice(q, p), 0}

(* Nothing has been added yet.                                               *)
LEMMA ListStocksBalanced ==
  ASSUME Typed, NEW r \in Request, ListStocks(r), merge[r].from # merge[r].to
  PROVE  \E from, to \in Warehouse : Balanced(r, from, to)
<1> DEFINE m == merge[r]
           n == merge'[r]
<1>1. /\ m \in Merge /\ m.stage = "list" /\ m # NoMerge
      /\ n # NoMerge /\ n.from = m.from /\ n.to = m.to
      /\ n.left = {p \in Product : <<p, n.from>> \in hasStock}
      /\ \A q \in Request \ {r} : merge'[q] = merge[q]
      /\ UNCHANGED <<hasStock, stock>>
  BY ListStocksMerge DEF vars, stockVars
<1>2. m.from # m.to  OBVIOUS
<1>3. m.from \in Warehouse /\ m.to \in Warehouse  BY <1>1 DEF Merge
<1>4. ASSUME NEW p \in Product
      PROVE  /\ Twice(r, p)' = 0 /\ Twice(r, p) = 0 /\ ~Unsure(r, p)
             /\ \A q \in Request \ {r} : Twice(q, p)' = Twice(q, p)
             /\ \A w \in Warehouse : Had(p, w)' = Had(p, w)
  <2>1. Twice(r, p) = 0 /\ ~Unsure(r, p)  BY <1>1 DEF Twice, Unsure, Done, Merging
  <2>2. Twice(r, p)' = 0  BY <1>1 DEF Twice, Done, Merging
  <2>3. \A q \in Request \ {r} : Twice(q, p)' = Twice(q, p)  BY <1>1, TwiceKept
  <2> QED BY <1>1, <2>1, <2>2, <2>3 DEF Had
<1>5. PICK from \in Warehouse, to \in Warehouse : from = m.from /\ to = m.to  BY <1>3
<1> HIDE DEF m, n
<1>6. Balanced(r, from, to)  BY <1>1, <1>2, <1>4, <1>5 DEF Balanced, m, n
<1> QED BY <1>6

LEMMA FindOtherBalanced ==
  ASSUME Typed, NEW r \in Request, NEW x \in Product, FindOther(r, x), merge[r].from # merge[r].to
  PROVE  \E from, to \in Warehouse : Balanced(r, from, to)
<1> DEFINE m == merge[r]
           n == merge'[r]
<1>1. /\ m \in Merge /\ m.stage = "find" /\ m # NoMerge /\ x \in m.left
      /\ n # NoMerge /\ n.from = m.from /\ n.to = m.to /\ n.product = x
      /\ n.left = m.left \ {x} /\ n.changed = m.changed /\ n.had = m.had
      /\ (n.stage = "save" \/ n.stage = "move")
      /\ \A q \in Request \ {r} : merge'[q] = merge[q]
      /\ UNCHANGED vars
  BY FindOtherMerge
<1>2. UNCHANGED <<hasStock, stock>>  BY <1>1 DEF vars, stockVars
<1>3. m.from # m.to  OBVIOUS
<1>4. PICK from \in Warehouse, to \in Warehouse : from = m.from /\ to = m.to  BY <1>1 DEF Merge
<1>5. ASSUME NEW p \in Product
      PROVE  /\ Twice(r, p)' = Twice(r, p) /\ (Unsure(r, p) => Unsure(r, p)')
             /\ \A q \in Request \ {r} : Twice(q, p)' = Twice(q, p)
             /\ \A w \in Warehouse : Had(p, w)' = Had(p, w)
  <2>1. /\ Twice(r, p) = IF /\ p \notin m.left /\ p \notin m.changed
                            /\ <<p, m.from>> \in hasStock
                           THEN m.had[p] ELSE 0
        /\ Unsure(r, p) <=> p \in m.changed /\ p \notin m.left
    BY <1>1, <1>3 DEF Twice, Unsure, Done, Merging, Now
  <2>2. /\ Twice(r, p)' = IF /\ p \notin n.left /\ p \notin n.changed /\ p # x
                             /\ <<p, n.from>> \in hasStock
                            THEN n.had[p] ELSE 0
        /\ Unsure(r, p)' <=> p \in n.changed /\ p \notin n.left /\ p # x
    BY <1>1, <1>2, <1>3 DEF Twice, Unsure, Done, Merging, Now
  <2>3. \A q \in Request \ {r} : Twice(q, p)' = Twice(q, p)  BY <1>1, <1>2, TwiceKept
  <2>4. \A w \in Warehouse : Had(p, w)' = Had(p, w)  BY <1>2 DEF Had
  <2> HIDE DEF m, n
  <2> QED BY <1>1, <2>1, <2>2, <2>3, <2>4
<1> HIDE DEF m, n
<1>6. Balanced(r, from, to)  BY <1>1, <1>3, <1>4, <1>5 DEF Balanced, m, n
<1> QED BY <1>6

(* The sum of the two rows is at the new warehouse, the old row still there. *)
LEMMA SaveOtherBalanced ==
  ASSUME WarehousesAssumption, Typed, Reading, NEW r \in Request, SaveOther(r), raced' = {},
         merge[r].from # merge[r].to
  PROVE  \E from, to \in Warehouse : Balanced(r, from, to)
<1> DEFINE m == merge[r]
           n == merge'[r]
<1>1. PICK from \in Warehouse, to \in Warehouse : from = m.from /\ to = m.to
  <2>1. m \in Merge  BY SaveOtherMerge
  <2> QED BY <2>1 DEF Merge
<1>2. PICK x \in Product : x = m.product  BY SaveOtherMerge
<1>3. PICK k : k = <<x, to>>  OBVIOUS
<1>4. /\ m \in Merge /\ m.stage = "save" /\ m # NoMerge
      /\ n # NoMerge /\ n.stage = "find" /\ n.from = m.from /\ n.to = m.to
      /\ n.left = m.left /\ n.changed = m.changed /\ n.had = m.had
      /\ \A q \in Request \ {r} : merge'[q] = Missed({k})[q]
      /\ hasStock' = hasStock \cup {k} /\ stock' = [stock EXCEPT ![k] = m.other + m.had[x]]
      /\ ~m.stale /\ x \notin m.changed
  BY <1>1, <1>2, <1>3, SaveOtherMerge
<1>5. /\ from # to /\ x \notin m.left /\ k \in hasStock /\ m.other = stock[k]
      /\ <<x, from>> \in hasStock
  BY <1>1, <1>2, <1>3, <1>4 DEF Reading, ReadingOf, Merging, Now
<1>6. k \in Key /\ stock[k] \in Int /\ m.had[x] \in Int
  BY <1>1, <1>2, <1>3, <1>4 DEF Key, Merge, Typed, TypeOK
<1>7. hasStock' = hasStock /\ stock'[k] = stock[k] + m.had[x]
      /\ \A y \in Key \ {k} : stock'[y] = stock[y]
  BY <1>4, <1>5, <1>6 DEF Typed, TypeOK
<1>8. ASSUME NEW p \in Product
      PROVE  /\ Twice(r, p)' = Twice(r, p) + (IF p = x THEN m.had[x] ELSE 0)
             /\ Unsure(r, p) => Unsure(r, p)'
  <2>1. /\ Twice(r, p) = IF /\ p \notin m.left /\ p \notin m.changed /\ p # x
                            /\ <<p, from>> \in hasStock
                           THEN m.had[p] ELSE 0
        /\ Unsure(r, p) <=> p \in m.changed /\ p \notin m.left /\ p # x
    BY <1>1, <1>2, <1>4, <1>5 DEF Twice, Unsure, Done, Merging, Now
  <2>2. /\ Twice(r, p)' = IF /\ p \notin m.left /\ p \notin m.changed
                             /\ <<p, from>> \in hasStock
                            THEN m.had[p] ELSE 0
        /\ Unsure(r, p)' <=> p \in m.changed /\ p \notin m.left
    BY <1>1, <1>4, <1>5, <1>7 DEF Twice, Unsure, Done, Merging, Now
  <2>3. Twice(r, p) \in Int  BY TwiceInt
  <2> HIDE DEF m, n
  <2> QED BY <1>4, <1>5, <1>6, <2>1, <2>2, <2>3
<1>9. ASSUME NEW p \in Product, NEW w \in Warehouse
      PROVE  Had(p, w)' = Had(p, w) + (IF p = x /\ w = to THEN m.had[x] ELSE 0)
  <2>1. <<p, w>> \in Key  BY DEF Key
  <2>2. Had(p, w) \in Int  BY HadTypes
  <2>3. CASE p = x /\ w = to
    <3>1. Had(p, w)' = stock'[k] /\ Had(p, w) = stock[k]  BY <1>3, <1>5, <1>7, <2>3 DEF Had
    <3> QED BY <1>7, <2>3, <3>1
  <2>4. CASE ~(p = x /\ w = to)
    <3>1. stock'[<<p, w>>] = stock[<<p, w>>]  BY <1>3, <1>7, <2>1, <2>4
    <3>2. Had(p, w)' = Had(p, w)  BY <1>7, <3>1 DEF Had
    <3> QED BY <2>2, <2>4, <3>2
  <2> QED BY <2>3, <2>4
<1>10. ASSUME NEW p \in Product, NEW q \in Request \ {r} PROVE Twice(q, p)' \in {Twice(q, p), 0}
  <2>1. \A y \in Key \ {k} : y \in hasStock <=> y \in hasStock'  BY <1>7
  <2> QED BY <1>4, <2>1, TwiceMissed
<1> HIDE DEF m, n
<1>11. ASSUME NEW p \in Product
       PROVE  /\ \A w \in Warehouse \ {from, to} : Had(p, w)' = Had(p, w)
              /\ Had(p, from)' + Had(p, to)' + Twice(r, p) = Had(p, from) + Had(p, to) + Twice(r, p)'
  <2>1. \A w \in Warehouse : Had(p, w) \in Int  BY HadTypes
  <2>2. Twice(r, p) \in Int  BY TwiceInt
  <2>3. \A w \in Warehouse \ {to} : Had(p, w)' = Had(p, w)
    <3> SUFFICES ASSUME NEW w \in Warehouse \ {to} PROVE Had(p, w)' = Had(p, w)  OBVIOUS
    <3>1. Had(p, w)' = Had(p, w) + 0  BY <1>9
    <3> QED BY <2>1, <3>1
  <2>4. Had(p, to)' = Had(p, to) + (IF p = x THEN m.had[x] ELSE 0)  BY <1>9
  <2> QED BY <1>5, <1>6, <1>8, <2>1, <2>2, <2>3, <2>4
<1>12. Balanced(r, from, to)
  BY <1>1, <1>4, <1>5, <1>8, <1>10, <1>11 DEF Balanced, m, n
<1> QED BY <1>12

(* The old row becomes the row of the new warehouse. *)
LEMMA MoveRowBalanced ==
  ASSUME WarehousesAssumption, Typed, Reading, NEW r \in Request, MoveRow(r),
         merge[r].from # merge[r].to
  PROVE  \E from, to \in Warehouse : Balanced(r, from, to)
<1> DEFINE m == merge[r]
           n == merge'[r]
<1>1. PICK from \in Warehouse, to \in Warehouse : from = m.from /\ to = m.to
  <2>1. m \in Merge  BY MoveRowMerge
  <2> QED BY <2>1 DEF Merge
<1>2. PICK x \in Product : x = m.product  BY MoveRowMerge
<1>3. PICK k, old : k = <<x, to>> /\ old = <<x, from>>  OBVIOUS
<1>4. /\ m \in Merge /\ m.stage = "move" /\ m # NoMerge
      /\ n # NoMerge /\ n.stage = "find" /\ n.from = m.from /\ n.to = m.to
      /\ n.left = m.left /\ n.had = m.had
      /\ \/ /\ k \notin hasStock /\ old \in hasStock
            /\ hasStock' = (hasStock \ {old}) \cup {k}
            /\ stock' = [stock EXCEPT ![k] = stock[old]]
            /\ n.changed = m.changed \ {x}
            /\ \A q \in Request \ {r} : merge'[q] = Missed({old, k})[q]
         \/ /\ old \notin hasStock /\ UNCHANGED <<hasStock, stock>>
            /\ n.changed = m.changed
            /\ \A q \in Request \ {r} : merge'[q] = merge[q]
  BY <1>1, <1>2, <1>3, MoveRowMerge
<1>5. from # to /\ x \notin m.left
  BY <1>1, <1>2, <1>4 DEF Reading, ReadingOf
<1>6. k \in Key /\ old \in Key /\ k # old /\ stock[old] \in Int
  <2>1. k \in Key /\ old \in Key /\ k # old  BY <1>3, <1>5 DEF Key
  <2> QED BY <2>1 DEF Typed, TypeOK
<1>7. ASSUME NEW p \in Product
      PROVE  /\ Twice(r, p) = IF /\ p \notin m.left /\ p \notin m.changed /\ p # x
                                 /\ <<p, from>> \in hasStock
                                THEN m.had[p] ELSE 0
             /\ Unsure(r, p) <=> p \in m.changed /\ p \notin m.left /\ p # x
             /\ Twice(r, p)' = IF /\ p \notin m.left /\ p \notin n.changed
                                  /\ <<p, from>> \in hasStock'
                                 THEN m.had[p] ELSE 0
             /\ Unsure(r, p)' <=> p \in n.changed /\ p \notin m.left
  <2>1. /\ Twice(r, p) = IF /\ p \notin m.left /\ p \notin m.changed /\ p # x
                            /\ <<p, from>> \in hasStock
                           THEN m.had[p] ELSE 0
        /\ Unsure(r, p) <=> p \in m.changed /\ p \notin m.left /\ p # x
    BY <1>1, <1>2, <1>4, <1>5 DEF Twice, Unsure, Done, Merging, Now
  <2>2. /\ Twice(r, p)' = IF /\ p \notin m.left /\ p \notin n.changed
                             /\ <<p, from>> \in hasStock'
                            THEN m.had[p] ELSE 0
        /\ Unsure(r, p)' <=> p \in n.changed /\ p \notin m.left
    BY <1>1, <1>4, <1>5 DEF Twice, Unsure, Done, Merging, Now
  <2> QED BY <2>1, <2>2
<1>8. ASSUME NEW p \in Product
      PROVE  /\ \A w \in Warehouse : Had(p, w) \in Int
             /\ Twice(r, p) \in Int
  BY HadTypes, TwiceInt
<1> HIDE DEF m, n
<1>9. CASE old \in hasStock
  <2>1. /\ k \notin hasStock /\ n.changed = m.changed \ {x}
        /\ hasStock' = (hasStock \ {old}) \cup {k}
        /\ stock' = [stock EXCEPT ![k] = stock[old]]
        /\ \A q \in Request \ {r} : merge'[q] = Missed({old, k})[q]
    BY <1>4, <1>9
  <2>2. stock'[k] = stock[old] /\ \A y \in Key \ {k} : stock'[y] = stock[y]
    BY <1>6, <2>1 DEF Typed, TypeOK
  <2>3. ASSUME NEW p \in Product, NEW w \in Warehouse
        PROVE  Had(p, w)' = IF p = x /\ w = to THEN stock[old]
                            ELSE IF p = x /\ w = from THEN 0 ELSE Had(p, w)
    <3>1. <<p, w>> \in Key  BY DEF Key
    <3>2. CASE p = x /\ w = to
      <4>1. <<p, w>> = k /\ k \in hasStock'  BY <1>3, <2>1, <3>2
      <4> QED BY <2>2, <3>2, <4>1 DEF Had
    <3>3. CASE p = x /\ w = from
      <4>1. <<p, w>> = old /\ old \notin hasStock'  BY <1>3, <1>6, <2>1, <3>3
      <4> QED BY <1>5, <3>3, <4>1 DEF Had
    <3>4. CASE ~(p = x /\ w = to) /\ ~(p = x /\ w = from)
      <4>1. <<p, w>> # k /\ <<p, w>> # old  BY <1>3, <3>4
      <4>2. <<p, w>> \in hasStock' <=> <<p, w>> \in hasStock  BY <2>1, <4>1
      <4>3. stock'[<<p, w>>] = stock[<<p, w>>]  BY <2>2, <3>1, <4>1
      <4> QED BY <3>4, <4>2, <4>3 DEF Had
    <3> QED BY <3>2, <3>3, <3>4
  <2>4. Had(x, to) = 0 /\ Had(x, from) = stock[old]  BY <1>3, <1>9, <2>1 DEF Had
  <2>5. ASSUME NEW p \in Product
        PROVE  Twice(r, p)' = Twice(r, p) /\ (Unsure(r, p)' <=> Unsure(r, p))
    <3>1. CASE p = x
      <4>1. <<p, from>> \notin hasStock'  BY <1>3, <1>6, <2>1, <3>1
      <4>2. Twice(r, p)' = 0 /\ Twice(r, p) = 0  BY <1>7, <3>1, <4>1
      <4>3. ~Unsure(r, p) /\ ~Unsure(r, p)'  BY <1>7, <2>1, <3>1
      <4> QED BY <4>2, <4>3
    <3>2. CASE p # x
      <4>1. <<p, from>> \in hasStock' <=> <<p, from>> \in hasStock
        BY <1>3, <2>1, <3>2
      <4>2. p \in n.changed <=> p \in m.changed  BY <2>1, <3>2
      <4> QED BY <1>7, <3>2, <4>1, <4>2
    <3> QED BY <3>1, <3>2
  <2>6. ASSUME NEW p \in Product, NEW q \in Request \ {r} PROVE Twice(q, p)' \in {Twice(q, p), 0}
    <3>1. \A y \in Key \ {old, k} : y \in hasStock <=> y \in hasStock'  BY <2>1
    <3> QED BY <2>1, <3>1, TwiceMissed
  <2>7. ASSUME NEW p \in Product
        PROVE  /\ \A w \in Warehouse \ {from, to} : Had(p, w)' = Had(p, w)
               /\ Had(p, from)' + Had(p, to)' = Had(p, from) + Had(p, to)
    <3>1. CASE p = x  BY <1>5, <1>6, <1>8, <2>3, <2>4, <3>1
    <3>2. CASE p # x  BY <2>3, <3>2
    <3> QED BY <3>1, <3>2
  <2>8. Balanced(r, from, to)
    BY <1>1, <1>4, <1>5, <2>5, <2>6, <2>7 DEF Balanced, m, n
  <2> QED BY <2>8
<1>10. CASE old \notin hasStock
  <2>1. /\ n.changed = m.changed /\ UNCHANGED <<hasStock, stock>>
        /\ \A q \in Request \ {r} : merge'[q] = merge[q]
    BY <1>4, <1>10
  <2>2. ASSUME NEW p \in Product
        PROVE  /\ Twice(r, p)' = Twice(r, p) /\ (Unsure(r, p) => Unsure(r, p)')
               /\ \A q \in Request \ {r} : Twice(q, p)' = Twice(q, p)
               /\ \A w \in Warehouse : Had(p, w)' = Had(p, w)
    <3>1. p = x => <<p, from>> \notin hasStock  BY <1>3, <1>10
    <3>2. \A q \in Request \ {r} : Twice(q, p)' = Twice(q, p)  BY <2>1, TwiceKept
    <3>3. \A w \in Warehouse : Had(p, w)' = Had(p, w)  BY <2>1 DEF Had
    <3>4. Twice(r, p)' = Twice(r, p) /\ (Unsure(r, p) => Unsure(r, p)')
      BY <1>7, <2>1, <3>1
    <3> QED BY <3>2, <3>3, <3>4
  <2>3. Balanced(r, from, to)  BY <1>1, <1>4, <1>5, <2>2 DEF Balanced, m, n
  <2> QED BY <2>3
<1> QED BY <1>9, <1>10

(* What is dropped at the old warehouse is what has been added at the new. *)
LEMMA DropStocksBalanced ==
  ASSUME WarehousesAssumption, Typed, Reading, NEW r \in Request, DropStocks(r), raced' = {},
         merge[r].from # merge[r].to
  PROVE  \E from, to \in Warehouse : Balanced(r, from, to)
<1> DEFINE m == merge[r]
           n == merge'[r]
           K == {k \in hasStock : k[2] = m.from}
<1>1. PICK from \in Warehouse, to \in Warehouse : from = m.from /\ to = m.to
  <2>1. m \in Merge  BY DropStocksMerge
  <2> QED BY <2>1 DEF Merge
<1>2. /\ m \in Merge /\ m.stage = "find" /\ m # NoMerge /\ m.left = {}
      /\ n # NoMerge /\ n.stage = "row" /\ n.from = m.from /\ n.to = m.to
      /\ hasStock' = hasStock \ K /\ raced' = raced \cup (m.changed \X {m.to}) /\ stock' = stock
      /\ \A q \in Request \ {r} : merge'[q] = Missed(K)[q]
  BY DropStocksMerge
<1>3. m.changed = {}
  <2>1. \A p \in m.changed : <<p, m.to>> \in raced'  BY <1>2
  <2> QED BY <2>1
<1>4. from # to  BY <1>1
<1>5. ASSUME NEW p \in Product, <<p, from>> \in hasStock PROVE m.had[p] = stock[<<p, from>>]
  BY <1>1, <1>2, <1>3, <1>5 DEF Reading, ReadingOf, Merging
<1>6. ASSUME NEW p \in Product
      PROVE  /\ Twice(r, p) = IF <<p, from>> \in hasStock THEN m.had[p] ELSE 0
             /\ ~Unsure(r, p) /\ Twice(r, p)' = 0
  <2>1. Twice(r, p) = IF <<p, from>> \in hasStock THEN m.had[p] ELSE 0
    BY <1>1, <1>2, <1>3, <1>4 DEF Twice, Done, Merging, Now
  <2>2. ~Unsure(r, p)  BY <1>3 DEF Unsure, Done
  <2>3. Twice(r, p)' = 0  BY <1>2 DEF Twice, Done, Merging
  <2> QED BY <2>1, <2>2, <2>3
<1>7. ASSUME NEW p \in Product, NEW w \in Warehouse
      PROVE  Had(p, w)' = IF w = from THEN 0 ELSE Had(p, w)
  <2>1. <<p, w>> \in K <=> w = from /\ <<p, w>> \in hasStock  BY <1>1
  <2> HIDE DEF K
  <2> QED BY <1>2, <2>1 DEF Had
<1>8. ASSUME NEW p \in Product, NEW q \in Request \ {r} PROVE Twice(q, p)' \in {Twice(q, p), 0}
  <2>1. \A y \in Key \ K : y \in hasStock <=> y \in hasStock'  BY <1>2
  <2>2. merge'[q] = Missed(K)[q]  BY <1>2
  <2> HIDE DEF K
  <2>3. Twice(q, p)' = Twice(q, p) \/ Twice(q, p)' = 0  BY <2>1, <2>2, TwiceMissed
  <2> QED BY <2>3
<1> HIDE DEF m, n, K
<1>9. ASSUME NEW p \in Product
      PROVE  /\ \A w \in Warehouse \ {from, to} : Had(p, w)' = Had(p, w)
             /\ Had(p, from)' + Had(p, to)' + Twice(r, p) = Had(p, from) + Had(p, to) + Twice(r, p)'
  <2>1. \A w \in Warehouse : Had(p, w) \in Int  BY HadTypes
  <2>2. Twice(r, p) = Had(p, from)
    <3>1. CASE <<p, from>> \in hasStock  BY <1>5, <1>6, <3>1 DEF Had
    <3>2. CASE <<p, from>> \notin hasStock  BY <1>6, <3>2 DEF Had
    <3> QED BY <3>1, <3>2
  <2>3. Had(p, from)' = 0 /\ \A w \in Warehouse \ {from} : Had(p, w)' = Had(p, w)  BY <1>7
  <2>4. Twice(r, p)' = 0  BY <1>6
  <2> QED BY <1>4, <2>1, <2>2, <2>3, <2>4
<1>10. Balanced(r, from, to)  BY <1>1, <1>2, <1>4, <1>6, <1>8, <1>9 DEF Balanced, m, n
<1> QED BY <1>10

(* A warehouse merged into itself: nothing leaves the other warehouses, and  *)
(* nothing its own.                                                          *)
Alike(r, w) ==
  /\ merge[r] # NoMerge /\ merge[r].from = w /\ merge[r].to = w /\ merge[r].stage # "row"
  /\ merge'[r] # NoMerge /\ merge'[r].from = w /\ merge'[r].to = w /\ merge'[r].stage # "row"
  /\ \A p \in Product :
       /\ \A u \in Warehouse \ {w} : Had(p, u)' = Had(p, u)
       /\ Positive /\ oversold = {} => Had(p, w)' >= Had(p, w)
       /\ \A q \in Request : Twice(q, p)' \in {Twice(q, p), 0}

LEMMA MergedAlike ==
  ASSUME WarehousesAssumption, Typed, Reading, NEW r \in Request, raced' = {},
         \/ ListStocks(r) \/ \E p \in Product : FindOther(r, p)
         \/ SaveOther(r) \/ MoveRow(r),
         merge[r].from = merge[r].to
  PROVE  \E w \in Warehouse : Alike(r, w)
<1> DEFINE m == merge[r]
           n == merge'[r]
<1>1. /\ m \in Merge /\ m # NoMerge /\ m.stage # "row" /\ m.to = m.from
      /\ n # NoMerge /\ n.from = m.from /\ n.to = m.from /\ n.stage # "row"
  BY ListStocksMerge, FindOtherMerge, SaveOtherMerge, MoveRowMerge
<1>2. PICK w \in Warehouse : w = m.from  BY <1>1 DEF Merge
<1>3. \A p : Twice(r, p) = 0 /\ Twice(r, p)' = 0  BY <1>1 DEF Twice, Done
<1> HIDE DEF m, n
<1>4. CASE UNCHANGED <<hasStock, stock>> /\ \A q \in Request \ {r} : merge'[q] = merge[q]
  <2>1. ASSUME NEW p \in Product, NEW u \in Warehouse PROVE Had(p, u)' = Had(p, u)
    BY <1>4 DEF Had
  <2>2. ASSUME NEW p \in Product, NEW q \in Request PROVE Twice(q, p)' \in {Twice(q, p), 0}
    BY <1>3, <1>4, TwiceKept
  <2>3. \A p \in Product, u \in Warehouse : Had(p, u) \in Int  BY HadTypes
  <2>4. \A p \in Product : Had(p, w)' >= Had(p, w)  BY <2>1, <2>3
  <2>5. Alike(r, w)  BY <1>1, <1>2, <2>1, <2>2, <2>4 DEF Alike, m, n
  <2> QED BY <2>5
<1>5. CASE SaveOther(r)
  <2>1. PICK x \in Product : x = m.product  BY <1>5, SaveOtherMerge DEF m
  <2>2. PICK k : k = <<x, w>>  OBVIOUS
  <2>3. /\ k \in Key /\ m.stage = "save" /\ ~m.stale /\ m.to = w
        /\ \A q \in Request \ {r} : merge'[q] = Missed({k})[q]
        /\ hasStock' = hasStock \cup {k} /\ stock' = [stock EXCEPT ![k] = m.other + m.had[x]]
    BY <1>2, <1>5, <2>1, <2>2, SaveOtherMerge DEF m
  <2>4. k \in hasStock /\ m.other = stock[k]
    BY <1>1, <2>1, <2>2, <2>3 DEF Reading, ReadingOf, m
  <2>5. /\ hasStock' = hasStock /\ stock'[k] = stock[k] + m.had[x]
        /\ \A y \in Key \ {k} : stock'[y] = stock[y]
        /\ stock[k] \in Int /\ m.had[x] \in Int
    BY <1>1, <2>3, <2>4 DEF Typed, TypeOK, Merge
  <2>6. ASSUME NEW p \in Product, NEW u \in Warehouse, ~(p = x /\ u = w) PROVE Had(p, u)' = Had(p, u)
    <3>1. <<p, u>> \in Key /\ <<p, u>> # k  BY <2>2, <2>6 DEF Key
    <3> QED BY <2>5, <3>1 DEF Had
  <2>7. ASSUME NEW p \in Product, Positive, oversold = {} PROVE Had(p, w)' >= Had(p, w)
    <3>1. CASE p = x
      <4>1. m.had[x] >= 0  BY <1>1, <2>7 DEF Positive, m
      <4>2. Had(p, w) = stock[k] /\ Had(p, w)' = stock'[k]  BY <2>2, <2>4, <2>5, <3>1 DEF Had
      <4> QED BY <2>5, <4>1, <4>2
    <3>2. CASE p # x
      <4>1. Had(p, w)' = Had(p, w) /\ Had(p, w) \in Int  BY <2>6, <3>2, HadTypes
      <4> QED BY <4>1
    <3> QED BY <3>1, <3>2
  <2>8. ASSUME NEW p \in Product, NEW q \in Request PROVE Twice(q, p)' \in {Twice(q, p), 0}
    <3>1. CASE q = r  BY <1>3, <3>1
    <3>2. CASE q # r
      <4>1. merge'[q] = Missed({k})[q] /\ \A y \in Key \ {k} : y \in hasStock <=> y \in hasStock'
        BY <2>3, <2>5, <3>2
      <4> QED BY <4>1, TwiceMissed
    <3> QED BY <3>1, <3>2
  <2>9. Alike(r, w)  BY <1>1, <1>2, <2>3, <2>6, <2>7, <2>8 DEF Alike, m, n
  <2> QED BY <2>9
<1>6. CASE ListStocks(r)
  <2>1. UNCHANGED <<hasStock, stock>> /\ \A q \in Request \ {r} : merge'[q] = merge[q]
    BY <1>6, ListStocksMerge DEF vars, stockVars
  <2> QED BY <1>4, <2>1
<1>7. ASSUME NEW p \in Product, FindOther(r, p) PROVE \E u \in Warehouse : Alike(r, u)
  <2>1. UNCHANGED <<hasStock, stock>> /\ \A q \in Request \ {r} : merge'[q] = merge[q]
    BY <1>7, FindOtherMerge DEF vars, stockVars
  <2> QED BY <1>4, <2>1
<1>8. CASE MoveRow(r)
  <2>1. UNCHANGED <<hasStock, stock>> /\ \A q \in Request \ {r} : merge'[q] = merge[q]
    BY <1>8, MoveRowMerge
  <2> QED BY <1>4, <2>1
<1> QED BY <1>5, <1>6, <1>7, <1>8

(* What a deletion adds at its two warehouses and holds twice they have too  *)
(* much.                                                                     *)
DuesMove(from, to) ==
  \A p \in Product :
    /\ \A w \in Warehouse \ {from, to} : due'[<<p, w>>] = due[<<p, w>>]
    /\ due'[<<p, from>>] + due'[<<p, to>>] = due[<<p, from>>] + due[<<p, to>>]

LEMMA DuesStay ==
  ASSUME ShipmentsAssumption, WarehousesAssumption, Typed, UNCHANGED due,
         NEW from \in Warehouse, NEW to \in Warehouse
  PROVE  DuesMove(from, to)
BY DEF DuesMove

LEMMA BalancedEven ==
  ASSUME ShipmentsAssumption, WarehousesAssumption, Typed, Typed', Steady,
         NEW r \in Request, NEW from \in Warehouse, NEW to \in Warehouse,
         Balanced(r, from, to), DuesMove(from, to), NEW p \in Product
  PROVE  \E d \in Int : Even(p, from, to, d) /\ Twice(r, p)' = Twice(r, p) + d
<1>1. /\ \A w \in Warehouse \ {from, to} : Had(p, w)' = Had(p, w)
      /\ Had(p, from)' + Had(p, to)' + Twice(r, p) = Had(p, from) + Had(p, to) + Twice(r, p)'
  BY DEF Balanced
<1>2. \A w : OutOf(p, {w})' = OutOf(p, {w})  BY SteadySums
<1>3. /\ \A w \in Warehouse \ {from, to} : due'[<<p, w>>] = due[<<p, w>>]
      /\ due'[<<p, from>>] + due'[<<p, to>>] = due[<<p, from>>] + due[<<p, to>>]
  BY DEF DuesMove
<1>4. \A w \in Warehouse : /\ Had(p, w) \in Int /\ OutOf(p, {w}) \in Int
                           /\ due[<<p, w>>] \in Int
  BY ExcessTypes
<1>5. \A w \in Warehouse : Had(p, w)' \in Int /\ due'[<<p, w>>] \in Int  BY ExcessThen
<1>6. Twice(r, p) \in Int /\ Twice(r, p)' \in Int  BY TwiceInt, TwiceIntThen
<1>7. \A w \in Warehouse \ {from, to} : Excess(p, w)' = Excess(p, w)
  BY <1>1, <1>2, <1>3 DEF Excess
<1>8. PICK d \in Int : Twice(r, p)' = Twice(r, p) + d
  <2>1. Twice(r, p)' = Twice(r, p) + (Twice(r, p)' - Twice(r, p))  BY <1>6
  <2> QED BY <1>6, <2>1
<1>9. Excess(p, from)' + Excess(p, to)' = Excess(p, from) + Excess(p, to) + d
  <2>1. /\ Excess(p, from) = Had(p, from) + OutOf(p, {from}) - due[<<p, from>>]
        /\ Excess(p, to) = Had(p, to) + OutOf(p, {to}) - due[<<p, to>>]
        /\ Excess(p, from)' = Had(p, from)' + OutOf(p, {from}) - due'[<<p, from>>]
        /\ Excess(p, to)' = Had(p, to)' + OutOf(p, {to}) - due'[<<p, to>>]
    BY <1>2 DEF Excess
  <2>2. /\ Had(p, from) \in Int /\ Had(p, to) \in Int
        /\ OutOf(p, {from}) \in Int /\ OutOf(p, {to}) \in Int
        /\ due[<<p, from>>] \in Int /\ due[<<p, to>>] \in Int
    BY <1>4
  <2>3. /\ Had(p, from)' \in Int /\ Had(p, to)' \in Int
        /\ due'[<<p, from>>] \in Int /\ due'[<<p, to>>] \in Int
    BY <1>5
  <2> QED BY <1>1, <1>3, <1>6, <1>8, <2>1, <2>2, <2>3
<1>10. Even(p, from, to, d)  BY <1>7, <1>9 DEF Even
<1> QED BY <1>8, <1>10

(* With the rows of the old warehouse goes what it should have.              *)
LEMMA DropStocksDues ==
  ASSUME ShipmentsAssumption, WarehousesAssumption, Typed, Steady, NEW r \in Request, DropStocks(r),
         NEW from \in Warehouse, NEW to \in Warehouse, merge[r].from = from, merge[r].to = to
  PROVE  /\ from # to => DuesMove(from, to)
         /\ \A p \in Product : Excess(p, from)' = 0
         /\ \A p \in Product : \A w \in Warehouse \ {from, to} : Excess(p, w)' = Excess(p, w)
<1>1. /\ hasStock' = hasStock \ {k \in hasStock : k[2] = from} /\ stock' = stock
      /\ due' = Inherited(merge[r])
  BY DropStocksMerge
<1>2. ASSUME NEW p \in Product, NEW w \in Warehouse
      PROVE  due'[<<p, w>>] =
               IF w = from THEN OutOf(p, {from})
               ELSE IF w = to THEN due[<<p, w>>] + due[<<p, from>>] - OutOf(p, {from})
               ELSE due[<<p, w>>]
  <2>1. <<p, w>> \in Key /\ <<p, w>>[1] = p /\ <<p, w>>[2] = w  BY DEF Key
  <2> QED BY <1>1, <2>1 DEF Inherited
<1>3. ASSUME NEW p \in Product
      PROVE  \A w \in Warehouse : /\ due[<<p, w>>] \in Int /\ Had(p, w) \in Int
                                  /\ OutOf(p, {w}) \in Int
  BY ExcessTypes
<1>4. from # to => DuesMove(from, to)
  <2> SUFFICES ASSUME from # to, NEW p \in Product
               PROVE  /\ \A w \in Warehouse \ {from, to} : due'[<<p, w>>] = due[<<p, w>>]
                      /\ due'[<<p, from>>] + due'[<<p, to>>] = due[<<p, from>>] + due[<<p, to>>]
    BY DEF DuesMove
  <2>1. due'[<<p, from>>] = OutOf(p, {from})  BY <1>2
  <2>2. due'[<<p, to>>] = due[<<p, to>>] + due[<<p, from>>] - OutOf(p, {from})  BY <1>2
  <2>3. due[<<p, from>>] \in Int /\ due[<<p, to>>] \in Int /\ OutOf(p, {from}) \in Int  BY <1>3
  <2>4. due'[<<p, from>>] + due'[<<p, to>>] = due[<<p, from>>] + due[<<p, to>>]
    BY <2>1, <2>2, <2>3
  <2> QED BY <1>2, <2>4
<1>5. ASSUME NEW p \in Product PROVE Excess(p, from)' = 0
  <2>1. Had(p, from)' = 0  BY <1>1 DEF Had
  <2>2. OutOf(p, {from})' = OutOf(p, {from}) /\ OutOf(p, {from}) \in Int  BY <1>3, SteadySums
  <2>3. due'[<<p, from>>] = OutOf(p, {from})  BY <1>2
  <2> QED BY <2>1, <2>2, <2>3 DEF Excess
<1>6. ASSUME NEW p \in Product, NEW w \in Warehouse \ {from, to} PROVE Excess(p, w)' = Excess(p, w)
  <2>1. Had(p, w)' = Had(p, w)  BY <1>1 DEF Had
  <2>2. OutOf(p, {w})' = OutOf(p, {w})  BY SteadySums
  <2>3. due'[<<p, w>>] = due[<<p, w>>]  BY <1>2
  <2> QED BY <2>1, <2>2, <2>3 DEF Excess
<1> QED BY <1>4, <1>5, <1>6

------------------------------------------------------------------------------
(* Each warehouse has what it should have, the two of a running deletion     *)
(* together, and what that holds twice besides.  A warehouse that is merged  *)
(* into itself has more, until its rows are dropped.                         *)

(* A running deletion has not yet dropped the rows of the old warehouse. *)
Half(r) == merge[r] # NoMerge /\ merge[r].stage # "row"
Busy(w) == \E r \in Request : Half(r) /\ w \in {merge[r].from, merge[r].to}

AllHome ==
  ~repeated =>
    /\ \A p \in Product, w \in Warehouse : ~Busy(w) => Excess(p, w) = 0
    /\ \A p \in Product, r \in Request, from, to \in Warehouse :
         Half(r) /\ merge[r].from = from /\ merge[r].to = to /\ from # to /\ ~Unsure(r, p) =>
           Excess(p, from) + Excess(p, to) = Twice(r, p)

(* The other deletions of a deletion's step. *)
LEMMA AloneThen ==
  ASSUME Typed, OneMerge, NEW r \in Request, ~repeated',
         \/ ListStocks(r) \/ \E p \in Product : FindOther(r, p)
         \/ SaveOther(r) \/ MoveRow(r) \/ DropStocks(r) \/ DeleteRow(r) \/ Ends(r)
  PROVE  /\ ~repeated /\ merge[r] # NoMerge
         /\ \A q \in Request \ {r} : merge[q] = NoMerge /\ merge'[q] = NoMerge
<1>1. /\ merge[r] # NoMerge /\ (repeated' = repeated \/ repeated' = TRUE)
      /\ \/ \A q \in Request \ {r} : merge'[q] = merge[q]
         \/ \E K : \A q \in Request \ {r} : merge'[q] = Missed(K)[q]
  BY StepsOfDeletion
<1>2. ~repeated  BY <1>1
<1>3. ASSUME NEW q \in Request \ {r} PROVE merge[q] = NoMerge /\ merge'[q] = NoMerge
  <2>1. merge[q] = NoMerge  BY <1>1, <1>2 DEF OneMerge
  <2>2. ASSUME NEW K, merge'[q] = Missed(K)[q] PROVE merge'[q] = NoMerge  BY <2>1, <2>2, MissedStays
  <2> QED BY <1>1, <2>1, <2>2
<1> QED BY <1>1, <1>2, <1>3

(* Every warehouse is as far off as it was, and every deletion where it was. *)
LEMMA LevelHome ==
  ASSUME AllHome, Level, repeated' = repeated,
         \A q \in Request :
           /\ Half(q)' <=> Half(q)
           /\ Half(q) => merge'[q].from = merge[q].from /\ merge'[q].to = merge[q].to
           /\ \A p \in Product : ~Unsure(q, p)' => ~Unsure(q, p) /\ Twice(q, p)' = Twice(q, p)
  PROVE  AllHome'
<1> SUFFICES ASSUME ~repeated' PROVE AllHome'  BY DEF AllHome
<1>1. ASSUME NEW w PROVE Busy(w)' <=> Busy(w)  BY DEF Busy
<1>2. ASSUME NEW p \in Product, NEW w \in Warehouse, ~Busy(w)' PROVE Excess(p, w)' = 0
  <2>1. ~Busy(w)  BY <1>1, <1>2
  <2>2. Excess(p, w)' = Excess(p, w)  BY DEF Level
  <2> QED BY <2>1, <2>2 DEF AllHome
<1>3. ASSUME NEW p \in Product, NEW q \in Request, NEW f \in Warehouse, NEW t \in Warehouse,
             Half(q)', merge'[q].from = f, merge'[q].to = t, f # t, ~Unsure(q, p)'
      PROVE  Excess(p, f)' + Excess(p, t)' = Twice(q, p)'
  <2>1. /\ Half(q) /\ merge[q].from = f /\ merge[q].to = t
        /\ ~Unsure(q, p) /\ Twice(q, p)' = Twice(q, p)
    BY <1>3
  <2>2. Excess(p, f) + Excess(p, t) = Twice(q, p)  BY <1>3, <2>1 DEF AllHome
  <2>3. Excess(p, f)' = Excess(p, f) /\ Excess(p, t)' = Excess(p, t)  BY DEF Level
  <2> QED BY <2>1, <2>2, <2>3
<1> QED BY <1>2, <1>3 DEF AllHome

(* Nothing changes about the stock rows and the deletions. *)
LEMMA KeepsHome ==
  ASSUME AllHome, Level, Keeps
  PROVE  AllHome'
<1>1. UNCHANGED <<merge, hasStock, repeated>>  BY DEF Keeps
<1>2. ASSUME NEW q \in Request
      PROVE  /\ Half(q)' <=> Half(q)
             /\ Half(q) => merge'[q].from = merge[q].from /\ merge'[q].to = merge[q].to
             /\ \A p \in Product : ~Unsure(q, p)' => ~Unsure(q, p) /\ Twice(q, p)' = Twice(q, p)
  <2>1. merge'[q] = merge[q]  BY <1>1
  <2>2. \A p \in Product : Twice(q, p)' = Twice(q, p) /\ (Unsure(q, p)' <=> Unsure(q, p))
    BY <1>1, <2>1, TwiceKept
  <2> QED BY <2>1, <2>2 DEF Half
<1> QED BY <1>1, <1>2, LevelHome

(* Goods that leave the stock stay with the shipments of their warehouse.    *)
LEMMA SaveBesideHome ==
  ASSUME ShipmentsAssumption, WarehousesAssumption, Typed, Typed', AllHome,
         Jobs, MovingItems, FreshReads, raced' = {},
         NEW r \in Request, NEW s \in Shipment, NEW l \in Line, SaveBeside(r, s, l)
  PROVE  AllHome'
<1>1. PICK d : GoodsMove(s, l, d)  BY SaveBesideMoves
<1>2. Level  BY <1>1, LevelMoves
<1>3. PICK k : Writes(r, s, l, k)  BY SaveBesideFacts
<1>4. merge' = Missed({k}) /\ repeated' = repeated  BY <1>3 DEF Writes
<1>5. hasStock' = hasStock  BY <1>1 DEF GoodsMove
<1>6. ASSUME NEW q \in Request
      PROVE  /\ Half(q)' <=> Half(q)
             /\ Half(q) => merge'[q].from = merge[q].from /\ merge'[q].to = merge[q].to
             /\ \A p \in Product : ~Unsure(q, p)' => ~Unsure(q, p) /\ Twice(q, p)' = Twice(q, p)
  <2>1. merge'[q] = Missed({k})[q]  BY <1>4
  <2>2. /\ merge'[q] = NoMerge <=> merge[q] = NoMerge
        /\ merge'[q] # NoMerge => merge'[q].stage = merge[q].stage
    BY <2>1, MissedStays
  <2>3. merge[q] # NoMerge => merge'[q].from = merge[q].from /\ merge'[q].to = merge[q].to
    BY <2>1, MissedFields DEF Typed
  <2>4. \A p \in Product : ~Unsure(q, p)' => ~Unsure(q, p) /\ Twice(q, p)' = Twice(q, p)
    BY <1>5, <2>1, TwiceMissed
  <2> QED BY <2>2, <2>3, <2>4 DEF Half
<1> QED BY <1>2, <1>4, <1>6, LevelHome

(* Deletion r runs alone between two warehouses, and is still half-way. *)
Between(r, from, to) ==
  /\ ~repeated /\ from # to
  /\ \A q \in Request \ {r} : merge[q] = NoMerge /\ merge'[q] = NoMerge
  /\ Half(r)' /\ merge'[r].from = from /\ merge'[r].to = to
  /\ \A w \in Warehouse \ {from, to} : ~Busy(w)

LEMMA BetweenHome ==
  ASSUME AllHome, NEW r \in Request, NEW from \in Warehouse, NEW to \in Warehouse,
         Between(r, from, to),
         \A p \in Product :
           /\ \A w \in Warehouse \ {from, to} : Excess(p, w)' = Excess(p, w)
           /\ ~Unsure(r, p)' => Excess(p, from)' + Excess(p, to)' = Twice(r, p)'
  PROVE  AllHome'
<1>1. /\ ~repeated /\ from # to /\ \A q \in Request \ {r} : merge'[q] = NoMerge
      /\ Half(r)' /\ merge'[r].from = from /\ merge'[r].to = to
      /\ \A w \in Warehouse \ {from, to} : ~Busy(w)
  BY DEF Between
<1>2. ASSUME NEW p \in Product, NEW w \in Warehouse, ~Busy(w)' PROVE Excess(p, w)' = 0
  <2>1. w \notin {from, to}  BY <1>1, <1>2 DEF Busy
  <2>2. Excess(p, w) = 0  BY <1>1, <2>1 DEF AllHome
  <2> QED BY <2>1, <2>2
<1>3. ASSUME NEW p \in Product, NEW q \in Request, NEW f \in Warehouse, NEW t \in Warehouse,
             Half(q)', merge'[q].from = f, merge'[q].to = t, f # t, ~Unsure(q, p)'
      PROVE  Excess(p, f)' + Excess(p, t)' = Twice(q, p)'
  <2>1. q = r  BY <1>1, <1>3 DEF Half
  <2>2. f = from /\ t = to  BY <1>1, <1>3, <2>1
  <2>3. ~Unsure(r, p)'  BY <1>3, <2>1
  <2>4. Excess(p, from)' + Excess(p, to)' = Twice(r, p)'  BY <2>3
  <2> QED BY <2>1, <2>2, <2>4
<1> QED BY <1>2, <1>3 DEF AllHome

(* A balanced step of a deletion that runs alone keeps the books even.       *)
LEMMA BalancedHome ==
  ASSUME ShipmentsAssumption, WarehousesAssumption, Typed, Typed', AllHome, Steady,
         NEW r \in Request, NEW from \in Warehouse, NEW to \in Warehouse,
         Balanced(r, from, to), DuesMove(from, to), Half(r), ~repeated,
         \A q \in Request \ {r} : merge[q] = NoMerge /\ merge'[q] = NoMerge
  PROVE  /\ Half(r)' => AllHome'
         /\ \A p \in Product : ~Unsure(r, p)' => Excess(p, from)' + Excess(p, to)' = Twice(r, p)'
<1>1. /\ merge[r] # NoMerge /\ merge'[r] # NoMerge /\ from # to
      /\ merge[r].from = from /\ merge[r].to = to /\ merge'[r].from = from /\ merge'[r].to = to
      /\ \A p \in Product : Unsure(r, p) => Unsure(r, p)'
  BY DEF Balanced
<1>2. ASSUME NEW p \in Product
      PROVE  /\ \A w \in Warehouse \ {from, to} : Excess(p, w)' = Excess(p, w)
             /\ ~Unsure(r, p)' => Excess(p, from)' + Excess(p, to)' = Twice(r, p)'
  <2>1. PICK d \in Int : Even(p, from, to, d) /\ Twice(r, p)' = Twice(r, p) + d
    BY BalancedEven
  <2>2. ~Unsure(r, p)' => Excess(p, from) + Excess(p, to) = Twice(r, p)
    BY <1>1 DEF AllHome
  <2> QED BY <2>1, <2>2 DEF Even
<1>3. \A w \in Warehouse \ {from, to} : ~Busy(w)  BY <1>1 DEF Busy, Half
<1>4. Half(r)' => Between(r, from, to)  BY <1>1, <1>3 DEF Between
<1> QED BY <1>2, <1>4, BetweenHome

(* A warehouse that is merged into itself. *)
LEMMA AlikeHome ==
  ASSUME ShipmentsAssumption, WarehousesAssumption, Typed, Typed', AllHome, Steady, due' = due,
         NEW r \in Request, NEW w \in Warehouse, Alike(r, w), ~repeated,
         \A q \in Request \ {r} : merge[q] = NoMerge /\ merge'[q] = NoMerge
  PROVE  AllHome'
<1>1. /\ merge[r].from = w /\ merge'[r] # NoMerge /\ merge'[r].from = w /\ merge'[r].to = w
      /\ merge'[r].stage # "row"
      /\ \A p \in Product : \A u \in Warehouse \ {w} : Had(p, u)' = Had(p, u)
  BY DEF Alike
<1>2. merge[r].to = w  BY DEF Alike
<1>3. \A u \in Warehouse \ {w} : ~Busy(u)  BY <1>1, <1>2 DEF Busy, Half
<1>4. ASSUME NEW p \in Product, NEW u \in Warehouse, ~Busy(u)' PROVE Excess(p, u)' = 0
  <2>1. u # w  BY <1>1, <1>4 DEF Busy, Half
  <2>2. Had(p, u)' = Had(p, u) /\ OutOf(p, {u})' = OutOf(p, {u})  BY <1>1, <2>1, SteadySums
  <2>3. Excess(p, u)' = Excess(p, u)  BY <2>2 DEF Excess
  <2>4. Excess(p, u) = 0  BY <1>3, <2>1 DEF AllHome
  <2> QED BY <2>3, <2>4
<1>5. \A q \in Request : Half(q)' => merge'[q].from = merge'[q].to  BY <1>1 DEF Half
<1> QED BY <1>4, <1>5 DEF AllHome

(* Shipments that move take their goods with them.                           *)
LEMMA DeleteWarehouseHome ==
  ASSUME ShipmentsAssumption, WarehousesAssumption, Typed, Typed', Jobs, AllHome, collided' = {},
         NEW r \in Request, NEW from \in Warehouse, NEW to \in Warehouse, DeleteWarehouse(r, from, to)
  PROVE  AllHome'
<1> DEFINE n == merge'[r]
<1>1. /\ n # NoMerge /\ n.stage = "list" /\ n.from = from /\ n.to = to
      /\ \A q \in Request \ {r} : merge'[q] = merge[q]
      /\ repeated' = (repeated \/ Deletions # {})
  BY DeleteWarehouseMerge
<1> HIDE DEF n
<1> SUFFICES ASSUME ~repeated' PROVE AllHome'  BY DEF AllHome
<1>2. ~repeated /\ \A q \in Request : merge[q] = NoMerge  BY <1>1 DEF Deletions
<1>3. \A w : ~Busy(w)  BY <1>2 DEF Busy, Half
<1>4. \A p \in Product, w \in Warehouse : Excess(p, w) = 0  BY <1>2, <1>3 DEF AllHome
<1>5. \A q \in Request : merge'[q] # NoMerge => q = r  BY <1>1, <1>2
<1>6. CASE from = to
  <2>1. Level  BY <1>6, DeleteWarehouseExcess
  <2>2. \A p \in Product, w \in Warehouse : Excess(p, w)' = 0  BY <1>4, <2>1 DEF Level
  <2>3. \A q \in Request : Half(q)' => merge'[q].from = merge'[q].to
    BY <1>1, <1>5, <1>6 DEF Half, n
  <2> QED BY <2>2, <2>3 DEF AllHome
<1>7. CASE from # to
  <2>1. ASSUME NEW p \in Product
        PROVE  /\ \A w \in Warehouse \ {from, to} : Excess(p, w)' = Excess(p, w)
               /\ Excess(p, from)' + Excess(p, to)' = Twice(r, p)'
    <3>1. Even(p, from, to, 0)  BY <1>7, DeleteWarehouseExcess
    <3>2. Twice(r, p)' = 0  BY <1>1 DEF Twice, Done, Merging, n
    <3> QED BY <1>4, <3>1, <3>2 DEF Even
  <2>2. Between(r, from, to)  BY <1>1, <1>2, <1>3, <1>7 DEF Between, Half, n
  <2> QED BY <2>1, <2>2, BetweenHome
<1> QED BY <1>6, <1>7

(* The rows go, and each warehouse has what it should have again.            *)
LEMMA DropStocksHome ==
  ASSUME ShipmentsAssumption, WarehousesAssumption, Typed, Typed', Reading, OneMerge, AllHome, Steady,
         raced' = {}, NEW r \in Request, DropStocks(r)
  PROVE  AllHome'
<1> DEFINE m == merge[r]
<1> SUFFICES ASSUME ~repeated' PROVE AllHome'  BY DEF AllHome
<1>1. ~repeated /\ \A q \in Request \ {r} : merge[q] = NoMerge /\ merge'[q] = NoMerge  BY AloneThen
<1>2. /\ m # NoMerge /\ m \in Merge /\ m.stage = "find" /\ merge'[r].stage = "row"
  BY DropStocksMerge
<1>3. PICK from \in Warehouse, to \in Warehouse : m.from = from /\ m.to = to  BY <1>2 DEF Merge
<1>4. /\ from # to => DuesMove(from, to)
      /\ \A p \in Product : Excess(p, from)' = 0
      /\ \A p \in Product : \A w \in Warehouse \ {from, to} : Excess(p, w)' = Excess(p, w)
  BY <1>3, DropStocksDues
<1>5. \A w \in Warehouse \ {from, to} : ~Busy(w)  BY <1>1, <1>3 DEF Busy, Half
<1>6. ASSUME NEW p \in Product PROVE Excess(p, to)' = 0
  <2>1. CASE from = to  BY <1>4, <2>1
  <2>2. CASE from # to
    <3>1. PICK f \in Warehouse, t \in Warehouse : Balanced(r, f, t)
      BY <1>3, <2>2, DropStocksBalanced
    <3>2. f = from /\ t = to  BY <1>3, <3>1 DEF Balanced
    <3>3. Half(r)  BY <1>2 DEF Half
    <3>4. ~Unsure(r, p)' => Excess(p, from)' + Excess(p, to)' = Twice(r, p)'
      BY <1>1, <1>4, <2>2, <3>1, <3>2, <3>3, BalancedHome
    <3>5. ~Unsure(r, p)' /\ Twice(r, p)' = 0  BY <1>2 DEF Unsure, Twice, Done, Merging
    <3>6. Excess(p, to)' \in Int  BY ExcessThen
    <3> QED BY <1>4, <3>4, <3>5, <3>6
  <2> QED BY <2>1, <2>2
<1>7. ASSUME NEW p \in Product, NEW w \in Warehouse PROVE Excess(p, w)' = 0
  <2>1. CASE w \in {from, to}  BY <1>4, <1>6, <2>1
  <2>2. CASE w \notin {from, to}
    <3>1. Excess(p, w) = 0  BY <1>1, <1>5, <2>2 DEF AllHome
    <3> QED BY <1>4, <2>2, <3>1
  <2> QED BY <2>1, <2>2
<1>8. \A q \in Request : ~Half(q)'  BY <1>1, <1>2 DEF Half
<1> QED BY <1>7, <1>8 DEF AllHome

(* The old warehouse goes with nothing in it.                                *)
LEMMA DeleteRowHome ==
  ASSUME ShipmentsAssumption, WarehousesAssumption, Typed, Typed', OneMerge, Emptied, AllHome, Steady,
         due' = due, NEW r \in Request, DeleteRow(r)
  PROVE  AllHome'
<1> DEFINE K == {k \in hasStock : k[2] = merge[r].from}
<1> SUFFICES ASSUME ~repeated' PROVE AllHome'  BY DEF AllHome
<1>1. ~repeated /\ \A q \in Request \ {r} : merge[q] = NoMerge /\ merge'[q] = NoMerge  BY AloneThen
<1>2. /\ merge[r] # NoMerge /\ merge[r].stage = "row" /\ merge'[r] = NoMerge
      /\ hasStock' = hasStock \ K /\ stock' = stock
  BY DeleteRowMerge
<1>3. \A p \in Product : <<p, merge[r].from>> \notin hasStock  BY <1>1, <1>2 DEF Emptied
<1>4. hasStock \subseteq Key  BY DEF Typed, TypeOK
<1>5. K = {}
  <2> SUFFICES ASSUME NEW k \in K PROVE FALSE  OBVIOUS
  <2>1. k \in Key /\ k[2] = merge[r].from /\ k \in hasStock  BY <1>4
  <2>2. k = <<k[1], merge[r].from>> /\ k[1] \in Product  BY <2>1 DEF Key
  <2> QED BY <1>3, <2>1, <2>2
<1>6. UNCHANGED <<hasStock, stock, due>>  BY <1>2, <1>5
<1>7. Level  BY <1>6, LevelSteady
<1>8. \A w : ~Busy(w)  BY <1>1, <1>2 DEF Busy, Half
<1>9. \A p \in Product, w \in Warehouse : Excess(p, w)' = 0  BY <1>1, <1>7, <1>8 DEF AllHome, Level
<1>10. \A q \in Request : ~Half(q)'  BY <1>1, <1>2 DEF Half
<1> QED BY <1>9, <1>10 DEF AllHome

(* Each warehouse has what it should while nothing races, collides or stays. *)
LEMMA AllHomeStep ==
  ASSUME ShipmentsAssumption, WarehousesAssumption,
         Typed, Reading, OneMerge, Jobs, MovingItems, FreshReads, Emptied, AllHome,
         Clean', [WarehousesNext]_warehousesVars
  PROVE  AllHome'
<1> USE ShipmentsAssumption, WarehousesAssumption
<1>1. Typed'  BY TypedStep
<1>2. raced' = {} /\ collided' = {}  BY DEF Clean
<1>3. ASSUME NEW r \in Request, NEW s \in Shipment, NEW l \in Line, SaveBeside(r, s, l) PROVE AllHome'
  BY <1>1, <1>2, <1>3, SaveBesideHome
<1>4. ASSUME NEW r \in Request, NEW from \in Warehouse, NEW to \in Warehouse, DeleteWarehouse(r, from, to)
      PROVE  AllHome'
  BY <1>1, <1>2, <1>4, DeleteWarehouseHome
<1>5. CASE Accounted /\ Keeps
  <2>1. Level  BY <1>5, LevelAccounted
  <2> QED BY <1>5, <2>1, KeepsHome
<1>6. ASSUME NEW r \in Request, DropStocks(r), Steady PROVE AllHome'
  BY <1>1, <1>2, <1>6, DropStocksHome
<1>7. CASE Steady /\ due' = due
  <2>1. CASE Keeps
    <3>1. UNCHANGED <<hasStock, stock, due>>  BY <1>7, <2>1 DEF Keeps
    <3>2. Level  BY <1>7, <3>1, LevelSteady
    <3> QED BY <2>1, <3>2, KeepsHome
  <2>2. ASSUME NEW r \in Request,
               \/ ListStocks(r) \/ \E p \in Product : FindOther(r, p)
               \/ SaveOther(r) \/ MoveRow(r)
        PROVE  AllHome'
    <3> SUFFICES ASSUME ~repeated' PROVE AllHome'  BY DEF AllHome
    <3>1. /\ ~repeated
          /\ \A q \in Request \ {r} : merge[q] = NoMerge /\ merge'[q] = NoMerge
      BY <2>2, AloneThen
    <3>2. CASE merge[r].from = merge[r].to
      <4>1. PICK w \in Warehouse : Alike(r, w)  BY <1>2, <2>2, <3>2, MergedAlike
      <4> QED BY <1>1, <1>7, <3>1, <4>1, AlikeHome
    <3>3. CASE merge[r].from # merge[r].to
      <4>1. PICK from \in Warehouse, to \in Warehouse : Balanced(r, from, to)
        BY <1>2, <2>2, <3>3, ListStocksBalanced, FindOtherBalanced, SaveOtherBalanced,
           MoveRowBalanced
      <4>2. Half(r) /\ Half(r)'
        BY <2>2, ListStocksMerge, FindOtherMerge, SaveOtherMerge, MoveRowMerge DEF Half
      <4>3. DuesMove(from, to)  BY <1>7, DuesStay
      <4> QED BY <1>1, <1>7, <3>1, <4>1, <4>2, <4>3, BalancedHome
    <3> QED BY <3>2, <3>3
  <2>3. ASSUME NEW r \in Request, DeleteRow(r) PROVE AllHome'
    BY <1>1, <1>7, <2>3, DeleteRowHome
  <2>4. ASSUME NEW r \in Request, Ends(r) PROVE AllHome'
    <3>1. repeated' = TRUE  BY <2>4, EndsMerge
    <3> QED BY <3>1 DEF AllHome
  <2> QED BY <1>3, <1>4, <1>6, <1>7, <2>1, <2>2, <2>3, <2>4, Kinds
<1> QED BY <1>3, <1>4, <1>5, <1>6, <1>7, SteadyStep

------------------------------------------------------------------------------
(* No goods are lost, whatever is repeated.                                  *)

(* What all deletions together hold twice. *)
AllTwice(p) == SumFunction(TwiceFn(p))

(* All warehouses together have at least what they should have, and what is  *)
(* there twice besides.                                                      *)
NoneLost ==
  cascaded \cup oversold = {} => \A p \in Product : ExcessAll(p) >= AllTwice(p)

(* All but r hold no more twice than before. *)
LEMMA TwiceAtMost ==
  ASSUME WarehousesAssumption, Typed, Typed', Positive, oversold = {}, NEW p \in Product, NEW r \in Request,
         \A q \in Request \ {r} : Twice(q, p)' \in {Twice(q, p), 0}
  PROVE  /\ AllTwice(p)' <= AllTwice(p) + Twice(r, p)' - Twice(r, p)
         /\ AllTwice(p) \in Int /\ AllTwice(p)' \in Int
<1> DEFINE f == TwiceFn(p)
           g == TwiceFn(p)'
<1>1. f \in [Request -> Int] /\ \A q \in Request : f[q] = Twice(q, p)
  BY TwiceInt DEF TwiceFn
<1>2. g \in [Request -> Int] /\ \A q \in Request : g[q] = Twice(q, p)'
  BY TwiceIntThen DEF TwiceFn
<1>3. \A q \in Request \ {r} : g[q] <= f[q]
  <2> SUFFICES ASSUME NEW q \in Request \ {r} PROVE g[q] <= f[q]  OBVIOUS
  <2>1. Twice(q, p) >= 0 /\ Twice(q, p) \in Int  BY TwiceNat, TwiceInt
  <2>2. f[q] = Twice(q, p) /\ g[q] \in {Twice(q, p), 0}  BY <1>1, <1>2
  <2> HIDE DEF f, g
  <2> QED BY <2>1, <2>2
<1> HIDE DEF f, g
<1>4. SumFunction(g) <= SumFunction(f) + g[r] - f[r]
  BY <1>1, <1>2, <1>3, PointAtMost DEF WarehousesAssumption
<1>5. SumFunction(f) \in Int /\ SumFunction(g) \in Int
  BY <1>1, <1>2, SumType DEF WarehousesAssumption
<1> QED BY <1>1, <1>2, <1>4, <1>5 DEF AllTwice, f, g

(* No deletion holds more twice, and all goods are still there. *)
LEMMA NoneLostKept ==
  ASSUME ShipmentsAssumption, WarehousesAssumption, Typed, Typed', Positive, NoneLost,
         cascaded \cup oversold = {},
         \A p \in Product : ExcessAll(p)' >= ExcessAll(p),
         \A p \in Product, q \in Request : Twice(q, p)' \in {Twice(q, p), 0}
  PROVE  NoneLost'
<1> SUFFICES ASSUME NEW p \in Product PROVE ExcessAll(p)' >= AllTwice(p)'
  BY DEF NoneLost
<1> DEFINE f == TwiceFn(p)
           g == TwiceFn(p)'
<1>1. f \in [Request -> Int] /\ \A q \in Request : f[q] = Twice(q, p)
  BY TwiceInt DEF TwiceFn
<1>2. g \in [Request -> Int] /\ \A q \in Request : g[q] = Twice(q, p)'
  BY TwiceIntThen DEF TwiceFn
<1>3. \A q \in Request : g[q] <= f[q]
  <2> SUFFICES ASSUME NEW q \in Request PROVE g[q] <= f[q]  OBVIOUS
  <2>1. Twice(q, p) >= 0 /\ Twice(q, p) \in Int  BY TwiceNat, TwiceInt
  <2>2. f[q] = Twice(q, p) /\ g[q] \in {Twice(q, p), 0}  BY <1>1, <1>2
  <2> HIDE DEF f, g
  <2> QED BY <2>1, <2>2
<1> HIDE DEF f, g
<1>4. SumFunction(g) <= SumFunction(f) /\ SumFunction(f) \in Int /\ SumFunction(g) \in Int
  BY <1>1, <1>2, <1>3, SumMonotone, SumType DEF WarehousesAssumption
<1>5. ExcessAll(p) >= SumFunction(f)  BY DEF NoneLost, AllTwice, f
<1>6. ExcessAll(p) \in Int /\ ExcessAll(p)' \in Int  BY ExcessTypes, ExcessThen
<1>7. ExcessAll(p)' >= ExcessAll(p)  OBVIOUS
<1>8. ExcessAll(p)' >= SumFunction(g)  BY <1>4, <1>5, <1>6, <1>7
<1> QED BY <1>8 DEF AllTwice, g

LEMMA LevelNoneLost ==
  ASSUME ShipmentsAssumption, WarehousesAssumption, Typed, Typed', Positive, NoneLost,
         cascaded \cup oversold = {}, Level,
         \A p \in Product, q \in Request : Twice(q, p)' \in {Twice(q, p), 0}
  PROVE  NoneLost'
<1>1. \A p \in Product : ExcessAll(p)' = ExcessAll(p) /\ ExcessAll(p) \in Int
  BY LevelAll, ExcessTypes
<1>2. \A p \in Product : ExcessAll(p)' >= ExcessAll(p)  BY <1>1
<1> QED BY <1>2, NoneLostKept

(* A balanced step adds what it holds twice.                                 *)
LEMMA BalancedNoneLost ==
  ASSUME ShipmentsAssumption, WarehousesAssumption, Typed, Typed', Positive, NoneLost, Steady,
         cascaded \cup oversold = {}, NEW r \in Request, NEW from \in Warehouse, NEW to \in Warehouse,
         Balanced(r, from, to), DuesMove(from, to)
  PROVE  NoneLost'
<1> SUFFICES ASSUME NEW p \in Product PROVE ExcessAll(p)' >= AllTwice(p)'
  BY DEF NoneLost
<1>1. oversold = {}  OBVIOUS
<1>2. from # to /\ \A q \in Request \ {r} : Twice(q, p)' \in {Twice(q, p), 0}  BY DEF Balanced
<1>3. /\ AllTwice(p)' <= AllTwice(p) + Twice(r, p)' - Twice(r, p)
      /\ AllTwice(p) \in Int /\ AllTwice(p)' \in Int
  BY <1>1, <1>2, TwiceAtMost
<1>4. PICK d \in Int : Even(p, from, to, d) /\ Twice(r, p)' = Twice(r, p) + d  BY BalancedEven
<1>5. ExcessAll(p)' = ExcessAll(p) + d  BY <1>2, <1>4, EvenAll
<1>6. ExcessAll(p) >= AllTwice(p)  BY DEF NoneLost
<1>7. ExcessAll(p) \in Int /\ Twice(r, p) \in Int  BY ExcessTypes, TwiceInt
<1> QED BY <1>3, <1>4, <1>5, <1>6, <1>7

(* A warehouse that is merged into itself has at least what it had. *)
LEMMA AlikeNoneLost ==
  ASSUME ShipmentsAssumption, WarehousesAssumption, Typed, Typed', Positive, NoneLost, Steady,
         cascaded \cup oversold = {}, due' = due, NEW r \in Request, NEW w \in Warehouse, Alike(r, w)
  PROVE  NoneLost'
<1>1. ASSUME NEW p \in Product
      PROVE  /\ \A u \in Warehouse \ {w} : Had(p, u)' = Had(p, u)
             /\ Had(p, w)' >= Had(p, w)
             /\ \A q \in Request : Twice(q, p)' \in {Twice(q, p), 0}
  BY DEF Alike
<1>2. ASSUME NEW p \in Product PROVE ExcessAll(p)' >= ExcessAll(p)
  <2> DEFINE f == ExcessFn(p)
             g == ExcessFn(p)'
  <2>1. f \in [Warehouse -> Int] /\ \A u \in Warehouse : f[u] = Excess(p, u)
    BY ExcessTypes DEF ExcessFn
  <2>2. g \in [Warehouse -> Int] /\ \A u \in Warehouse : g[u] = Excess(p, u)'
    BY ExcessThen DEF ExcessFn
  <2> HIDE DEF f, g
  <2>3. ASSUME NEW u \in Warehouse PROVE f[u] <= g[u]
    <3>1. /\ Had(p, u) \in Int /\ Had(p, u)' \in Int /\ OutOf(p, {u}) \in Int
          /\ due[<<p, u>>] \in Int
      BY ExcessTypes, ExcessThen
    <3>2. OutOf(p, {u})' = OutOf(p, {u})  BY SteadySums
    <3>3. /\ Excess(p, u) = Had(p, u) + OutOf(p, {u}) - due[<<p, u>>]
          /\ Excess(p, u)' = Had(p, u)' + OutOf(p, {u}) - due[<<p, u>>]
      BY <3>2 DEF Excess
    <3>4. Had(p, u)' >= Had(p, u)  BY <1>1, <3>1
    <3> QED BY <2>1, <2>2, <3>1, <3>3, <3>4
  <2>4. SumFunction(f) <= SumFunction(g) /\ SumFunction(f) \in Int /\ SumFunction(g) \in Int
    BY <2>1, <2>2, <2>3, SumMonotone, SumType DEF WarehousesAssumption
  <2>5. SumFunction(g) >= SumFunction(f)  BY <2>4
  <2> QED BY <2>5 DEF ExcessAll, f, g
<1> QED BY <1>1, <1>2, NoneLostKept

(* What has cascaded or been oversold stays so.                              *)
LEMMA GhostsBefore ==
  ASSUME ShipmentsAssumption, Typed, [WarehousesNext]_warehousesVars
  PROVE  cascaded \subseteq cascaded' /\ oversold \subseteq oversold'
<1> DEFINE More == cascaded \subseteq cascaded' /\ oversold \subseteq oversold'
<1>1. Keeps => More  BY DEF Keeps
<1>2. ASSUME NEW r \in Request, NEW s \in Shipment, NEW l \in Line, SaveBeside(r, s, l) PROVE More
  BY <1>2 DEF SaveBeside, Untouched
<1>3. ASSUME NEW r \in Request,
             \/ \E from, to \in Warehouse : DeleteWarehouse(r, from, to)
             \/ ListStocks(r) \/ \E p \in Product : FindOther(r, p)
             \/ SaveOther(r) \/ MoveRow(r) \/ DropStocks(r) \/ DeleteRow(r) \/ Ends(r)
      PROVE  More
  BY <1>3 DEF DeleteWarehouse, ListStocks, FindOther, SaveOther, MoveRow, DropStocks, DeleteRow, Ends,
              MergeRefused, RowIsReferred, CutShort, OnlyMerge
<1> HIDE DEF More
<1>4. More  BY <1>1, <1>2, <1>3, Kinds
<1> QED BY <1>4 DEF More

(* No step loses goods, but a cascade or a negative quantity.                *)
LEMMA NoneLostStep ==
  ASSUME ShipmentsAssumption, WarehousesAssumption,
         Typed, Reading, Positive, Jobs, MovingItems, FreshReads, NoneLost,
         Clean', [WarehousesNext]_warehousesVars
  PROVE  NoneLost'
<1> USE ShipmentsAssumption, WarehousesAssumption
<1>1. Typed'  BY TypedStep
<1>2. raced' = {} /\ collided' = {}  BY DEF Clean
<1> SUFFICES ASSUME cascaded' \cup oversold' = {} PROVE NoneLost'  BY DEF NoneLost
<1>3. cascaded \cup oversold = {} /\ oversold = {}  BY GhostsBefore
<1>4. ASSUME Level, \A p \in Product, q \in Request : Twice(q, p)' \in {Twice(q, p), 0}
      PROVE  NoneLost'
  BY <1>1, <1>3, <1>4, LevelNoneLost
<1>5. ASSUME NEW r \in Request, NEW s \in Shipment, NEW l \in Line, SaveBeside(r, s, l) PROVE NoneLost'
  <2>1. PICK d : GoodsMove(s, l, d)  BY <1>2, <1>5, SaveBesideMoves
  <2>2. PICK k : Writes(r, s, l, k)  BY <1>5, SaveBesideFacts
  <2>3. hasStock' = hasStock /\ merge' = Missed({k})  BY <2>1, <2>2 DEF GoodsMove, Writes
  <2>4. Level  BY <1>1, <2>1, LevelMoves
  <2>5. ASSUME NEW p \in Product, NEW q \in Request PROVE Twice(q, p)' \in {Twice(q, p), 0}
    BY <2>3, TwiceMissed
  <2> QED BY <1>4, <2>4, <2>5
<1>6. ASSUME NEW r \in Request, NEW from \in Warehouse, NEW to \in Warehouse, DeleteWarehouse(r, from, to)
      PROVE  NoneLost'
  <2> DEFINE n == merge'[r]
  <2>1. /\ n.stage = "list" /\ \A q \in Request \ {r} : merge'[q] = merge[q]
        /\ UNCHANGED hasStock
    BY <1>6, DeleteWarehouseMerge
  <2>2. ASSUME NEW p \in Product, NEW q \in Request PROVE Twice(q, p)' \in {Twice(q, p), 0}
    <3>1. CASE q = r  BY <2>1, <3>1 DEF Twice, Done, Merging
    <3>2. CASE q # r  BY <2>1, <3>2, TwiceKept
    <3> QED BY <3>1, <3>2
  <2>3. CASE from = to
    <3>1. Level  BY <1>1, <1>2, <1>6, <2>3, DeleteWarehouseExcess
    <3> QED BY <1>4, <2>2, <3>1
  <2>4. CASE from # to
    <3>1. ASSUME NEW p \in Product PROVE ExcessAll(p)' >= ExcessAll(p)
      <4>1. Even(p, from, to, 0)  BY <1>1, <1>2, <1>6, <2>4, DeleteWarehouseExcess
      <4>2. ExcessAll(p)' = ExcessAll(p) + 0  BY <1>1, <2>4, <4>1, EvenAll
      <4>3. ExcessAll(p) \in Int  BY ExcessTypes
      <4> QED BY <4>2, <4>3
    <3> QED BY <1>1, <1>3, <2>2, <3>1, NoneLostKept
  <2> QED BY <2>3, <2>4
<1>7. CASE Accounted /\ Keeps
  <2>1. Level  BY <1>7, LevelAccounted
  <2>2. UNCHANGED <<merge, hasStock>>  BY <1>7 DEF Keeps
  <2>3. \A p \in Product, q \in Request : Twice(q, p)' \in {Twice(q, p), 0}  BY <2>2, TwiceKept
  <2> QED BY <1>4, <2>1, <2>3
<1>8. ASSUME NEW r \in Request, DropStocks(r), Steady PROVE NoneLost'
  <2>1. merge[r] \in Merge  BY <1>8, DropStocksMerge
  <2>2. PICK from \in Warehouse, to \in Warehouse : merge[r].from = from /\ merge[r].to = to
    BY <2>1 DEF Merge
  <2>3. CASE from = to
    <3>1. cascaded' = cascaded \cup (Product \X {from})  BY <1>8, <2>2, <2>3 DEF DropStocks, SourceOf
    <3>2. Product \X {from} = {}  BY <3>1
    <3>3. ASSUME NEW p \in Product PROVE FALSE
      <4>1. <<p, from>> \in Product \X {from}  OBVIOUS
      <4> QED BY <3>2, <4>1
    <3> QED BY <3>3 DEF NoneLost
  <2>4. CASE from # to
    <3>1. PICK f \in Warehouse, t \in Warehouse : Balanced(r, f, t)
      BY <1>2, <1>8, <2>2, <2>4, DropStocksBalanced
    <3>2. f = from /\ t = to  BY <2>2, <3>1 DEF Balanced
    <3>3. DuesMove(from, to)  BY <1>8, <2>2, <2>4, DropStocksDues
    <3> QED BY <1>1, <1>3, <1>8, <3>1, <3>2, <3>3, BalancedNoneLost
  <2> QED BY <2>3, <2>4
<1>9. CASE Steady /\ due' = due
  <2>1. ASSUME UNCHANGED <<hasStock, stock>>,
               \A p \in Product, q \in Request : Twice(q, p)' \in {Twice(q, p), 0}
        PROVE  NoneLost'
    <3>1. Level  BY <1>9, <2>1, LevelSteady
    <3> QED BY <1>4, <2>1, <3>1
  <2>2. CASE Keeps
    <3>1. UNCHANGED <<hasStock, stock, merge>>  BY <2>2 DEF Keeps
    <3>2. \A p \in Product, q \in Request : Twice(q, p)' \in {Twice(q, p), 0}  BY <3>1, TwiceKept
    <3> QED BY <2>1, <3>1, <3>2
  <2>3. ASSUME NEW r \in Request,
               \/ ListStocks(r) \/ \E p \in Product : FindOther(r, p)
               \/ SaveOther(r) \/ MoveRow(r)
        PROVE  NoneLost'
    <3>1. CASE merge[r].from = merge[r].to
      <4>1. PICK w \in Warehouse : Alike(r, w)  BY <1>2, <2>3, <3>1, MergedAlike
      <4> QED BY <1>1, <1>3, <1>9, <4>1, AlikeNoneLost
    <3>2. CASE merge[r].from # merge[r].to
      <4>1. PICK from \in Warehouse, to \in Warehouse : Balanced(r, from, to)
        BY <1>2, <2>3, <3>2, ListStocksBalanced, FindOtherBalanced, SaveOtherBalanced,
           MoveRowBalanced
      <4>2. DuesMove(from, to)  BY <1>9, DuesStay
      <4> QED BY <1>1, <1>3, <1>9, <4>1, <4>2, BalancedNoneLost
    <3> QED BY <3>1, <3>2
  <2>4. ASSUME NEW r \in Request, DeleteRow(r) PROVE NoneLost'
    <3> DEFINE K == {k \in hasStock : k[2] = merge[r].from}
    <3>1. /\ merge'[r] = NoMerge /\ \A q \in Request \ {r} : merge'[q] = Missed(K)[q]
          /\ hasStock' = hasStock \ K /\ cascaded' = cascaded \cup K /\ UNCHANGED stock
      BY <2>4, DeleteRowMerge
    <3>2. K = {} /\ hasStock' = hasStock
      <4> HIDE DEF K
      <4>1. K = {}  BY <3>1
      <4> QED BY <3>1, <4>1
    <3> HIDE DEF K
    <3>3. ASSUME NEW p \in Product, NEW q \in Request PROVE Twice(q, p)' \in {Twice(q, p), 0}
      <4>1. CASE q = r
        <5>1. NoMerge.stage = "none"  BY DEF NoMerge
        <5>2. Twice(q, p)' = 0  BY <3>1, <4>1, <5>1 DEF Twice, Done, Merging
        <5> QED BY <5>2
      <4>2. CASE q # r
        <5>1. merge'[q] = Missed(K)[q]  BY <3>1, <4>2
        <5> QED BY <3>2, <5>1, TwiceMissed
      <4> QED BY <4>1, <4>2
    <3> QED BY <2>1, <3>1, <3>2, <3>3
  <2>5. ASSUME NEW r \in Request, Ends(r) PROVE NoneLost'
    <3>1. /\ merge'[r] = NoMerge /\ \A q \in Request \ {r} : merge'[q] = merge[q]
          /\ UNCHANGED <<hasStock, stock>>
      BY <2>5, EndsMerge
    <3>2. ASSUME NEW p \in Product, NEW q \in Request PROVE Twice(q, p)' \in {Twice(q, p), 0}
      <4>1. CASE q = r
        <5>1. NoMerge.stage = "none"  BY DEF NoMerge
        <5>2. Twice(q, p)' = 0  BY <3>1, <4>1, <5>1 DEF Twice, Done, Merging
        <5> QED BY <5>2
      <4>2. CASE q # r  BY <3>1, <4>2, TwiceKept
      <4> QED BY <4>1, <4>2
    <3> QED BY <2>1, <3>1, <3>2
  <2> QED BY <1>5, <1>6, <1>8, <1>9, <2>2, <2>3, <2>4, <2>5, Kinds
<1> QED BY <1>5, <1>6, <1>7, <1>8, <1>9, SteadyStep

------------------------------------------------------------------------------
(* The inductive invariant, and what it shows.                               *)

(* While nothing has raced, collided or gone unmoved. *)
CleanInv ==
  /\ Jobs /\ MovingItems /\ FreshReads
  /\ Emptied /\ AllHome /\ NoneLost

(* The inductive invariant.                                                  *)
WarehousesInv ==
  /\ Typed /\ Reading /\ OneMerge /\ Positive
  /\ Clean => CleanInv

LEMMA JobsAtFirst ==
  ASSUME ShipmentsAssumption, WarehousesInit
  PROVE  Jobs /\ MovingItems /\ FreshReads
<1> USE DEF WarehousesInit, Init
<1>1. Working /\ Alone  BY DEF Working, Alone
<1>2. WholeFilters /\ MadeHere  BY DEF WholeFilters, MadeHere, NoFilter
<1>3. live \subseteq 1..lastId /\ live \subseteq Shipment
  BY DEF ShipmentsAssumption, Shipment
<1>4. TimesFollow  BY <1>3 DEF TimesFollow, ShipmentsAssumption
<1>5. Standing  BY DEF Standing
<1>6. MovingItems /\ FreshReads  BY DEF MovingItems, FreshReads
<1> QED BY <1>1, <1>2, <1>3, <1>4, <1>5, <1>6 DEF Jobs, Rows

LEMMA TypedAtFirst ==
  ASSUME ShipmentsAssumption, WarehousesInit
  PROVE  Typed
<1>1. TypeOK  BY InitType DEF WarehousesInit
<1>2. MergeTyped
  <2>1. NoMerge.stage = "none"  BY DEF NoMerge
  <2>2. due \in [Key -> Int]
    <3>1. \A k \in InitialKeys : InitialStock[k] \in Int  BY <1>1 DEF WarehousesInit, Init, TypeOK
    <3> QED BY <3>1 DEF WarehousesInit
  <2> QED BY <2>1, <2>2 DEF WarehousesInit, MergeTyped, Deletes
<1> QED BY <1>1, <1>2 DEF Typed

(* With no deletion about, nothing is held twice. *)
LEMMA NothingTwice ==
  ASSUME WarehousesAssumption, \A r \in Request : merge[r] = NoMerge, NEW p
  PROVE  (\A r \in Request : Twice(r, p) = 0) /\ AllTwice(p) = 0
<1>1. NoMerge.stage = "none"  BY DEF NoMerge
<1>2. \A r \in Request : Twice(r, p) = 0  BY <1>1 DEF Twice, Done, Merging
<1> DEFINE f == TwiceFn(p)
<1>3. f \in [Request -> Int] /\ \A r \in Request : f[r] = 0  BY <1>2 DEF TwiceFn
<1> HIDE DEF f
<1>4. SumFunction(f) = 0  BY <1>3, SumNothing DEF WarehousesAssumption
<1> QED BY <1>2, <1>4 DEF AllTwice, f

(* The sums of Conserved at rest: what is in stock,                          *)
LEMMA HadIsInStock ==
  ASSUME WarehousesAssumption, Typed, NEW p \in Product
  PROVE  /\ \A w \in Warehouse : InStock(p, {w}) = Had(p, w)
         /\ InStock(p, Warehouse) = SumFunction(HadFn(p))
<1>1. ASSUME NEW w \in Warehouse PROVE InStock(p, {w}) = Had(p, w)
  <2> DEFINE f == [x \in Warehouse |->
                     IF x \in {w} /\ <<p, x>> \in hasStock THEN stock[<<p, x>>] ELSE 0]
  <2>1. \A x \in Warehouse : stock[<<p, x>>] \in Int  BY DEF Typed, TypeOK, Key
  <2>2. f \in [Warehouse -> Int] /\ f[w] = Had(p, w) /\ \A x \in Warehouse \ {w} : f[x] = 0
    BY <2>1 DEF Had
  <2> HIDE DEF f
  <2>3. SumFunction(f) = f[w]  BY <2>2, SumPoint DEF WarehousesAssumption
  <2> QED BY <2>2, <2>3 DEF InStock, f
<1>2. [w \in Warehouse |->
         IF w \in Warehouse /\ <<p, w>> \in hasStock THEN stock[<<p, w>>] ELSE 0] = HadFn(p)
  BY DEF HadFn, Had
<1> QED BY <1>1, <1>2 DEF InStock

(* ... and what is out, which is what the columns say has been shipped.      *)
LEMMA OutIsShipped ==
  ASSUME \A r \in Request, s \in Shipment : job[r][s] = NoJob, NEW p, NEW W
  PROVE  OutOf(p, W) = Shipped(p, W)
<1> DEFINE F(x) == IF row[x[1]].warehouse \in W /\ ProductOf[x[2]] = p THEN OutAt(x[1], x[2]) ELSE 0
           G(x) == IF /\ x[1] \in live /\ row[x[1]].shippedAt /\ row[x[1]].warehouse \in W
                      /\ ProductOf[x[2]] = p
                     THEN items[x[1]][x[2]] ELSE 0
<1>1. ASSUME NEW x \in Shipment \X Line PROVE F(x) = G(x)
  <2>1. x[1] \in Shipment  OBVIOUS
  <2>2. Out(x[1], x[2]) <=> row[x[1]].shippedAt
    <3>1. \A r \in Request : job[r][x[1]] = NoJob  BY <2>1
    <3> QED BY <3>1 DEF Out, Left
  <2> QED BY <2>2 DEF OutAt
<1>2. OutFn(p, W) = [x \in Shipment \X Line |-> F(x)]  BY DEF OutFn
<1>3. Shipped(p, W) = SumFunction([x \in Shipment \X Line |-> G(x)])  BY DEF Shipped
<1> HIDE DEF F, G
<1>4. [x \in Shipment \X Line |-> F(x)] = [x \in Shipment \X Line |-> G(x)]  BY <1>1
<1> QED BY <1>2, <1>3, <1>4 DEF OutOf

LEMMA AtFirst ==
  ASSUME ShipmentsAssumption, WarehousesAssumption, WarehousesInit
  PROVE  WarehousesInv
<1>1. Typed /\ Jobs /\ MovingItems /\ FreshReads  BY JobsAtFirst, TypedAtFirst
<1>2. \A r \in Request : merge[r] = NoMerge  BY DEF WarehousesInit
<1>3. Reading /\ OneMerge /\ Emptied  BY <1>2 DEF Reading, ReadingOf, OneMerge, Emptied
<1>4. Positive
  <2>1. ASSUME oversold = {}, NEW k \in hasStock PROVE stock[k] >= 0
    <3>1. k \in Key /\ stock[k] \in Int  BY <1>1 DEF Typed, TypeOK
    <3>2. ~(stock[k] < 0)  BY <2>1 DEF WarehousesInit, Init
    <3> QED BY <3>1, <3>2
  <2> QED BY <1>2, <2>1 DEF Positive
<1>5. ASSUME NEW p \in Product, NEW W
      PROVE  OutOf(p, W) = 0
  <2> DEFINE f == OutFn(p, W)
  <2>1. \A s \in live : ~row[s].shippedAt
    BY DEF WarehousesInit, Init, ShipmentsAssumption, Shipment
  <2>2. \A s \in Shipment, l \in Line : OutAt(s, l) = 0
    <3> SUFFICES ASSUME NEW s \in live, NEW l \in Line PROVE ~Out(s, l)
      BY DEF OutAt
    <3>1. s \in Shipment  BY <1>1 DEF Typed, TypeOK
    <3>2. \A r \in Request : job[r][s] = NoJob  BY <3>1 DEF WarehousesInit, Init
    <3> QED BY <2>1, <3>2 DEF Out, Left
  <2>3. f \in [Shipment \X Line -> Int] /\ \A x \in Shipment \X Line : f[x] = 0
    BY <2>2 DEF OutFn
  <2> HIDE DEF f
  <2>4. SumFunction(f) = 0  BY <2>3, SumNothing, SlotsFinite
  <2> QED BY <2>4 DEF OutOf, f
<1>6. ASSUME NEW p \in Product
      PROVE  (\A w \in Warehouse : Excess(p, w) = 0) /\ ExcessAll(p) = 0
  <2>1. ASSUME NEW w \in Warehouse PROVE Excess(p, w) = 0
    <3>1. <<p, w>> \in Key  BY DEF Key
    <3>2. due[<<p, w>>] = Had(p, w)  BY <3>1 DEF WarehousesInit, Init, Had
    <3>3. Had(p, w) \in Int /\ OutOf(p, {w}) = 0  BY <1>1, <1>5, HadTypes
    <3> QED BY <3>2, <3>3 DEF Excess
  <2> DEFINE f == ExcessFn(p)
  <2>2. f \in [Warehouse -> Int] /\ \A w \in Warehouse : f[w] = 0  BY <2>1 DEF ExcessFn
  <2> HIDE DEF f
  <2>3. SumFunction(f) = 0  BY <2>2, SumNothing DEF WarehousesAssumption
  <2> QED BY <2>1, <2>3 DEF ExcessAll, f
<1>7. AllHome
  <2>1. \A r \in Request : ~Half(r)  BY <1>2 DEF Half
  <2> QED BY <1>6, <2>1 DEF AllHome
<1>8. NoneLost
  <2>1. \A p \in Product : AllTwice(p) = 0  BY <1>2, NothingTwice
  <2> QED BY <1>6, <2>1 DEF NoneLost
<1> QED BY <1>1, <1>3, <1>4, <1>7, <1>8 DEF WarehousesInv, CleanInv

LEMMA WarehousesInvStep ==
  ASSUME ShipmentsAssumption, WarehousesAssumption, WarehousesInv,
         [WarehousesNext]_warehousesVars
  PROVE  WarehousesInv'
<1> USE ShipmentsAssumption, WarehousesAssumption
<1>1. Typed /\ Reading /\ OneMerge /\ Positive  BY DEF WarehousesInv
<1>2. Typed' /\ TypeOK'
  <2>1. Typed'  BY <1>1, TypedStep
  <2> QED BY <2>1 DEF Typed
<1>3. Reading' /\ OneMerge' /\ Positive'
  BY <1>1, <1>2, ReadingStep, OneMergeStep, PositiveStep
<1>4. ASSUME Clean' PROVE CleanInv'
  <2>1. Clean  BY <1>4, CleanBefore
  <2>2. Jobs /\ MovingItems /\ FreshReads /\ Emptied /\ AllHome /\ NoneLost
    BY <2>1 DEF WarehousesInv, CleanInv
  <2>3. raced' = {} /\ collided' = {}  BY <1>4 DEF Clean
  <2>4. Jobs'  BY <1>1, <2>2, <2>3, JobsStep
  <2>5. ReadsInv  BY <1>1, <2>2 DEF ReadsInv, Typed
  <2>6. MovingItems' /\ FreshReads'  BY <1>1, <2>2, <2>3, <2>5, ReadsBesideStep
  <2>7. Emptied'  BY <1>1, <2>2, <2>3, EmptiedStep
  <2>8. AllHome'  BY <1>1, <1>4, <2>2, AllHomeStep
  <2>9. NoneLost'  BY <1>1, <1>4, <2>2, NoneLostStep
  <2> QED BY <2>4, <2>6, <2>7, <2>8, <2>9 DEF CleanInv
<1> QED BY <1>2, <1>3, <1>4 DEF WarehousesInv

(* The sums over the warehouses.                                             *)
LEMMA AllGoods ==
  ASSUME ShipmentsAssumption, WarehousesAssumption, Typed, NEW p \in Product
  PROVE  ExcessAll(p) = SumFunction(HadFn(p)) + OutOf(p, Warehouse) - DueOf(p)
<1> DEFINE D == Shipment \X Line
           h == HadFn(p)
           o == [w \in Warehouse |-> OutOf(p, {w})]
           d == [w \in Warehouse |-> due[<<p, w>>]]
           n == [w \in Warehouse |-> 0 - due[<<p, w>>]]
           e == ExcessFn(p)
<1>1. \A w \in Warehouse : /\ Had(p, w) \in Int /\ OutOf(p, {w}) \in Int
                            /\ due[<<p, w>>] \in Int
                            /\ Excess(p, w) = Had(p, w) + OutOf(p, {w}) - due[<<p, w>>]
  BY ExcessTypes DEF Excess
<1>2. /\ h \in [Warehouse -> Int] /\ o \in [Warehouse -> Int] /\ d \in [Warehouse -> Int]
      /\ n \in [Warehouse -> Int] /\ e \in [Warehouse -> Int]
      /\ \A w \in Warehouse : e[w] = h[w] + o[w] - d[w] /\ n[w] = 0 - d[w]
  <2>1. h \in [Warehouse -> Int] /\ e \in [Warehouse -> Int]  BY HadTypes, ExcessTypes
  <2>2. /\ o \in [Warehouse -> Int] /\ d \in [Warehouse -> Int] /\ n \in [Warehouse -> Int]
        /\ \A w \in Warehouse : /\ o[w] = OutOf(p, {w}) /\ d[w] = due[<<p, w>>]
                                 /\ n[w] = 0 - due[<<p, w>>]
    <3>1. o \in [Warehouse -> Int] /\ \A w \in Warehouse : o[w] = OutOf(p, {w})  BY <1>1
    <3>2. d \in [Warehouse -> Int] /\ \A w \in Warehouse : d[w] = due[<<p, w>>]  BY <1>1
    <3>3. n \in [Warehouse -> Int] /\ \A w \in Warehouse : n[w] = 0 - due[<<p, w>>]
      <4>1. ASSUME NEW w \in Warehouse PROVE 0 - due[<<p, w>>] \in Int
        <5>1. due[<<p, w>>] \in Int  BY <1>1
        <5> QED BY <5>1
      <4> QED BY <4>1
    <3> QED BY <3>1, <3>2, <3>3
  <2>3. \A w \in Warehouse : h[w] = Had(p, w) /\ e[w] = Excess(p, w)  BY DEF HadFn, ExcessFn
  <2> HIDE DEF h, o, d, n, e
  <2> QED BY <1>1, <2>1, <2>2, <2>3
<1>3. SumFunction(o) = OutOf(p, Warehouse)
  <2> DEFINE f == OutFn(p, Warehouse)
             v == [x \in D |-> row[x[1]].warehouse]
             S(w) == [x \in D |-> IF v[x] = w THEN f[x] ELSE 0]
  <2>1. v \in [D -> Warehouse]  BY DEF Typed, TypeOK, Row
  <2>2. f \in [D -> Int] /\ IsFiniteSet(D)  BY GoodsTypes, SlotsFinite
  <2>3. ASSUME NEW w \in Warehouse PROVE OutFn(p, {w}) = S(w)
    <3>1. ASSUME NEW x \in D
          PROVE  (IF row[x[1]].warehouse \in {w} /\ ProductOf[x[2]] = p THEN OutAt(x[1], x[2]) ELSE 0)
                   = (IF v[x] = w THEN f[x] ELSE 0)
      BY DEF OutFn
    <3> QED BY <3>1 DEF OutFn
  <2>4. o = [w \in Warehouse |-> SumFunction(S(w))]  BY <2>3 DEF OutOf
  <2> HIDE DEF f, v, D, o
  <2>5. SumFunction([w \in Warehouse |-> SumFunction(S(w))]) = SumFunction(f)
    BY <2>1, <2>2, SumSlices DEF WarehousesAssumption
  <2> QED BY <2>4, <2>5 DEF OutOf, f
<1>4. DueOf(p) = SumFunction(d)  BY DEF DueOf
<1> HIDE DEF h, o, d, n, e
<1>5. SumFunction([w \in Warehouse |-> h[w] + o[w]]) = SumFunction(h) + SumFunction(o)
  BY <1>2, SumPlus DEF WarehousesAssumption
<1>6. SumFunction([w \in Warehouse |-> d[w] + n[w]]) = SumFunction(d) + SumFunction(n)
  BY <1>2, SumPlus DEF WarehousesAssumption
<1>7. SumFunction([w \in Warehouse |-> d[w] + n[w]]) = 0
  <2> DEFINE z == [w \in Warehouse |-> d[w] + n[w]]
  <2>1. z \in [Warehouse -> Int] /\ \A w \in Warehouse : z[w] = 0  BY <1>2
  <2> HIDE DEF z
  <2>2. SumFunction(z) = 0  BY <2>1, SumNothing DEF WarehousesAssumption
  <2> QED BY <2>2 DEF z
<1>8. SumFunction(e) = SumFunction(h) + SumFunction(o) + SumFunction(n)
  <2> DEFINE g == [w \in Warehouse |-> h[w] + o[w]]
  <2>1. g \in [Warehouse -> Int] /\ \A w \in Warehouse : e[w] = g[w] + n[w]  BY <1>2
  <2>2. SumFunction(g) = SumFunction(h) + SumFunction(o)  BY <1>5
  <2> HIDE DEF g
  <2>3. SumFunction([w \in Warehouse |-> g[w] + n[w]]) = SumFunction(g) + SumFunction(n)
    BY <1>2, <2>1, SumPlus DEF WarehousesAssumption
  <2>4. e = [w \in Warehouse |-> g[w] + n[w]]  BY <1>2, <2>1
  <2> QED BY <2>2, <2>3, <2>4
<1>9. SumFunction(h) \in Int /\ SumFunction(o) \in Int /\ SumFunction(d) \in Int /\ SumFunction(n) \in Int
  BY <1>2, SumType DEF WarehousesAssumption
<1>10. SumFunction(e) = SumFunction(h) + SumFunction(o) - SumFunction(d)  BY <1>6, <1>7, <1>8, <1>9
<1> QED BY <1>3, <1>4, <1>10 DEF ExcessAll, h, e

(* At rest, what is held is what there is.                                   *)
LEMMA ConservedAtRest ==
  ASSUME ShipmentsAssumption, WarehousesAssumption, WarehousesInv
  PROVE  Conserved
<1> SUFFICES ASSUME AtRest, Clean, NEW p \in Product
             PROVE  /\ ~repeated => \A w \in Warehouse : Goods(p, {w}) = due[<<p, w>>]
                    /\ cascaded \cup oversold = {} => Goods(p, Warehouse) >= DueOf(p)
  BY DEF Conserved, Clean
<1>1. Typed /\ Jobs /\ AllHome /\ NoneLost  BY DEF WarehousesInv, CleanInv
<1>2. \A r \in Request : merge[r] = NoMerge  BY DEF AtRest
<1>3. \A r \in Request, s \in Shipment : job[r][s] = NoJob
  <2>1. \A r \in Request : pc[r] \in {"new", "done", "failed"}  BY DEF AtRest
  <2>2. \A r \in Request, s \in Shipment : job[r][s] # NoJob => pc[r] \in {"run", "delete"}
    BY <1>1 DEF Jobs, Working
  <2>3. \A x \in {"run", "delete"} : x \notin {"new", "done", "failed"}  OBVIOUS
  <2> QED BY <2>1, <2>2, <2>3
<1>4. ASSUME ~repeated, NEW w \in Warehouse PROVE Goods(p, {w}) = due[<<p, w>>]
  <2>1. ~Busy(w)  BY <1>2 DEF Busy, Half
  <2>2. Excess(p, w) = 0  BY <1>1, <1>4, <2>1 DEF AllHome
  <2>3. Goods(p, {w}) = Had(p, w) + OutOf(p, {w})  BY <1>1, <1>3, HadIsInStock, OutIsShipped DEF Goods
  <2>4. Had(p, w) \in Int /\ OutOf(p, {w}) \in Int /\ due[<<p, w>>] \in Int  BY <1>1, ExcessTypes
  <2> QED BY <2>2, <2>3, <2>4 DEF Excess
<1>5. ASSUME cascaded \cup oversold = {} PROVE Goods(p, Warehouse) >= DueOf(p)
  <2>1. AllTwice(p) = 0  BY <1>2, NothingTwice
  <2>2. ExcessAll(p) >= 0  BY <1>1, <1>5, <2>1 DEF NoneLost
  <2>3. Goods(p, Warehouse) = SumFunction(HadFn(p)) + OutOf(p, Warehouse)
    BY <1>1, <1>3, HadIsInStock, OutIsShipped DEF Goods
  <2>4. SumFunction(HadFn(p)) \in Int /\ OutOf(p, Warehouse) \in Int  BY <1>1, HadTypes, GoodsTypes
  <2>5. DueOf(p) \in Int
    <3> DEFINE d == [w \in Warehouse |-> due[<<p, w>>]]
    <3>1. d \in [Warehouse -> Int]  BY <1>1, ExcessTypes
    <3> HIDE DEF d
    <3>2. SumFunction(d) \in Int  BY <3>1, SumType DEF WarehousesAssumption
    <3> QED BY <3>2 DEF DueOf, d
  <2>6. ExcessAll(p) = SumFunction(HadFn(p)) + OutOf(p, Warehouse) - DueOf(p)  BY <1>1, AllGoods
  <2>7. SumFunction(HadFn(p)) + OutOf(p, Warehouse) >= DueOf(p)  BY <2>2, <2>4, <2>5, <2>6
  <2> QED BY <2>3, <2>7
<1> QED BY <1>4, <1>5

(* Whatever is asked for: at rest, each warehouse has, in stock or shipped,  *)
(* what the calls made of the goods it and those merged into it had at       *)
(* first, if no deletion was cut short, refused or overlapped; and no goods  *)
(* are lost even then, unless stock rows went with their warehouse or held   *)
(* less than nothing (processShipment, delete, ProductStockService.delete).  *)
THEOREM ConservedCorrect == WarehousesSpec => []Conserved
<1>1. WarehousesInit => WarehousesInv  BY AtFirst, ShipmentsAssumption, WarehousesAssumption
<1>2. WarehousesInv /\ [WarehousesNext]_warehousesVars => WarehousesInv'
  BY WarehousesInvStep, ShipmentsAssumption, WarehousesAssumption
<1>3. WarehousesInv => Conserved  BY ConservedAtRest, ShipmentsAssumption, WarehousesAssumption
<1> QED BY <1>1, <1>2, <1>3, PTL DEF WarehousesSpec

(* The refused writes and the deletions keep the invariant of Shipments.     *)
LEMMA OneBesideStep ==
  ASSUME ShipmentsAssumption, WarehousesAssumption, Typed, OneInv, TypeOK',
         [WarehousesNext]_warehousesVars
  PROVE  IssuedOnce' /\ CopiesAgree' /\ OnRecord' /\ OneShipmentPerWarehouse'
<1> DEFINE Kept == IssuedOnce' /\ CopiesAgree' /\ OnRecord' /\ OneShipmentPerWarehouse'
<1> USE ShipmentsAssumption, WarehousesAssumption
<1>1. ASSUME NEW r \in Request, BeginBeside(r) \/ StepBeside(r) PROVE Kept
  <2>1. CASE ShipmentsStep(r)  BY <2>1, ShipmentsStepIsNext, OneStep
  <2>2. ASSUME (\E s \in Shipment : DropJob(r, s)) \/ Lose(r) PROVE Kept
    <3>1. UNCHANGED <<row, lastId, live, collided, contended>>
      BY <2>2 DEF DropJob, Lose, shipmentVars
    <3>2. \A q \in Request, s \in Shipment : job'[q][s] # NoJob => job'[q][s] = job[q][s]
      <4>1. ASSUME NEW s \in Shipment, DropJob(r, s)
            PROVE  \A q \in Request, x \in Shipment : job'[q][x] # NoJob => job'[q][x] = job[q][x]
        BY <4>1 DEF DropJob, OneInv, TypeOK
      <4>2. ASSUME Lose(r)
            PROVE  \A q \in Request, x \in Shipment : job'[q][x] # NoJob => job'[q][x] = job[q][x]
        BY <4>2 DEF Lose, OneInv, TypeOK
      <4> QED BY <2>2, <4>1, <4>2
    <3>3. \A q \in Request : pc'[q] = "create" =>
            pc[q] = "create" /\ filter'[q] = filter[q] /\ made'[q] = made[q]
      BY <2>2 DEF DropJob, Lose, createVars, OneInv, TypeOK
    <3> QED BY <3>1, <3>2, <3>3, RowsKeptStep
  <2> QED BY <1>1, <2>1, <2>2, BesideKinds
<1>2. ASSUME NEW r \in Request, DeletionStep(r) PROVE Kept
  <2>1. ASSUME NEW from, NEW to \in Warehouse, DeleteWarehouse(r, from, to) PROVE Kept
    BY <2>1, RelocateStep DEF DeleteWarehouse
  <2>2. ASSUME UNCHANGED <<row, lastId, pc, filter, made, job, contended>>, live' \subseteq live
        PROVE  Kept
    BY <2>2, RowsKeptStep
  <2>3. CASE ListStocks(r) \/ (\E p \in Product : FindOther(r, p)) \/ MergeRefused(r) \/ RowIsReferred(r)
    BY <2>2, <2>3 DEF ListStocks, FindOther, MergeRefused, RowIsReferred, OnlyMerge, vars,
                      shipmentVars, createVars, jobVars
  <2>4. CASE SaveOther(r) \/ MoveRow(r) \/ DropStocks(r) \/ CutShort(r)
    BY <2>2, <2>4 DEF SaveOther, MoveRow, DropStocks, CutShort, shipmentVars, createVars, jobVars
  <2>5. CASE DeleteRow(r)  BY <2>2, <2>5 DEF DeleteRow, createVars
  <2>6. \A m \in Relocations : m[2] \in Warehouse  BY DEF ShipmentsAssumption
  <2> QED BY <1>2, <2>1, <2>3, <2>4, <2>5, <2>6 DEF DeletionStep
<1>3. CASE UNCHANGED warehousesVars
  BY <1>3, OneStep DEF warehousesVars
<1> QED BY <1>1, <1>2, <1>3 DEF WarehousesNext

(* The types hold beside deletions of warehouses: what a deletion holds is   *)
(* of the types of its reads (ProductStockService.delete).                   *)
THEOREM WarehousesTypeCorrect == WarehousesSpec => []Typed
<1>1. WarehousesInit => Typed  BY TypedAtFirst, ShipmentsAssumption
<1>2. Typed /\ [WarehousesNext]_warehousesVars => Typed'
  BY TypedStep, ShipmentsAssumption, WarehousesAssumption
<1> QED BY <1>1, <1>2, PTL DEF WarehousesSpec

(* An order has two shipments at one warehouse only when one of the two was  *)
(* created beside another createForOrder call of the order, was moved there  *)
(* or was brought back by a save over its deleted row, also while warehouses *)
(* are deleted, with the rows their foreign keys cascade to                  *)
(* (WarehouseService.delete, ShipmentService.createForOrder).                *)
THEOREM OneShipmentBesideCorrect == WarehousesSpec => []OneShipmentPerWarehouse
<1> DEFINE Inv == Typed /\ OneInv
<1>1. WarehousesInit => Inv
  <2> SUFFICES ASSUME WarehousesInit PROVE Inv  OBVIOUS
  <2>1. Typed  BY TypedAtFirst, ShipmentsAssumption
  <2>2. IssuedOnce /\ CopiesAgree /\ OnRecord
    BY DEF WarehousesInit, Init, IssuedOnce, CopiesAgree, OnRecord
  <2>3. OneShipmentPerWarehouse
    BY ShipmentsAssumption DEF WarehousesInit, Init, OneShipmentPerWarehouse, ShipmentsAssumption
  <2> QED BY <2>1, <2>2, <2>3 DEF OneInv, Typed
<1>2. Inv /\ [WarehousesNext]_warehousesVars => Inv'
  <2> SUFFICES ASSUME Inv, [WarehousesNext]_warehousesVars PROVE Inv'  OBVIOUS
  <2>1. Typed'  BY TypedStep, ShipmentsAssumption, WarehousesAssumption
  <2>2. IssuedOnce' /\ CopiesAgree' /\ OnRecord' /\ OneShipmentPerWarehouse'
    BY <2>1, OneBesideStep, ShipmentsAssumption, WarehousesAssumption DEF Typed
  <2> QED BY <2>1, <2>2 DEF OneInv, Typed
<1>3. Inv => OneShipmentPerWarehouse  BY DEF OneInv
<1> QED BY <1>1, <1>2, <1>3, PTL DEF WarehousesSpec
===============================================================================
