----------------------------- MODULE SumsProofs -----------------------------
(***************************************************************************)
(* Laws of sums of counters.                                               *)
(***************************************************************************)
EXTENDS Sums, FiniteSetTheorems, TLAPS

(* The provers that try a step which names none, and their time limits.    *)
USE ZenonT(5), SMTT(20), ZenonT(60)

(* Membership in the units of a table. *)
LEMMA UnitsOf ==
  ASSUME NEW f, NEW u
  PROVE  u \in Units(f) <=> \E x \in DOMAIN f : \E i \in 1 .. f[x] : u = <<x, i>>
BY DEF Units

(* One counter has as many units as its value says. *)
LEMMA UnitsOfOne ==
  ASSUME NEW x, NEW n \in Nat
  PROVE  IsFiniteSet({x} \X (1 .. n)) /\ Cardinality({x} \X (1 .. n)) = n
<1>1. IsFiniteSet(1 .. n) /\ Cardinality(1 .. n) = n
  BY FS_Interval
<1>2. IsFiniteSet({x}) /\ Cardinality({x}) = 1
  BY FS_Singleton
<1> QED BY <1>1, <1>2, FS_Product

(* A finite table of counters has finitely many units, so the sum is a     *)
(* natural number.                                                         *)
LEMMA SumType ==
  ASSUME NEW S, IsFiniteSet(S), NEW f \in [S -> Nat]
  PROVE  IsFiniteSet(Units(f)) /\ Sum(f) \in Nat
<1> DEFINE T == {{x} \X (1 .. f[x]) : x \in S}
           h == [x \in S |-> {x} \X (1 .. f[x])]
<1>1. h \in Surjection(S, T)
  BY DEF Surjection
<1>2. IsFiniteSet(T)
  BY <1>1, FS_Surjection
<1>3. ASSUME NEW U \in T PROVE IsFiniteSet(U)
  <2>1. PICK x \in S : U = {x} \X (1 .. f[x])
    BY <1>3
  <2>2. f[x] \in Nat
    OBVIOUS
  <2> QED BY <2>1, <2>2, UnitsOfOne
<1>4. Units(f) = UNION T
  BY DEF Units
<1>5. IsFiniteSet(UNION T)
  <2> HIDE DEF T
  <2> QED BY <1>2, <1>3, FS_UNION
<1> QED BY <1>4, <1>5, FS_CardinalityType DEF Sum

(* One counter can be taken out of the sum. *)
LEMMA SumSplit ==
  ASSUME NEW S, IsFiniteSet(S), NEW f \in [S -> Nat], NEW x \in S
  PROVE  Sum(f) = Sum([y \in S \ {x} |-> f[y]]) + f[x]
<1> DEFINE g == [y \in S \ {x} |-> f[y]]
           X == {x} \X (1 .. f[x])
<1>1. IsFiniteSet(S \ {x}) /\ g \in [S \ {x} -> Nat]
  BY FS_RemoveElement
<1>2. IsFiniteSet(Units(g))
  <2> HIDE DEF g
  <2> QED BY <1>1, SumType
<1>3. IsFiniteSet(X) /\ Cardinality(X) = f[x]
  BY UnitsOfOne
<1>4. Units(f) = Units(g) \cup X
  <2>1. ASSUME NEW u \in Units(f) PROVE u \in Units(g) \cup X
    <3>1. PICK y \in S, i \in Nat : i \in 1 .. f[y] /\ u = <<y, i>>
      BY <2>1, UnitsOf
    <3>2. CASE y = x
      BY <3>1, <3>2
    <3>3. CASE y # x
      BY <3>1, <3>3, UnitsOf
    <3> QED BY <3>2, <3>3
  <2>2. ASSUME NEW u \in Units(g) PROVE u \in Units(f)
    <3>1. PICK y \in S \ {x}, i \in Nat : i \in 1 .. g[y] /\ u = <<y, i>>
      BY <2>2, UnitsOf
    <3> QED BY <3>1, UnitsOf
  <2>3. ASSUME NEW u \in X PROVE u \in Units(f)
    BY <2>3, UnitsOf
  <2> QED BY <2>1, <2>2, <2>3
<1>5. Units(g) \cap X = {}
  <2>1. ASSUME NEW u \in Units(g) PROVE u \notin X
    <3>1. PICK y \in S \ {x}, i \in Nat : i \in 1 .. g[y] /\ u = <<y, i>>
      BY <2>1, UnitsOf
    <3> QED BY <3>1
  <2> QED BY <2>1
<1> HIDE DEF g, X
<1>6. Cardinality(Units(f)) = Cardinality(Units(g)) + Cardinality(X) - 0
  <2>1. Cardinality(Units(g) \cap X) = 0
    BY <1>5, FS_EmptySet
  <2>2. Cardinality(Units(g) \cup X) = Cardinality(Units(g)) + Cardinality(X) - Cardinality(Units(g) \cap X)
    BY <1>2, <1>3, FS_Union
  <2> QED BY <1>4, <2>1, <2>2
<1>7. Cardinality(Units(g)) \in Nat
  BY <1>2, FS_CardinalityType
<1>8. Sum(f) = Sum(g) + f[x]
  BY <1>3, <1>6, <1>7 DEF Sum
<1> QED BY <1>8 DEF g

(* When one counter changes, the sum changes by as much. *)
LEMMA SumUpdate ==
  ASSUME NEW S, IsFiniteSet(S), NEW f \in [S -> Nat], NEW g \in [S -> Nat], NEW x \in S,
         \A y \in S \ {x} : g[y] = f[y]
  PROVE  Sum(g) = Sum(f) - f[x] + g[x]
<1>1. [y \in S \ {x} |-> g[y]] = [y \in S \ {x} |-> f[y]]
  OBVIOUS
<1> DEFINE r == Sum([y \in S \ {x} |-> f[y]])
<1>2. Sum(f) = r + f[x]
  BY SumSplit
<1>4. Sum(g) = r + g[x]
  <2>1. Sum(g) = Sum([y \in S \ {x} |-> g[y]]) + g[x]
    BY SumSplit
  <2> QED BY <1>1, <2>1
<1>3. r \in Nat
  <2>1. IsFiniteSet(S \ {x}) /\ [y \in S \ {x} |-> f[y]] \in [S \ {x} -> Nat]
    BY FS_RemoveElement
  <2> QED BY <2>1, SumType
<1> HIDE DEF r
<1> QED BY <1>2, <1>3, <1>4

(* A sum of zeros. *)
LEMMA SumZero ==
  ASSUME NEW S, NEW f, DOMAIN f = S, \A x \in S : f[x] = 0
  PROVE  Sum(f) = 0
<1>1. Units(f) = {}
  BY UnitsOf
<1> QED BY <1>1, FS_EmptySet DEF Sum

(* Larger counters have a larger sum. *)
LEMMA SumBelow ==
  ASSUME NEW S, IsFiniteSet(S), NEW f \in [S -> Nat], NEW g \in [S -> Nat],
         \A x \in S : f[x] <= g[x]
  PROVE  Sum(f) <= Sum(g)
<1>1. Units(f) \subseteq Units(g)
  <2> SUFFICES ASSUME NEW u \in Units(f) PROVE u \in Units(g)
    OBVIOUS
  <2>1. PICK x \in S, i \in Nat : i \in 1 .. f[x] /\ u = <<x, i>>
    BY UnitsOf
  <2>2. i \in 1 .. g[x]
    BY <2>1
  <2> QED BY <2>1, <2>2, UnitsOf
<1> QED BY <1>1, SumType, FS_Subset DEF Sum

(* The sum of two tables, counter by counter. *)
LEMMA SumAdd ==
  ASSUME NEW S, IsFiniteSet(S), NEW f \in [S -> Nat], NEW g \in [S -> Nat]
  PROVE  Sum([x \in S |-> f[x] + g[x]]) = Sum(f) + Sum(g)
<1> DEFINE h == [x \in S |-> f[x] + g[x]]
           D == Units(h) \ Units(f)
<1>1. h \in [S -> Nat] /\ DOMAIN h = S
  OBVIOUS
<1>2. Units(f) \subseteq Units(h)
  <2> SUFFICES ASSUME NEW u \in Units(f) PROVE u \in Units(h)
    OBVIOUS
  <2>1. PICK x \in S, i \in Nat : i \in 1 .. f[x] /\ u = <<x, i>>
    BY UnitsOf
  <2>2. i \in 1 .. h[x]
    BY <2>1
  <2> QED BY <1>1, <2>1, <2>2, UnitsOf
<1>3. IsFiniteSet(Units(h)) /\ IsFiniteSet(Units(f)) /\ IsFiniteSet(Units(g))
  <2> HIDE DEF h
  <2> QED BY <1>1, SumType
<1>4. Cardinality(Units(h)) = Cardinality(Units(f)) + Cardinality(D) /\ IsFiniteSet(D)
  <2>1. Units(h) \cap Units(f) = Units(f)
    BY <1>2
  <2>2. Cardinality(D) = Cardinality(Units(h)) - Cardinality(Units(f)) /\ IsFiniteSet(D)
    BY <1>3, <2>1, FS_Difference
  <2>3. /\ Cardinality(Units(h)) \in Nat /\ Cardinality(Units(f)) \in Nat
    BY <1>3, FS_CardinalityType
  <2> HIDE DEF h, D
  <2> QED BY <2>2, <2>3
<1> DEFINE shift == [u \in Units(g) |-> <<u[1], f[u[1]] + u[2]>>]
<1>5. shift \in Bijection(Units(g), D)
  <2>1. ASSUME NEW u \in Units(g) PROVE shift[u] \in D
    <3>1. PICK x \in S, i \in Nat : i \in 1 .. g[x] /\ u = <<x, i>>
      BY <2>1, UnitsOf
    <3>2. shift[u] = <<x, f[x] + i>>
      BY <3>1
    <3>3. f[x] + i \in 1 .. h[x] /\ f[x] + i \notin 1 .. f[x]
      BY <3>1
    <3>4. <<x, f[x] + i>> \in Units(h)
      BY <1>1, <3>3, UnitsOf
    <3>5. <<x, f[x] + i>> \notin Units(f)
      BY <3>3, UnitsOf
    <3> QED BY <3>2, <3>4, <3>5
  <2>2. ASSUME NEW u \in Units(g), NEW v \in Units(g), shift[u] = shift[v] PROVE u = v
    <3>1. PICK x \in S, i \in Nat : i \in 1 .. g[x] /\ u = <<x, i>>
      BY <2>2, UnitsOf
    <3>2. PICK y \in S, j \in Nat : j \in 1 .. g[y] /\ v = <<y, j>>
      BY <2>2, UnitsOf
    <3>3. shift[u] = <<x, f[x] + i>> /\ shift[v] = <<y, f[y] + j>>
      BY <3>1, <3>2
    <3>4. x = y /\ f[x] + i = f[x] + j
      BY <2>2, <3>3
    <3> QED BY <3>1, <3>2, <3>4
  <2>3. ASSUME NEW w \in D PROVE \E u \in Units(g) : shift[u] = w
    <3>1. PICK x \in S, i \in Nat : i \in 1 .. h[x] /\ w = <<x, i>>
      BY <1>1, <2>3, UnitsOf
    <3>2. i \notin 1 .. f[x]
      BY <2>3, <3>1, UnitsOf
    <3>3. i - f[x] \in 1 .. g[x] /\ f[x] + (i - f[x]) = i
      BY <3>1, <3>2
    <3>4. <<x, i - f[x]>> \in Units(g)
      BY <3>3, UnitsOf
    <3>5. shift[<<x, i - f[x]>>] = w
      BY <3>1, <3>3, <3>4
    <3> QED BY <3>4, <3>5
  <2>4. shift \in [Units(g) -> D]
    BY <2>1
  <2> HIDE DEF shift, D
  <2>5. shift \in Injection(Units(g), D)
    BY <2>2, <2>4 DEF Injection, IsInjective
  <2>6. shift \in Surjection(Units(g), D)
    BY <2>3, <2>4 DEF Surjection
  <2> QED BY <2>5, <2>6 DEF Bijection
<1>6. Cardinality(D) = Cardinality(Units(g))
  <2>1. ExistsBijection(Units(g), D)
    <3> HIDE DEF shift, D
    <3> QED BY <1>5 DEF ExistsBijection
  <2> HIDE DEF D
  <2> QED BY <1>3, <2>1, FS_Bijection
<1> HIDE DEF h, D
<1>7. Sum(h) = Sum(f) + Sum(g)
  BY <1>4, <1>6 DEF Sum
<1> QED BY <1>7 DEF h
=============================================================================
