----------------------------- MODULE DataLemmas ------------------------------
(***************************************************************************)
(* Facts about data that several proofs need: least and largest members of *)
(* finite sets, sorted numbers, and what the folds of the community        *)
(* modules compute, in a form the provers can use (the step of a fold is a *)
(* function on a set of states, and induction is over sets of numbers).    *)
(***************************************************************************)
EXTENDS Collections, SequencesExt, Integers, FiniteSetTheorems, SequenceTheorems, TLAPS

(* A set of naturals with 0 and the successor of each member is all of     *)
(* them: otherwise the least number left out would have a predecessor.     *)
LEMMA SetInduction ==
  ASSUME NEW Good \in SUBSET Nat, 0 \in Good, \A n \in Good : n + 1 \in Good
  PROVE  Good = Nat
<1>1. SUFFICES ASSUME Nat \ Good # {} PROVE FALSE
  OBVIOUS
<1> DEFINE R == {pair \in Nat \X Nat : pair[1] < pair[2]}
<1>0. IsWellFoundedOn(R, Nat)
  BY NatLessThanWellFounded DEF OpToRel
<1>2. PICK m \in Nat \ Good : \A y \in Nat \ Good : ~ (<<y, m>> \in R)
  <2> HIDE DEF R
  <2> QED BY <1>0, <1>1, WFMin
<1>3. m # 0 /\ m - 1 \in Nat /\ m - 1 < m
  BY <1>2
<1>4. m - 1 \in Nat \ Good
  BY <1>2, <1>3
<1>5. <<m - 1, m>> \in R
  BY <1>2, <1>3
<1> QED
  BY <1>2, <1>4, <1>5

(* A finite set of numbers, if there is one in it, has a largest one and a *)
(* least one, and that is what Max and Min return.                         *)
LEMMA FiniteMax ==
  ASSUME NEW S \in SUBSET Int, IsFiniteSet(S), S # {}
  PROVE  Max(S) \in S /\ \A x \in S : x <= Max(S)
<1> DEFINE Good == {n \in Nat : \A T \in SUBSET S : Cardinality(T) = n + 1 =>
                                    \E m \in T : \A x \in T : x <= m}
<1>1. 0 \in Good
  <2> SUFFICES ASSUME NEW T \in SUBSET S, Cardinality(T) = 1
               PROVE \E m \in T : \A x \in T : x <= m
    OBVIOUS
  <2> IsFiniteSet(T)
    BY FS_Subset
  <2> PICK m : T = {m}
    BY FS_Singleton
  <2> QED
    BY m \in Int
<1>2. ASSUME NEW n \in Good PROVE n + 1 \in Good
  <2> SUFFICES ASSUME NEW T \in SUBSET S, Cardinality(T) = n + 2
               PROVE \E m \in T : \A x \in T : x <= m
    OBVIOUS
  <2>0. n \in Nat /\ n + 2 # 0
    OBVIOUS
  <2>1. IsFiniteSet(T) /\ n \in Nat /\ Cardinality(T) # 0
    BY <2>0, FS_Subset
  <2>2. PICK z \in T : TRUE
    <3>1. T # {}
      BY <2>1, FS_EmptySet
    <3> QED BY <3>1
  <2>3. Cardinality(T \ {z}) = Cardinality(T) - 1
    BY <2>1, <2>2, FS_RemoveElement
  <2>4. PICK m \in T \ {z} : \A x \in T \ {z} : x <= m
    <3>1. Cardinality(T \ {z}) = n + 1
      BY <2>1, <2>3
    <3> QED BY <3>1
  <2>5. CASE z <= m
    BY <2>4, <2>5
  <2>6. CASE m <= z
    <3>1. \A x \in T : x <= z
      BY <2>2, <2>4, <2>6
    <3> QED BY <2>2, <3>1
  <2> QED
    BY <2>2, <2>4, <2>5, <2>6
<1>3. Good = Nat
  <2> HIDE DEF Good
  <2>1. Good \in SUBSET Nat
    BY DEF Good
  <2> QED BY <1>1, <1>2, <2>1, SetInduction
<1>4. Cardinality(S) \in Nat /\ Cardinality(S) # 0
  BY FS_CardinalityType, FS_EmptySet
<1>5. PICK k \in Nat : Cardinality(S) = k + 1
  BY <1>4
<1>6. \E m \in S : \A x \in S : x <= m
  <2>1. k \in Good
    BY <1>3
  <2> QED BY <1>5, <2>1
<1>7. \E m \in S : \A y \in S : m >= y
  BY <1>6
<1> QED
  BY <1>7 DEF Max

LEMMA PairIsFinite ==
  ASSUME NEW a, NEW b
  PROVE  IsFiniteSet({a, b})
<1>1. {a, b} = {a} \cup {b}
  OBVIOUS
<1>2. IsFiniteSet({a})
  BY FS_Singleton
<1>3. IsFiniteSet({a} \cup {b})
  BY <1>2, FS_AddElement
<1> QED
  BY <1>1, <1>3

LEMMA FiniteMin ==
  ASSUME NEW S \in SUBSET Int, IsFiniteSet(S), S # {}
  PROVE  Min(S) \in S /\ \A x \in S : Min(S) <= x
<1> DEFINE Neg == [x \in S |-> -x]
           T == {-x : x \in S}
<1>1. Neg \in Surjection(S, T)
  BY DEF Surjection
<1>2. IsFiniteSet(T) /\ T # {} /\ T \in SUBSET Int
  <2>1. T # {} /\ T \in SUBSET Int
    OBVIOUS
  <2> HIDE DEF T, Neg
  <2>2. IsFiniteSet(T)
    BY <1>1, FS_Surjection
  <2> QED BY <2>1, <2>2
<1>3. PICK m \in S : Max(T) = -m
  BY <1>2, FiniteMax
<1>4. \A x \in S : m <= x
  <2> TAKE x \in S
  <2>1. -x <= Max(T)
    BY <1>2, FiniteMax
  <2> QED BY <1>3, <2>1
<1> QED
  BY <1>4 DEF Min

(* The least of a few numbers is one of them and exceeds none.             *)
LEMMA MinOfFour ==
  ASSUME NEW a \in Int, NEW b \in Int, NEW c \in Int, NEW d \in Int
  PROVE  /\ Min({a, b, c, d}) \in {a, b, c, d} /\ Min({a, b, c, d}) \in Int
         /\ Min({a, b, c, d}) <= a /\ Min({a, b, c, d}) <= b
         /\ Min({a, b, c, d}) <= c /\ Min({a, b, c, d}) <= d
<1> DEFINE S == {a, b, c, d}
<1>1. IsFiniteSet({a, b}) /\ IsFiniteSet({c, d})
  BY PairIsFinite
<1>2. IsFiniteSet({a, b} \cup {c, d}) /\ {a, b} \cup {c, d} = S
  BY <1>1, FS_Union
<1>3. IsFiniteSet(S) /\ S # {} /\ S \in SUBSET Int
  BY <1>2
<1>4. Min(S) \in S /\ \A x \in S : Min(S) <= x
  <2> HIDE DEF S
  <2> QED BY <1>3, FiniteMin
<1> QED
  BY <1>4

LEMMA MinOfThree ==
  ASSUME NEW a \in Int, NEW b \in Int, NEW c \in Int
  PROVE  /\ Min({a, b, c}) \in {a, b, c} /\ Min({a, b, c}) \in Int
         /\ Min({a, b, c}) <= a /\ Min({a, b, c}) <= b /\ Min({a, b, c}) <= c
<1> DEFINE m == Min({a, b, c, c})
<1>1. /\ m \in {a, b, c, c} /\ m \in Int /\ m <= a /\ m <= b /\ m <= c
  BY MinOfFour
<1>2. {a, b, c, c} = {a, b, c}
  OBVIOUS
<1> QED
  BY <1>1, <1>2

LEMMA MinOfTwo ==
  ASSUME NEW a \in Int, NEW b \in Int
  PROVE  Min({a, b}) = IF a <= b THEN a ELSE b
<1> DEFINE m == Min({a, b, b})
<1>1. m \in {a, b, b} /\ m <= a /\ m <= b
  BY MinOfThree
<1>2. {a, b, b} = {a, b}
  OBVIOUS
<1> QED
  BY <1>1, <1>2

LEMMA MaxOfTwo ==
  ASSUME NEW a \in Int, NEW b \in Int
  PROVE  Max({a, b}) = IF a >= b THEN a ELSE b
<1>1. IsFiniteSet({a, b})
  BY PairIsFinite
<1>2. {a, b} \in SUBSET Int /\ {a, b} # {}
  OBVIOUS
<1> QED
  BY <1>1, <1>2, FiniteMax

(* What may be taken of a budget in equal parts.                           *)
LEMMA Quotients ==
  ASSUME NEW a \in Nat, NEW b \in Nat \ {0}
  PROVE  /\ a \div b \in Nat /\ b * (a \div b) <= a
         /\ \A c \in Nat : b * c <= a => c <= a \div b
<1> DEFINE q == a \div b
           r == a % b
<1>1. q \in Nat /\ r \in Nat /\ r < b /\ a = q * b + r
  OBVIOUS
<1>2. b * q <= a
  <2> HIDE DEF q, r
  <2>1. b * q = q * b
    BY <1>1
  <2> QED BY <1>1, <2>1
<1>3. ASSUME NEW c \in Nat, b * c <= a, ~(c <= q) PROVE FALSE
  <2> HIDE DEF q, r
  <2>1. c >= q + 1
    BY <1>1, <1>3
  <2> DEFINE d == c - (q + 1)
  <2>2. d \in Nat /\ c = q + 1 + d
    BY <1>1, <2>1
  <2> HIDE DEF d
  <2>3. b * c = q * b + b + b * d
    BY <1>1, <2>2
  <2>4. b * d \in Nat
    BY <2>2
  <2>5. q * b \in Nat
    BY <1>1
  <2> QED BY <1>1, <1>3, <2>3, <2>4, <2>5
<1> QED
  BY <1>1, <1>2, <1>3

(* The numbers of a finite set in their order are numbers of that set:     *)
(* each place is held by someone, since up to the largest there are all.   *)
LEMMA AscendingType ==
  ASSUME NEW S \in SUBSET Nat, IsFiniteSet(S)
  PROVE  /\ Cardinality(S) \in Nat
         /\ Ascending(S) \in [1 .. Cardinality(S) -> S]
<1> DEFINE High(k) == {n \in S : Cardinality({m \in S : m <= n}) >= k}
<1>1. Cardinality(S) \in Nat
  BY FS_CardinalityType
<1>2. ASSUME NEW k \in 1 .. Cardinality(S) PROVE Min(High(k)) \in S
  <2>1. S # {} /\ S \in SUBSET Int
    BY <1>1, FS_EmptySet
  <2>2. {m \in S : m <= Max(S)} = S /\ Max(S) \in S
    BY <2>1, FiniteMax
  <2>3. Max(S) \in High(k)
    BY <1>1, <2>2
  <2>4. High(k) \in SUBSET S
    OBVIOUS
  <2> HIDE DEF High
  <2>5. High(k) # {} /\ IsFiniteSet(High(k)) /\ High(k) \in SUBSET Int
    BY <2>1, <2>3, <2>4, FS_Subset
  <2>6. Min(High(k)) \in High(k)
    BY <2>5, FiniteMin
  <2> QED BY <2>4, <2>6
<1> QED
  BY <1>1, <1>2 DEF Ascending

LEMMA SortedType ==
  ASSUME NEW sizes \in Seq(Nat)
  PROVE  Sorted(sizes) \in [1 .. Len(sizes) -> Nat]
<1> DEFINE n == Len(sizes)
           UpTo(v) == {i \in DOMAIN sizes : sizes[i] <= v}
           High(k) == {v \in Range(sizes) : Cardinality(UpTo(v)) >= k}
<1>1. n \in Nat /\ sizes \in [1 .. n -> Nat] /\ DOMAIN sizes = 1 .. n
  BY LenProperties
<1>2. ASSUME NEW k \in 1 .. n PROVE Min(High(k)) \in Nat
  <2> HIDE DEF n
  <2>0. IsFiniteSet(1 .. n) /\ Cardinality(1 .. n) = n
    <3>1. 1 \in Int /\ n \in Int
      BY <1>1
    <3> QED BY <1>1, <3>1, FS_Interval
  <2>1. Range(sizes) \in SUBSET Nat /\ Range(sizes) # {}
    BY <1>1 DEF Range
  <2>2. IsFiniteSet(Range(sizes))
    <3>1. sizes \in Surjection(1 .. n, Range(sizes))
      BY <1>1 DEF Surjection, Range
    <3> QED BY <2>0, <3>1, FS_Surjection
  <2>3. /\ Max(Range(sizes)) \in Range(sizes)
        /\ \A v \in Range(sizes) : v <= Max(Range(sizes))
    <3>1. Range(sizes) \in SUBSET Int
      BY <2>1
    <3> QED BY <2>1, <2>2, <3>1, FiniteMax
  <2>4. UpTo(Max(Range(sizes))) = 1 .. n
    BY <1>1, <2>3 DEF Range
  <2>5. Max(Range(sizes)) \in High(k)
    <3>1. Cardinality(UpTo(Max(Range(sizes)))) = n
      BY <2>0, <2>4
    <3> HIDE DEF UpTo
    <3> QED BY <1>1, <2>3, <3>1
  <2>6. High(k) \in SUBSET Range(sizes)
    OBVIOUS
  <2> HIDE DEF High
  <2>7. High(k) \in SUBSET Int /\ IsFiniteSet(High(k)) /\ High(k) # {}
    BY <2>1, <2>2, <2>5, <2>6, FS_Subset
  <2>8. Min(High(k)) \in High(k)
    BY <2>7, FiniteMin
  <2> QED BY <2>1, <2>6, <2>8
<1> QED
  BY <1>1, <1>2 DEF Sorted

(* A function to the naturals is least somewhere.                          *)
LEMMA LeastValue ==
  ASSUME NEW S, S # {}, NEW f, \A x \in S : f[x] \in Nat
  PROVE  \E t \in S : \A u \in S : f[t] <= f[u]
<1> DEFINE R == {pair \in Nat \X Nat : pair[1] < pair[2]}
           T == {f[x] : x \in S}
<1>1. IsWellFoundedOn(R, Nat)
  BY NatLessThanWellFounded DEF OpToRel
<1>2. T \subseteq Nat /\ T # {}
  OBVIOUS
<1>3. PICK m \in T : \A y \in T : ~ (<<y, m>> \in R)
  <2> HIDE DEF R, T
  <2> QED BY <1>1, <1>2, WFMin
<1>4. PICK t \in S : m = f[t]
  BY <1>3
<1>5. ASSUME NEW u \in S PROVE f[t] <= f[u]
  <2>1. f[u] \in T /\ f[u] \in Nat /\ f[t] \in Nat
    OBVIOUS
  <2>2. ~ (f[u] < f[t])
    BY <1>3, <1>4, <2>1
  <2> QED BY <2>1, <2>2
<1> QED
  BY <1>5

(* pick chooses an element of every part of D that has one.                *)
Picks(pick, D) == \A s \in SUBSET D : s # {} => pick[s] \in s

(* g is the fold of f over the parts of D, as long as it is in St.         *)
Folds(g, f, pick, base, D, St) ==
  /\ g[{}] = base
  /\ \A s \in SUBSET D : s # {} /\ g[s \ {pick[s]}] \in St =>
       g[s] = f[<<g[s \ {pick[s]}], pick[s]>>]

(* A fold over a finite set, that takes the element picked from what is    *)
(* left, is well defined: the recursion by which the modules define it has *)
(* a solution.                                                             *)
LEMMA FoldExists ==
  ASSUME NEW D, IsFiniteSet(D), NEW pick, NEW St, NEW base \in St,
         Picks(pick, D),
         NEW f \in [St \X D -> St]
  PROVE  \E g \in [SUBSET D -> St] : Folds(g, f, pick, base, D, St)
<1> DEFINE Small(n) == {s \in SUBSET D : Cardinality(s) <= n}
           Solves(g, n) ==
             /\ g \in [Small(n) -> St]
             /\ \A s \in Small(n) :
                  g[s] = IF s = {} THEN base ELSE f[<<g[s \ {pick[s]}], pick[s]>>]
           Good == {n \in Nat : \E g : Solves(g, n)}
<1> USE DEF Picks
<1>0. ASSUME NEW n \in Nat, NEW s \in Small(n + 1), s # {}
      PROVE  s \ {pick[s]} \in Small(n) /\ pick[s] \in D
  <2>1. IsFiniteSet(s)
    BY FS_Subset
  <2>2. Cardinality(s \ {pick[s]}) = Cardinality(s) - 1 /\ Cardinality(s) \in Nat
    BY <1>0, <2>1, FS_RemoveElement, FS_CardinalityType
  <2> QED
    BY <1>0, <2>2
<1>1. 0 \in Good
  <2>1. \A s \in Small(0) : s = {}
    BY FS_Subset, FS_EmptySet, FS_CardinalityType
  <2>2. Solves([s \in Small(0) |-> base], 0)
    BY <2>1
  <2> QED BY <2>2
<1>2. ASSUME NEW n \in Good PROVE n + 1 \in Good
  <2> PICK g : Solves(g, n)
    OBVIOUS
  <2> DEFINE h == [s \in Small(n + 1) |->
                     IF s = {} THEN base ELSE f[<<g[s \ {pick[s]}], pick[s]>>]]
  <2>1. \A s \in Small(n) : s \in Small(n + 1) /\ h[s] = g[s]
    <3> TAKE s \in Small(n)
    <3>1. Cardinality(s) \in Nat
      BY FS_Subset, FS_CardinalityType
    <3> QED BY <3>1
  <2>2. h \in [Small(n + 1) -> St]
    <3> SUFFICES ASSUME NEW s \in Small(n + 1), s # {}
                 PROVE  f[<<g[s \ {pick[s]}], pick[s]>>] \in St
      OBVIOUS
    <3>1. s \ {pick[s]} \in Small(n) /\ pick[s] \in D
      BY <1>0
    <3>2. <<g[s \ {pick[s]}], pick[s]>> \in St \X D
      BY <3>1
    <3> HIDE DEF Small
    <3> QED BY <3>2
  <2>3. \A s \in Small(n + 1) :
          h[s] = IF s = {} THEN base ELSE f[<<h[s \ {pick[s]}], pick[s]>>]
    <3> TAKE s \in Small(n + 1)
    <3>1. CASE s = {}
      BY <3>1
    <3>2. CASE s # {}
      <4>1. h[s \ {pick[s]}] = g[s \ {pick[s]}]
        BY <1>0, <2>1, <3>2
      <4> QED BY <3>2, <4>1
    <3> QED BY <3>1, <3>2
  <2>4. Solves(h, n + 1)
    BY <2>2, <2>3
  <2> HIDE DEF Solves, h
  <2> QED BY <2>4
<1>3. Good = Nat
  <2> HIDE DEF Good
  <2>1. Good \in SUBSET Nat
    BY DEF Good
  <2> QED BY <1>1, <1>2, <2>1, SetInduction
<1>4. Cardinality(D) \in Nat
  BY FS_CardinalityType
<1>5. Small(Cardinality(D)) = SUBSET D
  BY FS_Subset
<1>6. PICK g : Solves(g, Cardinality(D))
  BY <1>3, <1>4
<1>7. /\ g \in [SUBSET D -> St]
      /\ \A s \in SUBSET D :
           g[s] = IF s = {} THEN base ELSE f[<<g[s \ {pick[s]}], pick[s]>>]
  BY <1>5, <1>6
<1> QED
  BY <1>7 DEF Folds

(* Whatever satisfies that recursion stays in the states, and each of its  *)
(* values is one step from that of the set with one element less.          *)
LEMMA FoldStays ==
  ASSUME NEW D, IsFiniteSet(D), NEW pick, NEW St, NEW base \in St,
         Picks(pick, D),
         NEW f \in [St \X D -> St], NEW g, Folds(g, f, pick, base, D, St)
  PROVE  \A s \in SUBSET D : g[s] \in St
<1> DEFINE Good == {n \in Nat : \A s \in SUBSET D : Cardinality(s) = n => g[s] \in St}
<1>1. 0 \in Good
  BY FS_Subset, FS_EmptySet DEF Folds
<1>2. ASSUME NEW n \in Good PROVE n + 1 \in Good
  <2> SUFFICES ASSUME NEW s \in SUBSET D, Cardinality(s) = n + 1 PROVE g[s] \in St
    OBVIOUS
  <2>1. IsFiniteSet(s) /\ s # {}
    BY FS_Subset, FS_EmptySet
  <2>2. pick[s] \in s /\ Cardinality(s \ {pick[s]}) = n
    <3>1. pick[s] \in s
      BY <2>1 DEF Picks
    <3>2. Cardinality(s \ {pick[s]}) = Cardinality(s) - 1
      BY <2>1, <3>1, FS_RemoveElement
    <3> QED BY <3>1, <3>2
  <2>3. g[s \ {pick[s]}] \in St /\ pick[s] \in D
    BY <2>2
  <2>4. g[s] = f[<<g[s \ {pick[s]}], pick[s]>>]
    BY <2>1, <2>3 DEF Folds
  <2> QED BY <2>3, <2>4
<1>3. Good = Nat
  <2> HIDE DEF Good
  <2>1. Good \in SUBSET Nat
    BY DEF Good
  <2> QED BY <1>1, <1>2, <2>1, SetInduction
<1> QED
  BY <1>3, FS_Subset, FS_CardinalityType
-----------------------------------------------------------------------------
(* Sums                                                                    *)

(* The recursion a sum over a finite set is defined by has a solution:     *)
(* nothing for the empty set, else the element picked and the rest.        *)
SumOver(fun, D) ==
  CHOOSE g : g = [s \in SUBSET D |->
                    IF s = {} THEN 0
                    ELSE LET x == CHOOSE x \in s : TRUE IN fun[x] + g[s \ {x}]]

LEMMA SumRecursion ==
  ASSUME NEW D, IsFiniteSet(D), NEW fun, \A x \in D : fun[x] \in Nat
  PROVE  /\ SumFunctionOnSet(fun, D) = SumOver(fun, D)[D]
         /\ \A s \in SUBSET D : SumOver(fun, D)[s] \in Nat
         /\ SumOver(fun, D)[{}] = 0
         /\ \A s \in SUBSET D : s # {} =>
              LET x == CHOOSE x \in s : TRUE
              IN  SumOver(fun, D)[s] = fun[x] + SumOver(fun, D)[s \ {x}]
<1> DEFINE pick == [s \in SUBSET D |-> CHOOSE x \in s : TRUE]
           St == Nat
           base == 0
           f == [p \in St \X D |-> fun[p[2]] + p[1]]
           Next(g, s) == LET x == CHOOSE x \in s : TRUE IN fun[x] + g[s \ {x}]
           Sum == SumOver(fun, D)
<1>1. Picks(pick, D)
  BY DEF Picks
<1>2. f \in [St \X D -> St] /\ base \in St
  OBVIOUS
<1>3. PICK g \in [SUBSET D -> St] : Folds(g, f, pick, base, D, St)
  <2> HIDE DEF pick, f, St, base
  <2> QED BY <1>1, <1>2, FoldExists
<1>4. ASSUME NEW s \in SUBSET D, s # {} PROVE g[s] = Next(g, s)
  <2>1. pick[s] \in D /\ g[s \ {pick[s]}] \in Nat
    BY <1>1, <1>4 DEF Picks
  <2>2. g[s] = fun[pick[s]] + g[s \ {pick[s]}]
    BY <1>3, <1>4, <2>1 DEF Folds
  <2> QED BY <2>2
<1>5. g = [s \in SUBSET D |-> IF s = {} THEN 0 ELSE Next(g, s)]
  <2> HIDE DEF Next
  <2> QED BY <1>3, <1>4 DEF Folds
<1>6. Sum = [s \in SUBSET D |-> IF s = {} THEN 0 ELSE Next(Sum, s)]
  BY <1>5, Zenon DEF SumOver
<1>7. \A s \in SUBSET D : Sum[s] \in St
  <2>1. Folds(Sum, f, pick, base, D, St)
    BY <1>6 DEF Folds
  <2> HIDE DEF pick, f, Sum, St, base
  <2> QED BY <1>1, <1>2, <2>1, FoldStays
<1>8. SumFunctionOnSet(fun, D) = Sum[D]
  BY Zenon DEF SumFunctionOnSet, FoldFunctionOnSet, MapThenFoldSet, SumOver
<1> QED
  BY <1>6, <1>7, <1>8

LEMMA SumType ==
  ASSUME NEW n \in Nat, NEW fun \in [1 .. n -> Nat]
  PROVE  SumFunction(fun) \in Nat
<1>1. IsFiniteSet(1 .. n) /\ DOMAIN fun = 1 .. n /\ \A x \in 1 .. n : fun[x] \in Nat
  <2>1. IsFiniteSet(1 .. n)
    BY FS_Interval
  <2> QED BY <2>1
<1>2. SumFunctionOnSet(fun, 1 .. n) = SumOver(fun, 1 .. n)[1 .. n]
  BY <1>1, SumRecursion
<1>3. SumOver(fun, 1 .. n)[1 .. n] \in Nat
  BY <1>1, SumRecursion
<1> QED
  BY <1>1, <1>2, <1>3 DEF SumFunction

LEMMA SumOfNone ==
  ASSUME NEW fun, DOMAIN fun = {}
  PROVE  SumFunction(fun) = 0
<1>1. IsFiniteSet({}) /\ \A x \in {} : fun[x] \in Nat
  BY FS_EmptySet
<1>2. SumFunctionOnSet(fun, {}) = SumOver(fun, {})[{}] /\ SumOver(fun, {})[{}] = 0
  BY <1>1, SumRecursion
<1> QED
  BY <1>2 DEF SumFunction

(* The sum over a set does not depend on the order in which the definition *)
(* picks the elements: any of them can be taken out first.                 *)
LEMMA SumSplit ==
  ASSUME NEW D, IsFiniteSet(D), NEW fun, \A x \in D : fun[x] \in Nat
  PROVE  \A s \in SUBSET D : \A x \in s :
           SumOver(fun, D)[s] = fun[x] + SumOver(fun, D)[s \ {x}]
<1> DEFINE S == SumOver(fun, D)
           First(s) == CHOOSE x \in s : TRUE
           Good == {n \in Nat : \A s \in SUBSET D : Cardinality(s) = n =>
                                  \A x \in s : S[s] = fun[x] + S[s \ {x}]}
<1>1. /\ \A s \in SUBSET D : S[s] \in Nat
      /\ \A s \in SUBSET D : s # {} => S[s] = fun[First(s)] + S[s \ {First(s)}]
  BY SumRecursion
<1> HIDE DEF S
<1>2. \A s \in SUBSET D : IsFiniteSet(s) /\ (s # {} => First(s) \in s)
  BY FS_Subset
<1> HIDE DEF First
<1>3. 0 \in Good
  BY <1>2, FS_EmptySet
<1>4. ASSUME NEW n \in Good PROVE n + 1 \in Good
  <2> SUFFICES ASSUME NEW s \in SUBSET D, Cardinality(s) = n + 1, NEW x \in s
               PROVE  S[s] = fun[x] + S[s \ {x}]
    OBVIOUS
  <2> DEFINE c == First(s)
             rest == s \ {c, x}
  <2>1. c \in s /\ S[s] = fun[c] + S[s \ {c}]
    BY <1>1, <1>2
  <2> HIDE DEF c
  <2>2. CASE c = x
    BY <2>1, <2>2
  <2>3. CASE c # x
    <3>1. Cardinality(s \ {c}) = n /\ Cardinality(s \ {x}) = n
      <4>1. Cardinality(s \ {c}) = Cardinality(s) - 1
        BY <1>2, <2>1, FS_RemoveElement
      <4>2. Cardinality(s \ {x}) = Cardinality(s) - 1
        BY <1>2, FS_RemoveElement
      <4> QED BY <4>1, <4>2
    <3>2. /\ s \ {c} \in SUBSET D /\ x \in s \ {c} /\ (s \ {c}) \ {x} = rest
          /\ s \ {x} \in SUBSET D /\ c \in s \ {x} /\ (s \ {x}) \ {c} = rest
      BY <2>1, <2>3
    <3>3. S[s \ {c}] = fun[x] + S[rest]
      BY <3>1, <3>2
    <3>4. S[s \ {x}] = fun[c] + S[rest]
      BY <3>1, <3>2
    <3>5. fun[c] \in Nat /\ fun[x] \in Nat /\ S[rest] \in Nat
      BY <1>1, <2>1
    <3> HIDE DEF rest
    <3> QED BY <2>1, <3>3, <3>4, <3>5
  <2> QED BY <2>2, <2>3
<1>5. Good = Nat
  <2> HIDE DEF Good
  <2>1. Good \in SUBSET Nat
    BY DEF Good
  <2> QED BY <1>3, <1>4, <2>1, SetInduction
<1> QED
  <2> SUFFICES ASSUME NEW s \in SUBSET D, NEW x \in s
               PROVE  S[s] = fun[x] + S[s \ {x}]
    BY DEF S
  <2>1. Cardinality(s) \in Good
    BY <1>2, <1>5, FS_CardinalityType
  <2> QED BY <2>1

(* Nor does it depend on the set that the recursion started from.          *)
LEMMA SumWithin ==
  ASSUME NEW D, IsFiniteSet(D), NEW fun, \A x \in D : fun[x] \in Nat,
         NEW E \in SUBSET D
  PROVE  SumFunctionOnSet(fun, E) = SumOver(fun, D)[E]
<1> DEFINE S == SumOver(fun, D)
           T == SumOver(fun, E)
           First(s) == CHOOSE x \in s : TRUE
           Good == {n \in Nat : \A s \in SUBSET E : Cardinality(s) = n => T[s] = S[s]}
<1>1. IsFiniteSet(E) /\ \A x \in E : fun[x] \in Nat
  BY FS_Subset
<1>2. /\ S[{}] = 0
      /\ \A s \in SUBSET D : s # {} => S[s] = fun[First(s)] + S[s \ {First(s)}]
  BY SumRecursion
<1>3. /\ SumFunctionOnSet(fun, E) = T[E] /\ T[{}] = 0
      /\ \A s \in SUBSET E : s # {} => T[s] = fun[First(s)] + T[s \ {First(s)}]
  BY <1>1, SumRecursion
<1> HIDE DEF S, T
<1>4. \A s \in SUBSET E : IsFiniteSet(s) /\ (s # {} => First(s) \in s)
  BY <1>1, FS_Subset
<1> HIDE DEF First
<1>5. 0 \in Good
  BY <1>2, <1>3, <1>4, FS_EmptySet
<1>6. ASSUME NEW n \in Good PROVE n + 1 \in Good
  <2> SUFFICES ASSUME NEW s \in SUBSET E, Cardinality(s) = n + 1 PROVE T[s] = S[s]
    OBVIOUS
  <2>1. s # {}
    BY FS_EmptySet
  <2>2. First(s) \in s /\ Cardinality(s \ {First(s)}) = Cardinality(s) - 1
    BY <1>4, <2>1, FS_RemoveElement
  <2>3. T[s \ {First(s)}] = S[s \ {First(s)}]
    <3>1. Cardinality(s \ {First(s)}) = n /\ s \ {First(s)} \in SUBSET E
      BY <2>2
    <3> QED BY <3>1
  <2> QED BY <1>2, <1>3, <2>1, <2>3
<1>7. Good = Nat
  <2> HIDE DEF Good
  <2>1. Good \in SUBSET Nat
    BY DEF Good
  <2> QED BY <1>5, <1>6, <2>1, SetInduction
<1>8. Cardinality(E) \in Good
  BY <1>1, <1>7, FS_CardinalityType
<1>9. T[E] = S[E]
  BY <1>8
<1> QED
  BY <1>3, <1>9 DEF S

(* A sum over a set is a number, nothing for the empty set, and what an    *)
(* element adds to the sum of the others.                                  *)
LEMMA SumProperties ==
  ASSUME NEW D, IsFiniteSet(D), NEW fun, \A x \in D : fun[x] \in Nat
  PROVE  /\ SumFunctionOnSet(fun, D) \in Nat
         /\ D = {} => SumFunctionOnSet(fun, D) = 0
         /\ \A x \in D :
              SumFunctionOnSet(fun, D) = SumFunctionOnSet(fun, D \ {x}) + fun[x]
<1> DEFINE S == SumOver(fun, D)
<1>1. /\ SumFunctionOnSet(fun, D) = S[D] /\ S[{}] = 0
      /\ \A s \in SUBSET D : S[s] \in Nat
  BY SumRecursion
<1>2. \A x \in D : S[D] = fun[x] + S[D \ {x}]
  BY SumSplit
<1>3. \A x \in D : SumFunctionOnSet(fun, D \ {x}) = S[D \ {x}]
  BY SumWithin
<1> HIDE DEF S
<1>4. \A x \in D : S[D \ {x}] \in Nat /\ fun[x] \in Nat
  BY <1>1
<1>5. SumFunctionOnSet(fun, D) \in Nat /\ (D = {} => SumFunctionOnSet(fun, D) = 0)
  BY <1>1
<1>6. \A x \in D : SumFunctionOnSet(fun, D) = SumFunctionOnSet(fun, D \ {x}) + fun[x]
  <2> TAKE x \in D
  <2>1. SumFunctionOnSet(fun, D) = fun[x] + S[D \ {x}]
    BY <1>1, <1>2
  <2>2. SumFunctionOnSet(fun, D \ {x}) = S[D \ {x}]
    BY <1>3
  <2>3. S[D \ {x}] \in Nat /\ fun[x] \in Nat
    BY <1>4
  <2> QED BY <2>1, <2>2, <2>3
<1> QED
  BY <1>5, <1>6

(* Terms that do not exceed a bound sum up to so many times the bound.     *)
LEMMA SumBelow ==
  ASSUME NEW D, IsFiniteSet(D), NEW fun, NEW c \in Nat,
         \A x \in D : fun[x] \in Nat /\ fun[x] <= c
  PROVE  /\ SumFunctionOnSet(fun, D) \in Nat
         /\ SumFunctionOnSet(fun, D) <= c * Cardinality(D)
<1> DEFINE Small(s) == SumFunctionOnSet(fun, s) \in Nat
                       /\ SumFunctionOnSet(fun, s) <= c * Cardinality(s)
           Good == {n \in Nat : \A s \in SUBSET D : Cardinality(s) = n => Small(s)}
<1>1. \A s \in SUBSET D : /\ IsFiniteSet(s) /\ Cardinality(s) \in Nat
                          /\ \A x \in s : fun[x] \in Nat
  BY FS_Subset, FS_CardinalityType
<1>2. 0 \in Good
  <2> SUFFICES ASSUME NEW s \in SUBSET D, Cardinality(s) = 0 PROVE Small(s)
    OBVIOUS
  <2>1. IsFiniteSet(s) /\ s = {} /\ \A x \in s : fun[x] \in Nat
    BY <1>1, FS_EmptySet
  <2>2. SumFunctionOnSet(fun, s) = 0
    BY <2>1, SumProperties
  <2>3. c * Cardinality(s) = 0
    OBVIOUS
  <2> QED BY <2>2, <2>3
<1>3. ASSUME NEW n \in Good PROVE n + 1 \in Good
  <2> SUFFICES ASSUME NEW s \in SUBSET D, Cardinality(s) = n + 1 PROVE Small(s)
    OBVIOUS
  <2>1. IsFiniteSet(s) /\ \A x \in s : fun[x] \in Nat
    BY <1>1
  <2>2. PICK x \in s : TRUE
    BY <2>1, FS_EmptySet
  <2> DEFINE r == s \ {x}
  <2>3. r \in SUBSET D /\ Cardinality(r) = n
    <3>1. Cardinality(r) = Cardinality(s) - 1
      BY <2>1, FS_RemoveElement
    <3> QED BY <3>1
  <2>4. SumFunctionOnSet(fun, r) \in Nat /\ SumFunctionOnSet(fun, r) <= c * n
    BY <2>3
  <2>5. SumFunctionOnSet(fun, s) = SumFunctionOnSet(fun, r) + fun[x]
    BY <2>1, SumProperties
  <2>6. fun[x] \in Nat /\ fun[x] <= c
    OBVIOUS
  <2>7. c * (n + 1) = c * n + c /\ c * n \in Nat
    OBVIOUS
  <2> HIDE DEF r
  <2> QED BY <2>4, <2>5, <2>6, <2>7
<1>4. Good = Nat
  <2>1. Good \in SUBSET Nat
    OBVIOUS
  <2> HIDE DEF Good
  <2> QED BY <1>2, <1>3, <2>1, SetInduction
<1> QED
  <2> HIDE DEF Small
  <2>1. Small(D)
    BY <1>1, <1>4
  <2> QED BY <2>1 DEF Small

(* The sum over an interval grows by its last element; what comes before   *)
(* its first element can be taken off.                                     *)
LEMMA SumInterval ==
  ASSUME NEW n \in Nat, NEW fun, \A i \in 1 .. n : fun[i] \in Nat,
         NEW a \in 1 .. n + 1, NEW b \in a - 1 .. n
  PROVE  /\ SumFunctionOnSet(fun, a .. b) \in Nat
         /\ SumFunctionOnSet(fun, 1 .. b)
              = SumFunctionOnSet(fun, 1 .. a - 1) + SumFunctionOnSet(fun, a .. b)
         /\ b > 0 =>
              SumFunctionOnSet(fun, 1 .. b) = SumFunctionOnSet(fun, 1 .. b - 1) + fun[b]
<1> DEFINE S(x, y) == SumFunctionOnSet(fun, x .. y)
           Good == {m \in Nat : a - 1 + m <= n =>
                      S(1, a - 1 + m) = S(1, a - 1) + S(a, a - 1 + m)}
<1>1. ASSUME NEW x \in 1 .. n + 1, NEW y \in 0 .. n
      PROVE  /\ S(x, y) \in Nat
             /\ x > y => S(x, y) = 0
             /\ x <= y => S(x, y) = S(x, y - 1) + fun[y]
  <2> DEFINE D == x .. y
  <2>1. IsFiniteSet(D) /\ \A i \in D : fun[i] \in Nat
    <3>1. x \in Int /\ y \in Int
      OBVIOUS
    <3>2. IsFiniteSet(x .. y)
      BY <3>1, FS_Interval
    <3> QED BY <3>2
  <2>2. x > y => D = {}
    OBVIOUS
  <2>3. x <= y => y \in D /\ D \ {y} = x .. y - 1
    OBVIOUS
  <2> HIDE DEF D
  <2>4. /\ SumFunctionOnSet(fun, D) \in Nat
        /\ D = {} => SumFunctionOnSet(fun, D) = 0
        /\ \A i \in D : SumFunctionOnSet(fun, D) = SumFunctionOnSet(fun, D \ {i}) + fun[i]
    BY <2>1, SumProperties
  <2> QED BY <2>2, <2>3, <2>4 DEF D
<1> HIDE DEF S
<1>2. a - 1 \in 0 .. n /\ 1 \in 1 .. n + 1
  OBVIOUS
<1>3. 0 \in Good
  <2>1. S(a, a - 1) = 0 /\ S(1, a - 1) \in Nat
    BY <1>1, <1>2
  <2>2. a - 1 + 0 = a - 1
    OBVIOUS
  <2> QED BY <2>1, <2>2
<1>4. ASSUME NEW m \in Good PROVE m + 1 \in Good
  <2> DEFINE y == a - 1 + (m + 1)
  <2> SUFFICES ASSUME y <= n PROVE S(1, y) = S(1, a - 1) + S(a, y)
    OBVIOUS
  <2>1. y \in 0 .. n /\ y - 1 = a - 1 + m /\ a <= y /\ 1 <= y /\ y - 1 \in 0 .. n
        /\ a - 1 + m <= n
    OBVIOUS
  <2> HIDE DEF y
  <2>2. S(1, y - 1) = S(1, a - 1) + S(a, y - 1)
    BY <2>1
  <2>3. S(1, y) = S(1, y - 1) + fun[y] /\ S(a, y) = S(a, y - 1) + fun[y]
    BY <1>1, <1>2, <2>1
  <2>4. S(a, y - 1) \in Nat /\ S(1, a - 1) \in Nat /\ fun[y] \in Nat
    BY <1>1, <1>2, <2>1
  <2> QED BY <2>2, <2>3, <2>4
<1>5. Good = Nat
  <2> HIDE DEF Good
  <2>1. Good \in SUBSET Nat
    BY DEF Good
  <2> QED BY <1>3, <1>4, <2>1, SetInduction
<1>6. S(1, b) = S(1, a - 1) + S(a, b)
  <2>1. b - (a - 1) \in Nat /\ a - 1 + (b - (a - 1)) = b /\ b <= n
    OBVIOUS
  <2>2. b - (a - 1) \in Good
    BY <1>5, <2>1
  <2> QED BY <2>1, <2>2
<1>7. b \in 0 .. n /\ (b > 0 => 1 <= b)
  OBVIOUS
<1>8. S(a, b) \in Nat /\ (b > 0 => S(1, b) = S(1, b - 1) + fun[b])
  BY <1>1, <1>2, <1>7
<1> QED
  BY <1>6, <1>8 DEF S
-----------------------------------------------------------------------------
(* Sequences                                                               *)

(* A function on 1 .. n is a sequence of its values.                       *)
LEMMA LenOfFunction ==
  ASSUME NEW n \in Nat, NEW s, s = [k \in 1 .. n |-> s[k]]
  PROVE  Len(s) = n /\ s \in Seq(Range(s))
<1>1. s \in [1 .. n -> Range(s)]
  BY DEF Range
<1>2. s \in Seq(Range(s))
  BY <1>1, SeqDef
<1> QED
  BY <1>1, <1>2, LenProperties

LEMMA SeqOfFunction ==
  ASSUME NEW n \in Nat, NEW T, NEW s \in [1 .. n -> T]
  PROVE  s \in Seq(T) /\ Len(s) = n
<1>1. s \in Seq(T)
  BY SeqDef
<1>2. s = [k \in 1 .. n |-> s[k]]
  OBVIOUS
<1>3. Len(s) = n
  BY <1>2, LenOfFunction
<1> QED
  BY <1>1, <1>3

(* A sequence of sequences is flattened by one concatenation after another.*)
LEMMA FlattenPrefixes ==
  ASSUME NEW S, NEW seqs \in Seq(Seq(S)), Len(seqs) # 0
  PROVE  \E h \in [1 .. Len(seqs) -> Seq(S)] :
           /\ h[1] = seqs[1]
           /\ \A k \in 2 .. Len(seqs) : h[k] = h[k - 1] \o seqs[k]
           /\ FlattenSeq(seqs) = h[Len(seqs)]
<1> DEFINE n == Len(seqs)
           Solves(h, m) == /\ h \in [1 .. m -> Seq(S)]
                           /\ \A k \in 1 .. m :
                                h[k] = IF k = 1 THEN seqs[k] ELSE h[k - 1] \o seqs[k]
           Good == {m \in Nat : m <= n => \E h : Solves(h, m)}
<1>1. n \in Nat \ {0} /\ \A k \in 1 .. n : seqs[k] \in Seq(S)
  BY LenProperties, ElementOfSeq
<1>2. 0 \in Good
  <2>1. Solves(<<>>, 0)
    OBVIOUS
  <2> HIDE DEF Solves
  <2> QED BY <2>1
<1>3. ASSUME NEW m \in Good PROVE m + 1 \in Good
  <2> HIDE DEF n
  <2> SUFFICES ASSUME m + 1 <= n PROVE \E h : Solves(h, m + 1)
    <3> HIDE DEF Solves
    <3> QED OBVIOUS
  <2>1. PICK g : Solves(g, m)
    <3> HIDE DEF Solves
    <3> QED BY <1>1
  <2> DEFINE h == [k \in 1 .. m + 1 |-> IF k = m + 1
                                        THEN IF k = 1 THEN seqs[k] ELSE g[k - 1] \o seqs[k]
                                        ELSE g[k]]
  <2>2. \A k \in 1 .. m + 1 : h[k] \in Seq(S)
    <3> TAKE k \in 1 .. m + 1
    <3>1. CASE k # m + 1
      BY <2>1, <3>1
    <3>2. CASE k = m + 1 /\ k = 1
      BY <1>1, <3>2
    <3>3. CASE k = m + 1 /\ k # 1
      <4>1. g[k - 1] \in Seq(S) /\ seqs[k] \in Seq(S)
        BY <1>1, <2>1, <3>3
      <4>2. g[k - 1] \o seqs[k] \in Seq(S)
        BY <4>1, ConcatProperties
      <4> QED BY <3>3, <4>2
    <3> QED BY <3>1, <3>2, <3>3
  <2>3. \A k \in 1 .. m + 1 :
          h[k] = IF k = 1 THEN seqs[k] ELSE h[k - 1] \o seqs[k]
    <3> TAKE k \in 1 .. m + 1
    <3>1. CASE k # m + 1
      <4>1. k \in 1 .. m /\ (k # 1 => k - 1 \in 1 .. m /\ k - 1 \in 1 .. m + 1)
        BY <3>1
      <4>2. g[k] = IF k = 1 THEN seqs[k] ELSE g[k - 1] \o seqs[k]
        BY <2>1, <4>1
      <4>3. h[k] = g[k] /\ (k # 1 => h[k - 1] = g[k - 1])
        BY <3>1, <4>1
      <4> HIDE DEF h
      <4> QED BY <4>2, <4>3
    <3>2. CASE k = m + 1
      <4>1. k # 1 => k - 1 \in 1 .. m + 1 /\ k - 1 # m + 1
        BY <3>2
      <4>2. h[k] = IF k = 1 THEN seqs[k] ELSE g[k - 1] \o seqs[k]
        BY <3>2
      <4>3. k # 1 => h[k - 1] = g[k - 1]
        BY <4>1
      <4> HIDE DEF h
      <4> QED BY <4>2, <4>3
    <3> QED BY <3>1, <3>2
  <2>4. h \in [1 .. m + 1 -> Seq(S)]
    <3>1. h = [k \in 1 .. m + 1 |-> h[k]]
      OBVIOUS
    <3> HIDE DEF h
    <3> QED BY <2>2, <3>1
  <2>5. Solves(h, m + 1)
    <3> HIDE DEF h
    <3> QED BY <2>3, <2>4
  <2> HIDE DEF Solves, h
  <2> QED BY <2>5
<1>4. Good = Nat
  <2> HIDE DEF Good
  <2>1. Good \in SUBSET Nat
    BY DEF Good
  <2> QED BY <1>2, <1>3, <2>1, SetInduction
<1>5. PICK h : Solves(h, n)
  <2> HIDE DEF Solves
  <2> QED BY <1>1, <1>4
<1> DEFINE Flat == CHOOSE g : g = [i \in 1 .. Len(seqs) |->
                                    IF i = 1 THEN seqs[i] ELSE g[i - 1] \o seqs[i]]
<1>6. h = [i \in 1 .. Len(seqs) |-> IF i = 1 THEN seqs[i] ELSE h[i - 1] \o seqs[i]]
  BY <1>5
<1>7. Flat = [i \in 1 .. Len(seqs) |-> IF i = 1 THEN seqs[i] ELSE Flat[i - 1] \o seqs[i]]
  BY <1>6, Zenon
<1>8. FlattenSeq(seqs) = Flat[n]
  BY Zenon DEF FlattenSeq
<1> DEFINE Same == {m \in Nat : m \in 1 .. n => Flat[m] = h[m]}
<1>9. Same = Nat
  <2> HIDE DEF Flat
  <2>1. 0 \in Same
    OBVIOUS
  <2>2. ASSUME NEW m \in Same PROVE m + 1 \in Same
    <3> SUFFICES ASSUME m + 1 \in 1 .. n PROVE Flat[m + 1] = h[m + 1]
      OBVIOUS
    <3> DEFINE i == m + 1
    <3>0. i \in 1 .. Len(seqs)
      OBVIOUS
    <3> HIDE DEF i
    <3>1. Flat[i] = IF i = 1 THEN seqs[i] ELSE Flat[i - 1] \o seqs[i]
      BY <1>7, <3>0, Zenon
    <3>2. h[i] = IF i = 1 THEN seqs[i] ELSE h[i - 1] \o seqs[i]
      BY <1>6, <3>0, Zenon
    <3> USE DEF i
    <3>3. m + 1 - 1 = m /\ (m + 1 # 1 => m \in 1 .. n)
      BY <1>1
    <3>4. m + 1 # 1 => Flat[m] = h[m]
      BY <3>3
    <3> QED BY <3>1, <3>2, <3>3, <3>4
  <2> HIDE DEF Same
  <2>3. Same \in SUBSET Nat
    BY DEF Same
  <2> QED BY <2>1, <2>2, <2>3, SetInduction
<1>10. FlattenSeq(seqs) = h[n]
  <2> HIDE DEF Flat
  <2>1. n \in Same
    BY <1>1, <1>9
  <2> QED BY <1>1, <1>8, <2>1
<1>11. h \in [1 .. Len(seqs) -> Seq(S)] /\ h[1] = seqs[1]
       /\ \A k \in 2 .. Len(seqs) : h[k] = h[k - 1] \o seqs[k]
  <2>0. 1 \in 1 .. n
    BY <1>1
  <2>5. h \in [1 .. n -> Seq(S)]
        /\ \A k \in 1 .. n : h[k] = IF k = 1 THEN seqs[k] ELSE h[k - 1] \o seqs[k]
    BY <1>5, Zenon
  <2> HIDE DEF n
  <2>1. h \in [1 .. n -> Seq(S)] /\ 1 \in 1 .. n
        /\ \A k \in 1 .. n : h[k] = IF k = 1 THEN seqs[k] ELSE h[k - 1] \o seqs[k]
    BY <2>0, <2>5
  <2>2. h[1] = seqs[1]
    BY <2>1
  <2>3. \A k \in 2 .. n : k \in 1 .. n /\ k # 1
    BY <1>1
  <2>4. \A k \in 2 .. n : h[k] = h[k - 1] \o seqs[k]
    BY <2>1, <2>3
  <2> QED BY <2>1, <2>2, <2>4 DEF n
<1> QED
  BY <1>10, <1>11

LEMMA FlattenType ==
  ASSUME NEW S, NEW seqs \in Seq(Seq(S))
  PROVE  FlattenSeq(seqs) \in Seq(S)
<1>1. CASE Len(seqs) = 0
  <2>1. seqs = <<>>
    BY <1>1, EmptySeq
  <2> QED BY <1>1, <2>1 DEF FlattenSeq
<1>2. CASE Len(seqs) # 0
  <2> DEFINE n == Len(seqs)
  <2>1. n \in 1 .. n
    BY <1>2, LenProperties
  <2>2. PICK h \in [1 .. n -> Seq(S)] : FlattenSeq(seqs) = h[n]
    BY <1>2, FlattenPrefixes
  <2> HIDE DEF n
  <2> QED BY <2>1, <2>2
<1> QED
  BY <1>1, <1>2

(* Every element of a flattened sequence is found behind the lengths of    *)
(* the sequences before its own.                                           *)
Positions(off, seqs, S) ==
  /\ seqs \in Seq(Seq(S))
  /\ off \in [1 .. Len(seqs) + 1 -> Nat] /\ off[1] = 0
  /\ \A k \in 1 .. Len(seqs) : off[k + 1] = off[k] + Len(seqs[k])

LEMMA FlattenAt ==
  ASSUME NEW S, NEW seqs, NEW off, Positions(off, seqs, S)
  PROVE  /\ FlattenSeq(seqs) \in Seq(S)
         /\ Len(FlattenSeq(seqs)) = off[Len(seqs) + 1]
         /\ \A k \in 1 .. Len(seqs) : \A j \in 1 .. Len(seqs[k]) :
              /\ off[k] + j \in 1 .. off[Len(seqs) + 1]
              /\ FlattenSeq(seqs)[off[k] + j] = seqs[k][j]
<1> DEFINE n == Len(seqs)
<1>0. /\ seqs \in Seq(Seq(S))
      /\ off \in [1 .. Len(seqs) + 1 -> Nat] /\ off[1] = 0
      /\ \A k \in 1 .. Len(seqs) : off[k + 1] = off[k] + Len(seqs[k])
  BY DEF Positions
<1>1. n \in Nat /\ (\A k \in 1 .. n : seqs[k] \in Seq(S) /\ Len(seqs[k]) \in Nat)
  <2>1. \A k \in 1 .. Len(seqs) : seqs[k] \in Seq(S)
    BY <1>0, ElementOfSeq
  <2> QED BY <1>0, <2>1, LenProperties
<1>2. CASE n = 0
  <2>1. seqs = <<>>
    BY <1>0, <1>2, EmptySeq
  <2> QED BY <1>0, <1>2, <2>1 DEF FlattenSeq
<1>3. CASE n # 0
  <2>1. PICK h \in [1 .. Len(seqs) -> Seq(S)] :
          /\ h[1] = seqs[1]
          /\ \A k \in 2 .. Len(seqs) : h[k] = h[k - 1] \o seqs[k]
          /\ FlattenSeq(seqs) = h[Len(seqs)]
    BY <1>0, <1>3, FlattenPrefixes
  <2> DEFINE Placed(m) ==
               /\ Len(h[m]) = off[m + 1]
               /\ \A k \in 1 .. m : \A j \in 1 .. Len(seqs[k]) :
                    off[k] + j \in 1 .. off[m + 1] /\ h[m][off[k] + j] = seqs[k][j]
             Good == {m \in Nat : m + 1 \in 1 .. n => Placed(m + 1)}
  <2>2. \A k \in 1 .. n + 1 : off[k] \in Nat
    BY <1>0
  <2>3. 0 \in Good
    <3> SUFFICES ASSUME 0 + 1 \in 1 .. n PROVE Placed(0 + 1)
      OBVIOUS
    <3>0. 0 + 1 = 1 /\ 1 \in 1 .. n
      OBVIOUS
    <3>1. Len(h[1]) = Len(seqs[1]) /\ off[1 + 1] = off[1] + Len(seqs[1])
          /\ Len(seqs[1]) \in Nat
      BY <1>0, <1>1, <2>1
    <3>2. \A k \in 1 .. 1 : k = 1
      OBVIOUS
    <3>3. Placed(1)
      BY <1>0, <2>1, <3>1, <3>2
    <3> HIDE DEF Placed
    <3> QED BY <3>0, <3>3
  <2>4. ASSUME NEW i \in Good PROVE i + 1 \in Good
    <3> DEFINE m == i + 1
    <3> SUFFICES ASSUME m + 1 \in 1 .. n PROVE Placed(m + 1)
      OBVIOUS
    <3>1. m \in 1 .. n /\ m + 1 \in 2 .. n /\ (m + 1) - 1 = m /\ m \in Nat
      BY <1>1
    <3>2. Placed(m)
      BY <3>1
    <3> HIDE DEF m
    <3> DEFINE old == h[m]
               new == seqs[m + 1]
    <3>3. h[m + 1] = old \o new
      BY <2>1, <3>1
    <3>4. old \in Seq(S) /\ new \in Seq(S) /\ Len(new) \in Nat
          /\ off[m + 1] \in Nat /\ Len(old) = off[m + 1]
      <4>1. m + 1 \in 1 .. n /\ m + 1 \in 1 .. n + 1
        BY <1>1, <3>1
      <4>2. new \in Seq(S) /\ Len(new) \in Nat
        BY <1>1, <4>1
      <4>3. old \in Seq(S) /\ Len(old) = off[m + 1]
        BY <2>1, <3>1, <3>2 DEF Placed
      <4>4. off[m + 1] \in Nat
        BY <2>2, <4>1
      <4> QED BY <4>2, <4>3, <4>4
    <3>5. off[m + 1 + 1] = off[m + 1] + Len(new) /\ off[m + 1 + 1] \in Nat
      <4> DEFINE k == m + 1
      <4>1. k \in 1 .. Len(seqs)
        BY <1>1, <3>1
      <4> HIDE DEF k
      <4>2. off[k + 1] = off[k] + Len(seqs[k])
        BY <1>0, <4>1
      <4> QED BY <3>4, <4>2 DEF k
    <3> HIDE DEF old, new, n, Placed
    <3>6. /\ Len(h[m + 1]) = Len(old) + Len(new)
          /\ \A j \in 1 .. Len(old) + Len(new) :
               h[m + 1][j] = IF j <= Len(old) THEN old[j] ELSE new[j - Len(old)]
      <4>1. /\ Len(old \o new) = Len(old) + Len(new)
            /\ \A j \in 1 .. Len(old) + Len(new) :
                 (old \o new)[j] = IF j <= Len(old) THEN old[j] ELSE new[j - Len(old)]
        BY <3>4, ConcatProperties
      <4> QED BY <3>3, <4>1, Zenon
    <3>7. ASSUME NEW k \in 1 .. m + 1, NEW j \in 1 .. Len(seqs[k])
          PROVE  off[k] + j \in 1 .. off[m + 1 + 1] /\ h[m + 1][off[k] + j] = seqs[k][j]
      <4>1. CASE k # m + 1
        <5>1. k \in 1 .. m
          BY <3>1, <4>1
        <5>2. off[k] + j \in 1 .. off[m + 1] /\ old[off[k] + j] = seqs[k][j]
          BY <3>2, <5>1 DEF old, Placed
        <5>3. off[k] + j \in 1 .. Len(old) + Len(new) /\ off[k] + j <= Len(old)
          BY <3>4, <5>2
        <5> QED BY <3>4, <3>5, <3>6, <5>2, <5>3
      <4>2. CASE k = m + 1
        <5>1. off[k] = Len(old) /\ new = seqs[k]
          BY <3>4, <4>2 DEF new
        <5> DEFINE x == off[k] + j
        <5>0. j \in 1 .. Len(new) /\ x = Len(old) + j /\ Len(old) \in Nat
          BY <3>4, <5>1
        <5>2. x \in 1 .. Len(old) + Len(new) /\ ~(x <= Len(old)) /\ x - Len(old) = j
          BY <3>4, <5>0
        <5> HIDE DEF x
        <5>3. h[m + 1][x] = new[j]
          BY <3>6, <5>2
        <5>4. x \in 1 .. off[m + 1 + 1]
          BY <3>4, <3>5, <5>2
        <5> QED BY <5>1, <5>3, <5>4 DEF x
      <4> QED BY <4>1, <4>2
    <3>8. Len(h[m + 1]) = off[m + 1 + 1]
      BY <3>4, <3>5, <3>6
    <3> QED BY <3>7, <3>8 DEF Placed
  <2>5. Good = Nat
    <3> HIDE DEF Good
    <3>1. Good \in SUBSET Nat
      BY DEF Good
    <3> QED BY <2>3, <2>4, <3>1, SetInduction
  <2>6. Placed(n)
    <3> HIDE DEF Placed, n
    <3>1. n - 1 \in Nat /\ n - 1 + 1 = n /\ n \in 1 .. n
      BY <1>1, <1>3
    <3>2. n - 1 + 1 \in 1 .. n => Placed(n - 1 + 1)
      BY <2>5, <3>1
    <3> QED BY <3>1, <3>2
  <2>7. n \in 1 .. n /\ FlattenSeq(seqs) = h[n] /\ h[n] \in Seq(S)
    BY <1>1, <1>3, <2>1
  <2> QED BY <2>6, <2>7
<1> QED
  BY <1>1, <1>2, <1>3

(* Every place of a flattened sequence is in one of the sequences, so that *)
(* a sequence with the right elements at these places is the flattened one.*)
LEMMA FlattenCover ==
  ASSUME NEW S, NEW seqs, NEW off, Positions(off, seqs, S),
         NEW x \in 1 .. off[Len(seqs) + 1]
  PROVE  \E k \in 1 .. Len(seqs) : \E j \in 1 .. Len(seqs[k]) : x = off[k] + j
<1> DEFINE n == Len(seqs)
           Low == {k \in 1 .. n + 1 : off[k] < x}
           k == Max(Low)
<1>1. /\ n \in Nat /\ off[1] = 0
      /\ \A h \in 1 .. n + 1 : off[h] \in Nat
      /\ \A h \in 1 .. n : off[h + 1] = off[h] + Len(seqs[h])
  BY LenProperties DEF Positions
<1>2. x \in Nat \ {0} /\ x <= off[n + 1]
  BY <1>1
<1> HIDE DEF n
<1>3. Low \in SUBSET Int /\ IsFiniteSet(Low) /\ Low # {}
  <2>1. 1 \in Int /\ n + 1 \in Int /\ Low \in SUBSET (1 .. n + 1)
    BY <1>1
  <2>2. 1 \in Low
    BY <1>1, <1>2
  <2> HIDE DEF Low
  <2>3. IsFiniteSet(1 .. n + 1)
    BY <2>1, FS_Interval
  <2>4. IsFiniteSet(Low)
    BY <2>1, <2>3, FS_Subset
  <2>5. Low \in SUBSET Int
    BY <2>1
  <2> QED BY <2>2, <2>4, <2>5
<1>4. k \in Low /\ \A h \in Low : h <= k
  <2> HIDE DEF Low
  <2> QED BY <1>3, FiniteMax
<1> HIDE DEF k
<1>5. k \in 1 .. n
  <2>1. k \in 1 .. n + 1 /\ off[k] < x
    BY <1>4
  <2> HIDE DEF Low
  <2>2. ~(off[n + 1] < x)
    BY <1>1, <1>2
  <2>3. k # n + 1
    BY <2>1, <2>2
  <2> QED BY <1>1, <2>1, <2>3
<1>6. k + 1 \in 1 .. n + 1 /\ ~(off[k + 1] < x)
  <2>1. k + 1 \in 1 .. n + 1 /\ ~(k + 1 <= k)
    BY <1>1, <1>5
  <2> QED BY <1>4, <2>1
<1>7. /\ off[k] \in Nat /\ off[k] < x /\ off[k + 1] \in Nat
      /\ off[k + 1] = off[k] + Len(seqs[k]) /\ Len(seqs[k]) \in Nat
  <2>1. Len(seqs[k]) \in Nat
    BY <1>5, ElementOfSeq, LenProperties DEF Positions, n
  <2> QED BY <1>1, <1>4, <1>5, <1>6, <2>1
<1>8. x - off[k] \in 1 .. Len(seqs[k]) /\ x = off[k] + (x - off[k])
  BY <1>2, <1>6, <1>7
<1> QED
  BY <1>5, <1>8 DEF n

LaidOut(s, off, seqs, S) ==
  /\ s \in Seq(S) /\ Len(s) = off[Len(seqs) + 1]
  /\ \A k \in 1 .. Len(seqs) : \A j \in 1 .. Len(seqs[k]) : s[off[k] + j] = seqs[k][j]

LEMMA FlattenIs ==
  ASSUME NEW S, NEW seqs, NEW off, Positions(off, seqs, S),
         NEW s, LaidOut(s, off, seqs, S)
  PROVE  s = FlattenSeq(seqs)
<1> DEFINE t == FlattenSeq(seqs)
<1>1. /\ t \in Seq(S) /\ Len(t) = off[Len(seqs) + 1]
      /\ \A k \in 1 .. Len(seqs) : \A j \in 1 .. Len(seqs[k]) : t[off[k] + j] = seqs[k][j]
  BY FlattenAt
<1> HIDE DEF t
<1>2. s \in Seq(S) /\ Len(s) = Len(t)
  BY <1>1 DEF LaidOut
<1>3. ASSUME NEW x \in 1 .. Len(s) PROVE s[x] = t[x]
  <2>1. x \in 1 .. off[Len(seqs) + 1]
    BY DEF LaidOut
  <2>2. PICK k \in 1 .. Len(seqs) : \E j \in 1 .. Len(seqs[k]) : x = off[k] + j
    BY <2>1, FlattenCover
  <2> PICK j \in 1 .. Len(seqs[k]) : x = off[k] + j
    BY <2>2
  <2>3. s[off[k] + j] = seqs[k][j] /\ t[off[k] + j] = seqs[k][j]
    BY <1>1 DEF LaidOut
  <2> QED BY <2>3
<1>4. s = t
  BY <1>1, <1>2, <1>3, SeqEqual
<1> QED
  BY <1>4 DEF t

(* A sequence of the elements of a finite set, each of them once.          *)
LEMMA SetToSeqIs ==
  ASSUME NEW S, IsFiniteSet(S)
  PROVE  /\ SetToSeq(S) \in Seq(S) /\ IsInjective(SetToSeq(S))
         /\ Range(SetToSeq(S)) = S
<1> DEFINE n == Cardinality(S)
           f == SetToSeq(S)
<1>1. n \in Nat /\ ExistsBijection(1 .. n, S)
  BY FS_CardinalityType
<1>2. \E g \in [1 .. n -> S] : IsInjective(g)
  BY <1>1 DEF ExistsBijection, Bijection, Injection
<1> HIDE DEF n
<1>3. f \in [1 .. n -> S] /\ IsInjective(f)
  BY <1>2 DEF SetToSeq, n
<1> HIDE DEF f
<1>4. f \in Seq(S)
  BY <1>1, <1>3, SeqOfFunction
<1>5. f \in Surjection(1 .. n, S)
  <2>1. f \in Injection(1 .. n, S)
    BY <1>3 DEF Injection
  <2>2. 1 \in Int /\ n \in Int
    BY <1>1
  <2>3. Cardinality(1 .. n) = n
    <3>1. Cardinality(1 .. n) = IF 1 > n THEN 0 ELSE n - 1 + 1
      BY <2>2, FS_Interval
    <3> QED BY <1>1, <3>1
  <2>4. Cardinality(1 .. n) = Cardinality(S)
    BY <2>3 DEF n
  <2> QED BY <2>1, <2>4, FS_Injection
<1>6. Range(f) = S
  BY <1>5 DEF Surjection, Range
<1> QED
  BY <1>3, <1>4, <1>6 DEF f

(* Numbers that grow from one to the next grow from any to any later one.  *)
LEMMA Growing ==
  ASSUME NEW m \in Nat, NEW f \in [1 .. m + 1 -> Nat],
         \A i \in 1 .. m : f[i] < f[i + 1]
  PROVE  \A i, k \in 1 .. m + 1 : i < k => f[i] < f[k]
<1> DEFINE Good == {d \in Nat : \A i \in 1 .. m + 1 :
                                  i + d + 1 <= m + 1 => f[i] < f[i + d + 1]}
<1>1. 0 \in Good
  <2> SUFFICES ASSUME NEW i \in 1 .. m + 1, i + 0 + 1 <= m + 1
               PROVE  f[i] < f[i + 0 + 1]
    OBVIOUS
  <2>1. i \in 1 .. m /\ i + 0 + 1 = i + 1
    OBVIOUS
  <2> QED BY <2>1
<1>2. ASSUME NEW d \in Good PROVE d + 1 \in Good
  <2> SUFFICES ASSUME NEW i \in 1 .. m + 1, i + (d + 1) + 1 <= m + 1
               PROVE  f[i] < f[i + (d + 1) + 1]
    OBVIOUS
  <2>1. i + d + 1 \in 1 .. m /\ i + (d + 1) + 1 = (i + d + 1) + 1
        /\ i + d + 1 \in 1 .. m + 1 /\ (i + d + 1) + 1 \in 1 .. m + 1
        /\ i + d + 1 <= m + 1
    OBVIOUS
  <2>2. f[i] < f[i + d + 1]
    BY <2>1
  <2>3. f[i + d + 1] < f[(i + d + 1) + 1]
    BY <2>1
  <2>4. f[i] \in Nat /\ f[i + d + 1] \in Nat /\ f[(i + d + 1) + 1] \in Nat
    BY <2>1
  <2>5. f[i] < f[(i + d + 1) + 1]
    BY <2>2, <2>3, <2>4
  <2> QED BY <2>1, <2>5
<1>3. Good = Nat
  <2>1. Good \in SUBSET Nat
    OBVIOUS
  <2> HIDE DEF Good
  <2> QED BY <1>1, <1>2, <2>1, SetInduction
<1> SUFFICES ASSUME NEW i \in 1 .. m + 1, NEW k \in 1 .. m + 1, i < k
             PROVE  f[i] < f[k]
  OBVIOUS
<1>4. k - i - 1 \in Good
  <2>1. k - i - 1 \in Nat
    OBVIOUS
  <2> HIDE DEF Good
  <2> QED BY <1>3, <2>1
<1>5. i + (k - i - 1) + 1 = k
  OBVIOUS
<1> QED BY <1>4, <1>5

(* Where each of some pieces begins when they are put one behind another.  *)
PlaceOf(lens, k) == SumFunctionOnSet(lens, 1 .. k - 1)

LEMMA PlacesAdd ==
  ASSUME NEW n \in Nat, NEW lens \in [1 .. n -> Nat]
  PROVE  /\ PlaceOf(lens, 1) = 0
         /\ \A k \in 1 .. n + 1 : PlaceOf(lens, k) \in Nat
         /\ \A k \in 1 .. n : PlaceOf(lens, k + 1) = PlaceOf(lens, k) + lens[k]
<1>0. \A i \in 1 .. n : lens[i] \in Nat
  OBVIOUS
<1>1. ASSUME NEW k \in 1 .. n + 1 PROVE PlaceOf(lens, k) \in Nat
  <2>1. 1 \in 1 .. n + 1 /\ k - 1 \in 1 - 1 .. n
    OBVIOUS
  <2>2. SumFunctionOnSet(lens, 1 .. k - 1) \in Nat
    BY <1>0, <2>1, SumInterval, SMTT(30)
  <2> QED BY <2>2 DEF PlaceOf
<1>2. ASSUME NEW k \in 1 .. n PROVE PlaceOf(lens, k + 1) = PlaceOf(lens, k) + lens[k]
  <2>1. 1 \in 1 .. n + 1 /\ k \in 1 - 1 .. n /\ k > 0 /\ (k + 1) - 1 = k
    OBVIOUS
  <2>2. SumFunctionOnSet(lens, 1 .. k) = SumFunctionOnSet(lens, 1 .. k - 1) + lens[k]
    BY <1>0, <2>1, SumInterval, SMTT(30)
  <2> QED BY <2>1, <2>2 DEF PlaceOf
<1>3. PlaceOf(lens, 1) = 0
  <2>1. 1 .. 1 - 1 = {}
    OBVIOUS
  <2>2. IsFiniteSet({})
    BY FS_EmptySet
  <2>3. SumFunctionOnSet(lens, {}) = 0
    BY <2>2, SumProperties
  <2> QED BY <2>1, <2>3 DEF PlaceOf
<1> QED BY <1>1, <1>2, <1>3

(* Wherever sequences are flattened there are such places.                 *)
LEMMA PositionsExist ==
  ASSUME NEW S, NEW seqs \in Seq(Seq(S))
  PROVE  \E off : Positions(off, seqs, S)
<1> DEFINE n == Len(seqs)
           lens == [k \in 1 .. n |-> Len(seqs[k])]
           off == [k \in 1 .. n + 1 |-> PlaceOf(lens, k)]
<1>1. n \in Nat /\ \A k \in 1 .. n : seqs[k] \in Seq(S)
  BY ElementOfSeq, LenProperties
<1>2. lens \in [1 .. n -> Nat] /\ \A k \in 1 .. n : lens[k] = Len(seqs[k])
  <2>1. \A k \in 1 .. n : Len(seqs[k]) \in Nat
    BY <1>1, LenProperties
  <2> HIDE DEF n
  <2> QED BY <2>1
<1> HIDE DEF lens
<1>3. /\ PlaceOf(lens, 1) = 0
      /\ \A k \in 1 .. n + 1 : PlaceOf(lens, k) \in Nat
      /\ \A k \in 1 .. n : PlaceOf(lens, k + 1) = PlaceOf(lens, k) + lens[k]
  <2> HIDE DEF n
  <2> QED BY <1>1, <1>2, PlacesAdd
<1>4. off \in [1 .. n + 1 -> Nat]
  <2> HIDE DEF n
  <2> QED BY <1>3
<1>5. off[1] = 0 /\ \A k \in 1 .. n : off[k + 1] = off[k] + lens[k]
  <2> HIDE DEF n
  <2>1. /\ 1 \in 1 .. n + 1
        /\ \A k \in 1 .. n : k \in 1 .. n + 1 /\ k + 1 \in 1 .. n + 1
    BY <1>1
  <2> QED BY <1>3, <2>1
<1> HIDE DEF off
<1>6. Positions(off, seqs, S)
  BY <1>2, <1>4, <1>5 DEF Positions
<1> QED
  BY <1>6

TakesMax(pick, D, n) ==
  n \in Nat /\ D = 1 .. n /\ \A s \in SUBSET D : pick[s] = Max(s)

(* A fold that takes the largest element first works through the numbers   *)
(* from 1 to n in their order.                                             *)
LEMMA MaxPicks ==
  ASSUME NEW n, NEW D, NEW pick, TakesMax(pick, D, n)
  PROVE  IsFiniteSet(D) /\ Picks(pick, D)
<1>1. IsFiniteSet(D) /\ D \in SUBSET Int
  <2>1. 1 \in Int /\ n \in Int /\ D = 1 .. n
    BY DEF TakesMax
  <2> QED BY <2>1, FS_Interval
<1>2. Picks(pick, D)
  <2> SUFFICES ASSUME NEW s \in SUBSET D, s # {} PROVE Max(s) \in s
    BY DEF Picks, TakesMax
  <2>1. IsFiniteSet(s) /\ s \in SUBSET Int
    BY <1>1, FS_Subset
  <2> QED BY <2>1, FiniteMax
<1> QED
  BY <1>1, <1>2

Steps(h, f, base, n, St) ==
  /\ h \in [0 .. n -> St] /\ h[0] = base
  /\ \A i \in 1 .. n : h[i] = f[<<h[i - 1], i>>]

StepsWithin(f, base, D, St) == base \in St /\ f \in [St \X D -> St]

LEMMA FoldInOrder ==
  ASSUME NEW n, NEW D, NEW St, NEW base, NEW f, StepsWithin(f, base, D, St),
         NEW pick, TakesMax(pick, D, n),
         NEW g, Folds(g, f, pick, base, D, St)
  PROVE  \E h : Steps(h, f, base, n, St) /\ g[D] = h[n]
<1> DEFINE h == [i \in 0 .. n |-> g[1 .. i]]
<1> n \in Nat /\ D = 1 .. n
  BY DEF TakesMax
<1>a. base \in St /\ f \in [St \X D -> St]
  BY DEF StepsWithin
<1>0. IsFiniteSet(D) /\ Picks(pick, D) /\ Folds(g, f, pick, base, D, St)
  BY MaxPicks
<1>1. \A s \in SUBSET D : g[s] \in St
  BY <1>a, <1>0, FoldStays
<1>2. \A i \in 0 .. n : 1 .. i \in SUBSET D
  OBVIOUS
<1>3. h \in [0 .. n -> St]
  BY <1>1, <1>2
<1>4. h[0] = base
  <2>1. 1 .. 0 = {} /\ 0 \in 0 .. n
    OBVIOUS
  <2> QED BY <1>0, <2>1 DEF Folds
<1>5. ASSUME NEW i \in 1 .. n PROVE h[i] = f[<<h[i - 1], i>>]
  <2>1. 1 .. i \in SUBSET D /\ i \in 1 .. i /\ 1 .. i # {} /\ i - 1 \in 0 .. n
        /\ i \in 0 .. n /\ (1 .. i) \ {i} = 1 .. i - 1
    <3>1. i \in 1 .. i /\ i - 1 \in 0 .. n /\ i \in 0 .. n
      OBVIOUS
    <3>2. 1 .. i \in SUBSET D
      OBVIOUS
    <3>3. (1 .. i) \ {i} = 1 .. i - 1
      OBVIOUS
    <3> QED BY <3>1, <3>2, <3>3
  <2>2. Max(1 .. i) = i
    <3>1. IsFiniteSet(1 .. i) /\ 1 .. i \in SUBSET Int
      BY <1>0, <2>1, FS_Subset
    <3>2. Max(1 .. i) \in 1 .. i /\ \A x \in 1 .. i : x <= Max(1 .. i)
      BY <2>1, <3>1, FiniteMax
    <3> QED BY <2>1, <3>2
  <2>3. pick[1 .. i] = i
    BY <2>1, <2>2 DEF TakesMax
  <2>4. g[1 .. i - 1] \in St
    BY <1>1, <1>2, <2>1
  <2>5. g[1 .. i] = f[<<g[1 .. i - 1], i>>]
    <3> DEFINE s == 1 .. i
    <3>1. s \in SUBSET D /\ s # {} /\ s \ {pick[s]} = 1 .. i - 1 /\ pick[s] = i
      BY <2>1, <2>3
    <3> HIDE DEF s
    <3>2. g[s] = f[<<g[s \ {pick[s]}], pick[s]>>]
      BY <1>0, <2>4, <3>1 DEF Folds
    <3> QED BY <3>1, <3>2 DEF s
  <2>6. h[i] = g[1 .. i] /\ h[i - 1] = g[1 .. i - 1]
    BY <2>1
  <2> QED BY <2>5, <2>6
<1>6. g[D] = h[n]
  OBVIOUS
<1> HIDE DEF h
<1>7. Steps(h, f, base, n, St)
  BY <1>3, <1>4, <1>5 DEF Steps
<1> QED BY <1>6, <1>7

(* A number of a finite set has the place that its rank in the set says,   *)
(* so that each is listed once.                                            *)
LEMMA AscendingRank ==
  ASSUME NEW S \in SUBSET Nat, IsFiniteSet(S)
  PROVE  /\ \A n \in S : LET rank == Cardinality({m \in S : m <= n})
                         IN  rank \in 1 .. Cardinality(S) /\ Ascending(S)[rank] = n
         /\ \A k, l \in 1 .. Cardinality(S) :
              Ascending(S)[k] = Ascending(S)[l] => k = l
<1> DEFINE UpTo(n) == {m \in S : m <= n}
           c == Cardinality(S)
<1>1. c \in Nat /\ Ascending(S) \in [1 .. c -> S]
  BY AscendingType
<1>2. ASSUME NEW n \in S
      PROVE  IsFiniteSet(UpTo(n)) /\ Cardinality(UpTo(n)) \in 1 .. c
  <2>1. UpTo(n) \in SUBSET S /\ UpTo(n) # {}
    OBVIOUS
  <2> HIDE DEF UpTo
  <2>2. IsFiniteSet(UpTo(n)) /\ Cardinality(UpTo(n)) <= c
    BY <2>1, FS_Subset
  <2>3. Cardinality(UpTo(n)) \in Nat /\ Cardinality(UpTo(n)) # 0
    BY <2>1, <2>2, FS_CardinalityType, FS_EmptySet
  <2> QED BY <1>1, <2>2, <2>3
<1>3. ASSUME NEW n \in S, NEW m \in S, m < n
      PROVE  Cardinality(UpTo(m)) < Cardinality(UpTo(n))
  <2>1. UpTo(m) \in SUBSET UpTo(n) /\ n \in UpTo(n) /\ n \notin UpTo(m)
    <3>1. m \in Nat /\ n \in Nat
      OBVIOUS
    <3>2. \A x \in S : x \in Nat
      OBVIOUS
    <3>3. ASSUME NEW x \in UpTo(m) PROVE x \in UpTo(n)
      <4>1. x \in S /\ x <= m
        OBVIOUS
      <4>2. x \in Nat
        BY <3>2, <4>1
      <4>3. x <= n
        BY <1>3, <3>1, <4>1, <4>2
      <4> QED BY <4>1, <4>3
    <3>4. n \in UpTo(n) /\ n \notin UpTo(m)
      BY <1>3, <3>1
    <3> HIDE DEF UpTo
    <3> QED BY <3>3, <3>4
  <2>2. /\ IsFiniteSet(UpTo(n)) /\ Cardinality(UpTo(n)) \in 1 .. c
        /\ Cardinality(UpTo(m)) \in 1 .. c
    BY <1>2
  <2> HIDE DEF UpTo, c
  <2>3. /\ Cardinality(UpTo(m)) <= Cardinality(UpTo(n))
        /\ Cardinality(UpTo(n)) = Cardinality(UpTo(m)) => UpTo(n) = UpTo(m)
    BY <2>1, <2>2, FS_Subset
  <2> QED BY <1>1, <2>1, <2>2, <2>3
<1>4. ASSUME NEW n \in S PROVE Ascending(S)[Cardinality(UpTo(n))] = n
  <2> DEFINE k == Cardinality(UpTo(n))
             High == {m \in S : Cardinality(UpTo(m)) >= k}
  <2>1. k \in 1 .. c
    BY <1>2
  <2>2. Ascending(S)[k] = Min(High)
    BY <2>1 DEF Ascending
  <2>3. n \in High /\ \A m \in High : n <= m
    <3>1. k \in Int
      BY <1>1, <2>1
    <3>2. n \in High
      BY <3>1
    <3>3. ASSUME NEW m \in High, m < n PROVE FALSE
      <4>1. m \in S
        OBVIOUS
      <4>2. Cardinality(UpTo(m)) < k /\ Cardinality(UpTo(m)) \in 1 .. c
        BY <1>2, <1>3, <3>3, <4>1
      <4>3. Cardinality(UpTo(m)) >= k
        OBVIOUS
      <4> HIDE DEF k, UpTo, c
      <4> QED BY <1>1, <3>1, <4>2, <4>3
    <3> HIDE DEF k, UpTo
    <3>4. High \in SUBSET Nat
      OBVIOUS
    <3> HIDE DEF High
    <3>5. \A m \in High : m \in Nat /\ n \in Nat
      BY <3>4
    <3>6. \A m \in High : ~(m < n) => n <= m
      BY <3>5
    <3> QED BY <3>2, <3>3, <3>6
  <2>4. High \in SUBSET S
    OBVIOUS
  <2> HIDE DEF High, k, UpTo
  <2>5. High # {} /\ IsFiniteSet(High) /\ High \in SUBSET Int
    <3>1. IsFiniteSet(High)
      BY <2>4, FS_Subset
    <3>2. High \in SUBSET Int
      BY <2>4
    <3> QED BY <2>3, <3>1, <3>2
  <2>6. Min(High) \in High /\ \A m \in High : Min(High) <= m
    BY <2>5, FiniteMin
  <2>7. Min(High) = n
    <3> DEFINE least == Min(High)
    <3>1. least \in Int /\ n \in Int /\ least <= n /\ n <= least
      BY <2>3, <2>5, <2>6
    <3> HIDE DEF least
    <3>2. least = n
      BY <3>1
    <3> QED BY <3>2 DEF least
  <2> QED BY <2>2, <2>7 DEF k
<1>5. Ascending(S) \in Surjection(1 .. c, S)
  BY <1>1, <1>2, <1>4 DEF Surjection
<1>6. IsFiniteSet(1 .. c) /\ Cardinality(1 .. c) = c
  <2> HIDE DEF c
  <2>1. 1 \in Int /\ c \in Int
    BY <1>1
  <2> QED BY <1>1, <2>1, FS_Interval
<1>7. Ascending(S) \in Injection(1 .. c, S)
  <2>1. c = Cardinality(S)
    OBVIOUS
  <2> HIDE DEF c
  <2> QED BY <1>5, <1>6, <2>1, FS_Surjection
<1>8. \A k, l \in 1 .. c : Ascending(S)[k] = Ascending(S)[l] => k = l
  BY <1>1, <1>7 DEF Injection, IsInjective
<1> QED
  BY <1>2, <1>4, <1>8

(* The numbers of an interval.                                             *)
LEMMA AscendingInterval ==
  ASSUME NEW a \in Nat, NEW b \in Nat
  PROVE  Ascending(a .. a + b - 1) = [k \in 1 .. b |-> a + k - 1]
<1> DEFINE S == a .. a + b - 1
           asc == Ascending(S)
<1>1. IsFiniteSet(S) /\ Cardinality(S) = b /\ S \in SUBSET Nat
  <2>1. a \in Int /\ a + b - 1 \in Int
    OBVIOUS
  <2> QED BY <2>1, FS_Interval
<1>2. asc \in [1 .. b -> S]
  <2> HIDE DEF S
  <2> QED BY <1>1, AscendingType
<1>3. ASSUME NEW k \in 1 .. b PROVE asc[k] = a + k - 1
  <2> DEFINE n == a + k - 1
  <2>1. n \in S /\ n \in Int /\ n - a + 1 = k /\ ~(a > n)
    OBVIOUS
  <2>2. {m \in S : m <= n} = a .. n
    OBVIOUS
  <2> HIDE DEF n
  <2>3. Cardinality(a .. n) = k
    BY <2>1, FS_Interval
  <2> HIDE DEF S
  <2>4. Ascending(S)[Cardinality({m \in S : m <= n})] = n
    BY <1>1, <2>1, AscendingRank
  <2>5. asc[k] = n
    BY <2>2, <2>3, <2>4
  <2> QED BY <2>5 DEF n
<1> QED
  BY <1>2, <1>3
=============================================================================
