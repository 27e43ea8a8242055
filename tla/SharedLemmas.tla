---------------------------- MODULE SharedLemmas ----------------------------
(***************************************************************************)
(* Lemmas that the proofs of several modules need: integer quotients and   *)
(* products, least elements, and sums over finite sets.                    *)
(*                                                                         *)
(* SumFunctionOnSet of the community modules picks the elements in an      *)
(* order of its own; the sum does not depend on it: SumRemove takes out    *)
(* any element.  The inductions are by least counterexample: a nonempty    *)
(* set of naturals has a least element (LeastNatural), and a nonempty      *)
(* collection of finite sets a minimal one (MinimalSet).                   *)
(***************************************************************************)
EXTENDS Integers, SequencesExt, FiniteSetTheorems, TLAPS

-----------------------------------------------------------------------------
(* Integers *)

\* A quotient rounded down: the defining bounds of an integer division.
LEMMA DivisionBounds ==
  ASSUME NEW a \in Nat, NEW d \in Nat \ {0}
  PROVE  /\ a \div d \in Nat
         /\ (a \div d) * d <= a
         /\ a < (a \div d) * d + d
  OBVIOUS

\* A product of naturals grows with its factor.
LEMMA ProductMonotone ==
  ASSUME NEW a \in Nat, NEW b \in Nat, NEW c \in Nat, b <= c
  PROVE  a * b <= a * c
<1>1. PICK k \in Nat : c = b + k
  <2>1. c = b + (c - b) /\ c - b \in Nat
    OBVIOUS
  <2>2. QED
    BY <2>1
<1>2. a * c = a * b + a * k /\ a * k \in Nat /\ a * b \in Nat
  BY <1>1
<1>3. QED
  BY <1>2

\* A quotient rounded down grows with the dividend.
LEMMA QuotientMonotone ==
  ASSUME NEW a \in Nat, NEW b \in Nat, a <= b, NEW d \in Nat \ {0}
  PROVE  a \div d <= b \div d
<1> DEFINE p == a \div d
           q == b \div d
<1>1. p \in Nat /\ q \in Nat /\ p * d <= a /\ b < q * d + d
  BY DivisionBounds
<1> HIDE DEF p, q
<1>2. SUFFICES ASSUME p > q PROVE FALSE
  BY <1>1 DEF p, q
<1>3. PICK k \in Nat : p = q + 1 + k
  <2>1. p = q + 1 + (p - q - 1) /\ p - q - 1 \in Nat
    BY <1>1, <1>2
  <2>2. QED
    BY <2>1
<1>4. p * d = q * d + d + k * d /\ k * d \in Nat /\ q * d \in Nat
  BY <1>1, <1>3
<1>5. QED
  BY <1>1, <1>4

\* A common factor is cancelled.
LEMMA FactorCancelled ==
  ASSUME NEW a \in Int, NEW b \in Int, NEW d \in Nat \ {0}
  PROVE  /\ a * d <= b * d => a <= b
         /\ a * d < b * d => a < b
<1>1. ASSUME a * d <= b * d, b < a PROVE FALSE
  <2>1. PICK k \in Nat : a = b + 1 + k
    <3>1. a = b + 1 + (a - b - 1) /\ a - b - 1 \in Nat
      BY <1>1
    <3>2. QED
      BY <3>1
  <2>2. a * d = b * d + d + k * d /\ k * d \in Nat /\ b * d \in Int
    BY <2>1
  <2>3. QED
    BY <1>1, <2>2
<1>2. a * d < b * d => a # b
  OBVIOUS
<1>3. QED
  BY <1>1, <1>2

\* A common factor keeps an inequality strict.
LEMMA StrictFactor ==
  ASSUME NEW a \in Nat, NEW b \in Nat, a < b, NEW d \in Nat \ {0}
  PROVE  a * d < b * d
<1>1. (a + 1) * d <= b * d
  <2>1. d * (a + 1) <= d * b
    BY ProductMonotone
  <2>2. QED
    BY <2>1
<1>2. (a + 1) * d = a * d + d /\ a * d \in Nat /\ b * d \in Nat
  OBVIOUS
<1>3. QED
  BY <1>1, <1>2

-----------------------------------------------------------------------------
(* Least elements *)

LEMMA LeastNatural ==
  ASSUME NEW S, S \subseteq Nat, S # {}
  PROVE  \E m \in S : \A k \in S : m <= k
<1> DEFINE R == OpToRel(<, Nat)
<1>1. IsWellFoundedOn(R, Nat)
  BY NatLessThanWellFounded
<1>2. \E m \in S : \A k \in S : <<k, m>> \notin R
  <2> HIDE DEF R
  <2> QED
    BY <1>1, WFMin
<1>3. ASSUME NEW m \in S, NEW k \in S, <<k, m>> \notin R PROVE m <= k
  BY <1>3 DEF OpToRel
<1>4. QED
  <2> HIDE DEF R
  <2> QED
    BY <1>2, <1>3

LEMMA MinimalSet ==
  ASSUME NEW S, IsFiniteSet(S), NEW F \in SUBSET SUBSET S, F # {}
  PROVE  \E T \in F : IsFiniteSet(T) /\ \A U \in SUBSET T : U # T => U \notin F
<1> DEFINE R == StrictSubsetOrdering(S)
           All == FiniteSubsetsOf(S)
<1>1. IsWellFoundedOn(R, All) /\ All = SUBSET S
  BY FS_StrictSubsetOrderingWellFounded, FS_FiniteSubsetsOfFinite
<1>2. F \subseteq All
  BY <1>1
<1> HIDE DEF R, All
<1>3. PICK T \in F : \A U \in F : <<U, T>> \notin R
  BY <1>1, <1>2, WFMin
<1>4. IsFiniteSet(T)
  BY FS_Subset
<1>5. ASSUME NEW U \in SUBSET T, U # T, U \in F PROVE FALSE
  <2>1. <<U, T>> \in R
    BY <1>5 DEF R, StrictSubsetOrdering
  <2>2. QED
    BY <1>3, <1>5, <2>1
<1>6. QED
  BY <1>4, <1>5

-----------------------------------------------------------------------------
(* The recursion that the sum is defined by *)

Chosen(s) == CHOOSE x \in s : TRUE

AddsUp(sum, h, S) ==
  sum = [s \in SUBSET S |-> IF s = {} THEN 0 ELSE h[Chosen(s)] + sum[s \ {Chosen(s)}]]

LEMMA ChosenIsElement == ASSUME NEW s, s # {} PROVE Chosen(s) \in s
  BY DEF Chosen

LEMMA SumIsChosen ==
  ASSUME NEW h, NEW S
  PROVE  SumFunctionOnSet(h, S) = (CHOOSE sum : AddsUp(sum, h, S))[S]
  BY DEF SumFunctionOnSet, FoldFunctionOnSet, MapThenFoldSet, AddsUp, Chosen

LEMMA AddsUpStep ==
  ASSUME NEW sum, NEW h, NEW S, AddsUp(sum, h, S), NEW s \in SUBSET S, s # {}
  PROVE  sum[s] = h[Chosen(s)] + sum[s \ {Chosen(s)}]
  BY DEF AddsUp

LEMMA AddsUpEmpty ==
  ASSUME NEW sum, NEW h, NEW S, AddsUp(sum, h, S)
  PROVE  sum[{}] = 0
  BY DEF AddsUp

LEMMA AddsUpUnique ==
  ASSUME NEW h, NEW A, NEW B, NEW f, NEW g, AddsUp(f, h, A), AddsUp(g, h, B),
         NEW C \in SUBSET (A \cap B), IsFiniteSet(C)
  PROVE  f[C] = g[C]
<1> SUFFICES ASSUME f[C] # g[C] PROVE FALSE
  OBVIOUS
<1> DEFINE F == {T \in SUBSET C : f[T] # g[T]}
<1>1. F \in SUBSET SUBSET C /\ F # {}
  OBVIOUS
<1>2. PICK T \in F : \A U \in SUBSET T : U # T => U \notin F
  <2> HIDE DEF F
  <2>1. QED
    BY <1>1, MinimalSet
<1>3. T # {}
  BY <1>2, AddsUpEmpty
<1> DEFINE U == T \ {Chosen(T)}
<1>4. U \in SUBSET T /\ U # T
  BY <1>3, ChosenIsElement
<1>5. f[U] = g[U]
  BY <1>2, <1>4
<1>6. T \in SUBSET A /\ T \in SUBSET B
  BY <1>2
<1>7. f[T] = h[Chosen(T)] + f[U] /\ g[T] = h[Chosen(T)] + g[U]
  BY <1>3, <1>6, AddsUpStep
<1>8. QED
  BY <1>2, <1>5, <1>7

LEMMA AddsUpExists ==
  ASSUME NEW h, NEW S, IsFiniteSet(S)
  PROVE  \E sum : AddsUp(sum, h, S)
<1> SUFFICES ASSUME ~ \E sum : AddsUp(sum, h, S) PROVE FALSE
  OBVIOUS
<1> DEFINE F == {T \in SUBSET S : ~ \E sum : AddsUp(sum, h, T)}
<1>1. F \in SUBSET SUBSET S /\ F # {}
  OBVIOUS
<1>2. PICK T \in F : IsFiniteSet(T) /\ \A U \in SUBSET T : U # T => U \notin F
  <2> HIDE DEF F
  <2>1. QED
    BY <1>1, MinimalSet
<1> DEFINE Of(U) == CHOOSE sum : AddsUp(sum, h, U)
           sum   == [s \in SUBSET T |-> IF s = {} THEN 0
                                        ELSE h[Chosen(s)] + Of(s \ {Chosen(s)})[s \ {Chosen(s)}]]
<1>3. ASSUME NEW U \in SUBSET T, U # T PROVE AddsUp(Of(U), h, U)
  BY <1>2, <1>3
<1> HIDE DEF Of
<1>4. ASSUME NEW U \in SUBSET T, U # T PROVE sum[U] = Of(U)[U]
  <2>1. CASE U = {}
    BY <1>3, <1>4, <2>1, AddsUpEmpty
  <2>2. CASE U # {}
    <3> DEFINE V == U \ {Chosen(U)}
    <3>1. Chosen(U) \in U
      BY <2>2, ChosenIsElement
    <3>2. V \in SUBSET T /\ V # T /\ V \in SUBSET U /\ V \in SUBSET (U \cap V)
      BY <1>4
    <3>3. IsFiniteSet(V)
      BY <1>2, <3>2, FS_Subset
    <3>4. AddsUp(Of(U), h, U) /\ AddsUp(Of(V), h, V)
      BY <1>3, <1>4, <3>2
    <3>5. Of(U)[V] = Of(V)[V]
      <4> HIDE DEF V
      <4>1. QED
        BY <3>2, <3>3, <3>4, AddsUpUnique
    <3>6. Of(U)[U] = h[Chosen(U)] + Of(U)[V]
      BY <2>2, <3>4, AddsUpStep
    <3>7. QED
      BY <1>4, <2>2, <3>5, <3>6
  <2>3. QED
    BY <2>1, <2>2
<1>5. ASSUME NEW s \in SUBSET T, s # {}
      PROVE  sum[s] = h[Chosen(s)] + sum[s \ {Chosen(s)}]
  <2>1. Chosen(s) \in s
    BY <1>5, ChosenIsElement
  <2>2. s \ {Chosen(s)} \in SUBSET T /\ s \ {Chosen(s)} # T
    BY <2>1
  <2>3. sum[s \ {Chosen(s)}] = Of(s \ {Chosen(s)})[s \ {Chosen(s)}]
    BY <1>4, <2>2
  <2>4. QED
    BY <1>5, <2>3
<1>6. AddsUp(sum, h, T)
  BY <1>5 DEF AddsUp
<1>7. QED
  BY <1>2, <1>6

-----------------------------------------------------------------------------
(* The laws of sums *)

LEMMA SumAddsUp ==
  ASSUME NEW h, NEW S, IsFiniteSet(S)
  PROVE  \E sum : /\ AddsUp(sum, h, S)
                  /\ \A T \in SUBSET S : SumFunctionOnSet(h, T) = sum[T]
<1>1. \A T \in SUBSET S : IsFiniteSet(T)
  BY FS_Subset
<1> DEFINE sum(T) == CHOOSE sum : AddsUp(sum, h, T)
<1>2. \A T \in SUBSET S : AddsUp(sum(T), h, T)
  BY <1>1, AddsUpExists
<1>3. \A T \in SUBSET S : SumFunctionOnSet(h, T) = sum(T)[T]
  BY SumIsChosen
<1> HIDE DEF sum
<1>4. ASSUME NEW T \in SUBSET S PROVE sum(T)[T] = sum(S)[T]
  BY <1>1, <1>2, AddsUpUnique
<1>5. QED
  BY <1>2, <1>3, <1>4

LEMMA SumEmpty == ASSUME NEW h PROVE SumFunctionOnSet(h, {}) = 0
  BY SumAddsUp, AddsUpEmpty, FS_EmptySet

LEMMA SumStep ==
  ASSUME NEW h, NEW S, IsFiniteSet(S), S # {}
  PROVE  SumFunctionOnSet(h, S) = h[Chosen(S)] + SumFunctionOnSet(h, S \ {Chosen(S)})
<1>1. PICK sum : AddsUp(sum, h, S) /\ \A T \in SUBSET S : SumFunctionOnSet(h, T) = sum[T]
  BY SumAddsUp
<1>2. sum[S] = h[Chosen(S)] + sum[S \ {Chosen(S)}]
  BY <1>1, AddsUpStep
<1>3. QED
  BY <1>1, <1>2

\* Functions with the same values have the same sum.
LEMMA SumSame ==
  ASSUME NEW g, NEW h, NEW S, IsFiniteSet(S), \A x \in S : g[x] = h[x]
  PROVE  SumFunctionOnSet(g, S) = SumFunctionOnSet(h, S)
<1> DEFINE F == {T \in SUBSET S : SumFunctionOnSet(g, T) # SumFunctionOnSet(h, T)}
<1> SUFFICES ASSUME F # {} PROVE FALSE
  OBVIOUS
<1>1. F \in SUBSET SUBSET S
  OBVIOUS
<1>2. PICK T \in F : IsFiniteSet(T) /\ \A U \in SUBSET T : U # T => U \notin F
  <2> HIDE DEF F
  <2>1. QED
    BY <1>1, MinimalSet
<1>3. T # {}
  BY SumEmpty
<1>4. Chosen(T) \in T /\ T \in SUBSET S
  BY <1>3, ChosenIsElement
<1>5. SumFunctionOnSet(g, T \ {Chosen(T)}) = SumFunctionOnSet(h, T \ {Chosen(T)})
  BY <1>2, <1>4
<1>6. QED
  BY <1>2, <1>3, <1>4, <1>5, SumStep

LEMMA SumType ==
  ASSUME NEW h, NEW S, IsFiniteSet(S), \A x \in S : h[x] \in Int
  PROVE  SumFunctionOnSet(h, S) \in Int
<1> DEFINE F == {T \in SUBSET S : SumFunctionOnSet(h, T) \notin Int}
<1> SUFFICES ASSUME F # {} PROVE FALSE
  OBVIOUS
<1>1. F \in SUBSET SUBSET S
  OBVIOUS
<1>2. PICK T \in F : IsFiniteSet(T) /\ \A U \in SUBSET T : U # T => U \notin F
  <2> HIDE DEF F
  <2>1. QED
    BY <1>1, MinimalSet
<1>3. T # {}
  BY SumEmpty
<1>4. Chosen(T) \in T /\ T \in SUBSET S
  BY <1>3, ChosenIsElement
<1>5. SumFunctionOnSet(h, T \ {Chosen(T)}) \in Int
  BY <1>2, <1>4
<1>6. QED
  BY <1>2, <1>3, <1>4, <1>5, SumStep

\* Any element can be taken out, whichever the definition takes first.
LEMMA SumRemove ==
  ASSUME NEW h, NEW S, IsFiniteSet(S), \A y \in S : h[y] \in Int, NEW x \in S
  PROVE  SumFunctionOnSet(h, S) = h[x] + SumFunctionOnSet(h, S \ {x})
<1> DEFINE sum(T) == SumFunctionOnSet(h, T)
           F == {T \in SUBSET S : \E z \in T : sum(T) # h[z] + sum(T \ {z})}
<1> SUFFICES ASSUME F # {} PROVE FALSE
  OBVIOUS
<1>1. F \in SUBSET SUBSET S
  OBVIOUS
<1>2. PICK T \in F : IsFiniteSet(T) /\ \A U \in SUBSET T : U # T => U \notin F
  <2> HIDE DEF F
  <2>1. QED
    BY <1>1, MinimalSet
<1>3. PICK z \in T : sum(T) # h[z] + sum(T \ {z})
  BY <1>2
<1> DEFINE y == Chosen(T)
<1>4. y \in T /\ T \in SUBSET S
  BY <1>3, ChosenIsElement
<1>5. sum(T) = h[y] + sum(T \ {y})
  BY <1>2, <1>3, SumStep
<1>6. y # z
  BY <1>3, <1>5
<1> DEFINE U == (T \ {y}) \ {z}
<1>7. U = (T \ {z}) \ {y} /\ U \in SUBSET S
  BY <1>4
<1>8. sum(U) \in Int
  BY <1>7, SumType, FS_Subset
<1> HIDE DEF sum, y
<1>9. sum(T \ {y}) = h[z] + sum(U)
  BY <1>2, <1>4, <1>6
<1>10. sum(T \ {z}) = h[y] + sum(U)
  <2>1. y \in T \ {z} /\ T \ {z} \in SUBSET T /\ T \ {z} # T
    BY <1>3, <1>4, <1>6
  <2>2. sum(T \ {z}) = h[y] + sum((T \ {z}) \ {y})
    BY <1>2, <1>4, <2>1
  <2>3. QED
    BY <1>7, <2>2
<1> HIDE DEF U
<1>11. h[y] \in Int /\ h[z] \in Int
  BY <1>3, <1>4
<1>12. QED
  BY <1>3, <1>5, <1>8, <1>9, <1>10, <1>11

\* A sum of differences.
LEMMA SumTelescopes ==
  ASSUME NEW n \in Nat, NEW f, NEW h,
         \A i \in 0..n : f[i] \in Int,
         \A i \in 1..n : h[i] = f[i] - f[i-1]
  PROVE  SumFunctionOnSet(h, 1..n) = f[n] - f[0]
<1> DEFINE sum(k) == SumFunctionOnSet(h, 1..k)
           F == {k \in 0..n : sum(k) # f[k] - f[0]}
<1> SUFFICES ASSUME F # {} PROVE FALSE
  OBVIOUS
<1>1. PICK k \in F : \A j \in F : k <= j
  <2>1. F \subseteq Nat
    OBVIOUS
  <2> HIDE DEF F
  <2>2. QED
    BY <2>1, LeastNatural
<1>2. k # 0
  <2>1. 1..0 = {} /\ f[0] \in Int
    OBVIOUS
  <2>2. sum(0) = f[0] - f[0]
    BY <2>1, SumEmpty
  <2>3. QED
    BY <2>2
<1>3. k \in 1..n /\ k - 1 \in 0..n /\ k - 1 \notin F
  BY <1>1, <1>2
<1>4. sum(k - 1) = f[k-1] - f[0]
  BY <1>3
<1>5. sum(k) = h[k] + sum(k - 1)
  <2>1. (1..k) \ {k} = 1..(k-1) /\ k \in 1..k
    <3>1. k \in Int /\ 1 <= k
      BY <1>3
    <3>2. QED
      BY ONLY <3>1
  <2>2. ASSUME NEW i \in 1..k PROVE h[i] \in Int
    <3>1. i \in 1..n /\ i \in 0..n /\ i - 1 \in 0..n
      BY <1>3
    <3>2. f[i] \in Int /\ f[i-1] \in Int /\ h[i] = f[i] - f[i-1]
      BY <3>1
    <3>3. QED
      BY <3>2
  <2>3. IsFiniteSet(1..k)
    BY <1>3, FS_Interval
  <2> DEFINE D == 1..k
  <2>4. SumFunctionOnSet(h, D) = h[k] + SumFunctionOnSet(h, D \ {k})
    <3>1. k \in D /\ IsFiniteSet(D) /\ \A i \in D : h[i] \in Int
      BY <2>1, <2>2, <2>3
    <3> HIDE DEF D, F, sum
    <3>2. QED
      BY <3>1, SumRemove
  <2>5. QED
    BY <2>1, <2>4
<1>6. h[k] = f[k] - f[k-1] /\ f[k] \in Int /\ f[k-1] \in Int /\ f[0] \in Int
  BY <1>3
<1> HIDE DEF sum
<1>7. sum(k) = f[k] - f[0]
  BY <1>4, <1>5, <1>6
<1>8. QED
  BY <1>1, <1>7

\* The parts of a finite set, each counted for itself.
CountsParts(h, S, part, D) ==
  /\ \A d \in D : part[d] \in S
  /\ \A x \in S : h[x] = Cardinality({d \in D : part[d] = x})

LEMMA SumOfParts ==
  ASSUME NEW D, IsFiniteSet(D), NEW S, IsFiniteSet(S), NEW part, NEW h,
         CountsParts(h, S, part, D)
  PROVE  SumFunctionOnSet(h, S) = Cardinality(D)
<1> USE DEF CountsParts
<1> DEFINE Within(T) == {d \in D : part[d] \in T}
           Part(x)   == {d \in D : part[d] = x}
           F == {T \in SUBSET S : SumFunctionOnSet(h, T) # Cardinality(Within(T))}
<1>1. ASSUME F # {} PROVE FALSE
  <2>1. PICK T \in F : IsFiniteSet(T) /\ \A U \in SUBSET T : U # T => U \notin F
    <3>1. F \in SUBSET SUBSET S
      OBVIOUS
    <3> HIDE DEF F
    <3>2. QED
      BY <1>1, <3>1, MinimalSet
  <2>2. T # {}
    BY SumEmpty, FS_EmptySet
  <2>3. PICK x \in T : TRUE
    BY <2>2
  <2> DEFINE U == T \ {x}
  <2>4. U \in SUBSET T /\ U # T /\ T \in SUBSET S
    OBVIOUS
  <2>5. SumFunctionOnSet(h, U) = Cardinality(Within(U))
    BY <2>1, <2>4
  <2>6. IsFiniteSet(Within(U)) /\ IsFiniteSet(Part(x))
    BY FS_Subset
  <2>7. /\ Within(T) = Within(U) \cup Part(x) /\ Within(U) \cap Part(x) = {}
    OBVIOUS
  <2> HIDE DEF Within, Part
  <2>8. Cardinality(Within(T)) = Cardinality(Within(U)) + Cardinality(Part(x))
    <3>1. Cardinality(Within(U)) \in Nat /\ Cardinality(Part(x)) \in Nat
      BY <2>6, FS_CardinalityType
    <3>2. Cardinality(Within(U) \cap Part(x)) = 0
      BY <2>7, FS_EmptySet
    <3>3. Cardinality(Within(U) \cup Part(x))
            = Cardinality(Within(U)) + Cardinality(Part(x)) - Cardinality(Within(U) \cap Part(x))
      BY <2>6, FS_Union
    <3>4. QED
      BY <2>7, <3>1, <3>2, <3>3
  <2>9. \A y \in T : h[y] \in Int
    <3>1. \A y \in S : h[y] = Cardinality(Part(y)) /\ IsFiniteSet(Part(y))
      BY FS_Subset DEF Part
    <3>2. QED
      BY <2>4, <3>1, FS_CardinalityType
  <2>10. SumFunctionOnSet(h, T) = h[x] + SumFunctionOnSet(h, U)
    BY <2>1, <2>9, SumRemove
  <2>11. h[x] = Cardinality(Part(x)) /\ Cardinality(Part(x)) \in Nat /\ Cardinality(Within(U)) \in Nat
    BY <2>4, <2>6, FS_CardinalityType DEF Part
  <2>12. QED
    BY <2>5, <2>8, <2>10, <2>11
<1>2. Within(S) = D
  OBVIOUS
<1>3. QED
  BY <1>1, <1>2

-----------------------------------------------------------------------------
(* Sequences of the elements of a set, and sorting *)

LEMMA SetToSeqIsBijection ==
  ASSUME NEW S, IsFiniteSet(S)
  PROVE  /\ SetToSeq(S) \in [1..Cardinality(S) -> S]
         /\ IsInjective(SetToSeq(S))
         /\ \A x \in S : \E i \in 1..Cardinality(S) : SetToSeq(S)[i] = x
         /\ Cardinality(S) \in Nat
<1> DEFINE n == Cardinality(S)
           s == SetToSeq(S)
<1>1. n \in Nat /\ ExistsBijection(1..n, S)
  BY FS_CardinalityType
<1>2. \E f \in [1..n -> S] : IsInjective(f)
  BY <1>1 DEF ExistsBijection, Bijection, Injection
<1>3. s \in [1..n -> S] /\ IsInjective(s)
  BY <1>2 DEF SetToSeq
<1>4. IsFiniteSet(1..n) /\ Cardinality(1..n) = n
  BY <1>1, FS_Interval
<1>5. s \in Injection(1..n, S)
  BY <1>3 DEF Injection
<1> HIDE DEF n, s
<1>6. s \in Surjection(1..n, S)
  BY <1>4, <1>5, FS_Injection DEF n
<1>7. QED
  BY <1>1, <1>3, <1>6 DEF Surjection, n, s

LEMMA LargestExists ==
  ASSUME NEW D, IsFiniteSet(D), D # {}, NEW a, \A d \in D : a[d] \in Int
  PROVE  \E m \in D : \A d \in D : a[d] <= a[m]
<1> DEFINE F == {T \in SUBSET D : T # {} /\ ~ \E m \in T : \A d \in T : a[d] <= a[m]}
<1> SUFFICES ASSUME F # {} PROVE FALSE
  OBVIOUS
<1>1. PICK T \in F : \A U \in SUBSET T : U # T => U \notin F
  <2>1. F \in SUBSET SUBSET D
    OBVIOUS
  <2> HIDE DEF F
  <2>2. QED
    BY <2>1, MinimalSet
<1>2. PICK x \in T : TRUE
  BY <1>1
<1> DEFINE U == T \ {x}
<1>3. U \notin F /\ U \in SUBSET D /\ T \in SUBSET D /\ x \in D
  <2>1. T \in SUBSET D
    BY <1>1
  <2>2. U \in SUBSET T /\ U # T
    BY <1>2
  <2> HIDE DEF F, U
  <2>3. U \notin F
    BY <1>1, <2>2
  <2>4. QED
    BY <1>2, <2>1, <2>2, <2>3
<1>4. CASE U = {}
  BY <1>1, <1>2, <1>3, <1>4
<1>5. CASE U # {}
  <2>1. PICK m \in U : \A d \in U : a[d] <= a[m]
    BY <1>3, <1>5
  <2>2. \E k \in {m, x} : a[m] <= a[k] /\ a[x] <= a[k]
    BY <1>3, <2>1
  <2>3. PICK k \in T : a[m] <= a[k] /\ a[x] <= a[k]
    BY <1>2, <2>1, <2>2
  <2>4. \A d \in T : a[d] <= a[k]
    BY <1>3, <2>1, <2>3
  <2>5. QED
    BY <1>1, <2>3, <2>4
<1>6. QED
  BY <1>4, <1>5

Sorts(order, a, D) ==
  /\ order \in Injection(1..Cardinality(D), D)
  /\ \A i, j \in DOMAIN order : i < j => a[order[i]] <= a[order[j]]

\* The elements of a finite set can be put in the order of their values.
LEMMA SortingExists ==
  ASSUME NEW D, IsFiniteSet(D), NEW a, \A d \in D : a[d] \in Int
  PROVE  \E order : Sorts(order, a, D)
<1> DEFINE F == {T \in SUBSET D : ~ \E order : Sorts(order, a, T)}
<1> SUFFICES ASSUME F # {} PROVE FALSE
  OBVIOUS
<1>1. PICK T \in F : IsFiniteSet(T) /\ \A U \in SUBSET T : U # T => U \notin F
  <2>1. F \in SUBSET SUBSET D
    OBVIOUS
  <2> HIDE DEF F
  <2>2. QED
    BY <2>1, MinimalSet
<1>2. T # {}
  <2>1. SUFFICES ASSUME T = {} PROVE \E order : Sorts(order, a, {})
    BY <1>1
  <2>2. 1..0 = {} /\ Cardinality({}) = 0
    BY FS_EmptySet
  <2>3. Sorts([i \in 1..0 |-> i], a, {})
    BY <2>2 DEF Sorts, Injection, IsInjective
  <2>4. QED
    BY <2>3
<1>3. PICK m \in T : \A d \in T : a[d] <= a[m]
  BY <1>1, <1>2, LargestExists
<1> DEFINE U == T \ {m}
           n == Cardinality(T)
<1>4. U \in SUBSET T /\ U # T /\ U \notin F /\ U \in SUBSET D
  BY <1>1
<1>5. PICK rest : Sorts(rest, a, U)
  BY <1>4
<1>6. Cardinality(U) = n - 1 /\ n \in Nat /\ n > 0
  BY <1>1, <1>2, FS_RemoveElement, FS_CardinalityType, FS_EmptySet
<1>7. rest \in [1..n-1 -> U] /\ IsInjective(rest)
      /\ \A i, j \in 1..n-1 : i < j => a[rest[i]] <= a[rest[j]]
  BY <1>5, <1>6 DEF Sorts, Injection
<1> DEFINE order == [i \in 1..n |-> IF i = n THEN m ELSE rest[i]]
<1>8. order \in [1..n -> T]
  <2>1. \A i \in 1..n : i # n => i \in 1..n-1
    BY <1>6
  <2>2. QED
    BY <1>7, <2>1
<1> HIDE DEF n, U
<1>9. IsInjective(order)
  <2>1. ASSUME NEW i \in 1..n, NEW j \in 1..n, order[i] = order[j] PROVE i = j
    <3>1. \A k \in 1..n : k # n => k \in 1..n-1 /\ rest[k] # m
      BY <1>6, <1>7 DEF U
    <3>2. QED
      BY <1>7, <2>1, <3>1 DEF IsInjective
  <2>2. QED
    BY <2>1 DEF IsInjective
<1>10. ASSUME NEW i \in 1..n, NEW j \in 1..n, i < j PROVE a[order[i]] <= a[order[j]]
  <2>1. i \in 1..n-1 /\ i # n
    BY <1>6, <1>10
  <2>2. order[i] = rest[i] /\ rest[i] \in T
    BY <1>7, <2>1 DEF U
  <2>3. CASE j = n
    BY <1>3, <2>2, <2>3
  <2>4. CASE j # n
    <3>1. j \in 1..n-1
      BY <1>6, <2>4
    <3>2. QED
      BY <1>7, <1>10, <2>1, <2>2, <2>4, <3>1
  <2>5. QED
    BY <2>3, <2>4
<1>11. Sorts(order, a, T)
  BY <1>8, <1>9, <1>10 DEF Sorts, Injection, n
<1>12. QED
  BY <1>1, <1>11
=============================================================================
