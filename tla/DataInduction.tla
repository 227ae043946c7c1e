---------------------------- MODULE DataInduction ----------------------------
(***************************************************************************)
(* Induction over the natural numbers and over finite sets in a first-     *)
(* order form, for the proofs about what the models' recursive functions   *)
(* and folds compute.  The theorems of the library take the induction      *)
(* hypothesis as an operator; here it is a set.                            *)
(***************************************************************************)
EXTENDS Sieve, NaturalsInduction, WellFoundedInduction, FiniteSetTheorems, TLAPS

(* A set of natural numbers that is not empty has a smallest element.      *)
LEMMA Least ==
    ASSUME NEW T \in SUBSET Nat, T # {}
    PROVE  \E m \in T : \A k \in T : m <= k
<1> DEFINE less == OpToRel(<, Nat)
<1>1. IsWellFoundedOn(less, Nat)
  BY NatLessThanWellFounded
<1>2. PICK m \in T : \A k \in T : <<k, m>> \notin less
  <2> HIDE DEF less
  <2> QED BY <1>1, WFMin
<1>3. less = {p \in Nat \X Nat : p[1] < p[2]}
  BY DEF OpToRel
<1>4. ASSUME NEW k \in T PROVE m <= k
  <2>1. <<k, m>> \notin {p \in Nat \X Nat : p[1] < p[2]}
    BY <1>2, <1>3
  <2> QED BY <2>1
<1> QED BY <1>4

(* A set that holds 0, and with each number its successor, holds them all.  *)
LEMMA SetInduction ==
    ASSUME NEW S, 0 \in S, \A n \in Nat : n \in S => n + 1 \in S
    PROVE  Nat \subseteq S
<1> SUFFICES ASSUME Nat \ S # {} PROVE FALSE
  OBVIOUS
<1>1. PICK m \in Nat \ S : \A k \in Nat \ S : m <= k
  BY Least
<1>2. m # 0 /\ m - 1 \in Nat /\ m - 1 \in S
  BY <1>1
<1> QED BY <1>2

(* A family that holds the empty set, and with a part of a finite set what  *)
(* one more element of it makes of the part, holds the finite set.          *)
LEMMA FiniteInduction ==
    ASSUME NEW S, IsFiniteSet(S), NEW F, {} \in F,
           \A T \in SUBSET S : \A x \in S : T \in F => T \union {x} \in F
    PROVE  S \in F
<1>1. PICK n \in Nat : ExistsSurjection(1..n, S)
  BY FS_NatSurjection
<1>2. PICK f \in Surjection(1..n, S) : TRUE
  BY <1>1 DEF ExistsSurjection
<1>3. f \in [1..n -> S] /\ \A x \in S : \E i \in 1..n : f[i] = x
  BY <1>2 DEF Surjection
<1> DEFINE Image(k) == {f[i] : i \in 1..k}
           N == {k \in Nat : k <= n => Image(k) \in F}
<1>4. 0 \in N
  <2>1. Image(0) = {}
    OBVIOUS
  <2> QED BY <2>1
<1>5. ASSUME NEW k \in Nat, k \in N PROVE k + 1 \in N
  <2> SUFFICES ASSUME k + 1 <= n PROVE Image(k + 1) \in F
    OBVIOUS
  <2>1. Image(k) \in SUBSET S /\ Image(k) \in F /\ f[k + 1] \in S
    BY <1>3, <1>5
  <2>2. Image(k + 1) = Image(k) \union {f[k + 1]}
    <3>1. 1..(k + 1) = (1..k) \union {k + 1}
      OBVIOUS
    <3> QED BY <3>1
  <2> QED BY <2>1, <2>2
<1> HIDE DEF N
<1>6. n \in N
  BY <1>4, <1>5, SetInduction
<1>7. Image(n) = S
  BY <1>3
<1>8. Image(n) \in F
  <2> HIDE DEF Image
  <2> QED BY <1>6 DEF N
<1> QED BY <1>7, <1>8

(* A set of finitely many finite sets has finitely many members.            *)
LEMMA FiniteUnion ==
    ASSUME NEW S, IsFiniteSet(S), NEW T, IsFiniteSet(T)
    PROVE  IsFiniteSet(S \union T)
<1> DEFINE F == {U \in SUBSET T : IsFiniteSet(S \union U)}
<1>1. {} \in F
  <2>1. S \union {} = S
    OBVIOUS
  <2> QED BY <2>1
<1>2. ASSUME NEW U \in SUBSET T, NEW x \in T, U \in F PROVE U \union {x} \in F
  <2>1. S \union (U \union {x}) = (S \union U) \union {x}
    OBVIOUS
  <2>2. IsFiniteSet((S \union U) \union {x})
    BY <1>2, FS_AddElement
  <2> QED BY <2>1, <2>2
<1> HIDE DEF F
<1>3. T \in F
  BY <1>1, <1>2, FiniteInduction
<1> QED BY <1>3 DEF F

LEMMA FiniteUnions ==
    ASSUME NEW S, IsFiniteSet(S), NEW f, \A x \in S : IsFiniteSet(f[x])
    PROVE  IsFiniteSet(UNION {f[x] : x \in S})
<1> DEFINE All(U) == UNION {f[x] : x \in U}
           F == {U \in SUBSET S : IsFiniteSet(All(U))}
<1>1. {} \in F
  <2>1. All({}) = {}
    OBVIOUS
  <2> QED BY <2>1, FS_EmptySet
<1>2. ASSUME NEW U \in SUBSET S, NEW x \in S, U \in F PROVE U \union {x} \in F
  <2>1. All(U \union {x}) = All(U) \union f[x]
    OBVIOUS
  <2>2. IsFiniteSet(All(U)) /\ IsFiniteSet(f[x])
    BY <1>2
  <2> HIDE DEF All
  <2> QED BY <2>1, <2>2, FiniteUnion
<1> HIDE DEF F
<1>3. S \in F
  BY <1>1, <1>2, FiniteInduction
<1> QED BY <1>3 DEF F

LEMMA FiniteImage ==
    ASSUME NEW S, IsFiniteSet(S), NEW f
    PROVE  IsFiniteSet({f[x] : x \in S})
<1> DEFINE All(U) == {f[x] : x \in U}
           F == {U \in SUBSET S : IsFiniteSet(All(U))}
<1>1. {} \in F
  <2>1. All({}) = {}
    OBVIOUS
  <2> QED BY <2>1, FS_EmptySet
<1>2. ASSUME NEW U \in SUBSET S, NEW x \in S, U \in F PROVE U \union {x} \in F
  <2>1. All(U \union {x}) = All(U) \union {f[x]}
    OBVIOUS
  <2>2. IsFiniteSet(All(U))
    BY <1>2
  <2> HIDE DEF All
  <2>3. IsFiniteSet(All(U) \union {f[x]})
    BY <2>2, FS_AddElement
  <2>4. IsFiniteSet(All(U \union {x}))
    BY <2>1, <2>3
  <2> QED BY <2>4
<1> HIDE DEF F
<1>3. S \in F
  BY <1>1, <1>2, FiniteInduction
<1> QED BY <1>3 DEF F

(* Among finitely many values one has the greatest natural number.          *)
LEMMA Greatest ==
    ASSUME NEW S, IsFiniteSet(S), S # {}, NEW f, \A x \in S : f[x] \in Nat
    PROVE  \E b \in S : \A o \in S : f[b] >= f[o]
<1> DEFINE F == {U \in SUBSET S : U = {} \/ \E b \in U : \A o \in U : f[b] >= f[o]}
<1>1. {} \in F
  OBVIOUS
<1>2. ASSUME NEW U \in SUBSET S, NEW x \in S, U \in F PROVE U \union {x} \in F
  <2>1. CASE U = {}
    BY <2>1
  <2>2. CASE U # {}
    <3>1. PICK b \in U : \A o \in U : f[b] >= f[o]
      BY <1>2, <2>2
    <3>2. CASE f[b] >= f[x]
      BY <3>1, <3>2
    <3>3. CASE ~(f[b] >= f[x])
      <4>1. \A o \in U : f[x] >= f[o]
        BY <3>1, <3>3
      <4>2. f[x] >= f[x]
        OBVIOUS
      <4> QED BY <4>1, <4>2
    <3> QED BY <3>2, <3>3
  <2> QED BY <2>1, <2>2
<1> HIDE DEF F
<1>3. S \in F
  BY <1>1, <1>2, FiniteInduction
<1> QED BY <1>3 DEF F

-----------------------------------------------------------------------------
(* Without, by induction over the length of the sequence.                   *)
WithoutStep(s, values, f, k) ==
    IF k = 0 THEN << >> ELSE IF s[k] \in values THEN f[k - 1] ELSE Append(f[k - 1], s[k])
IsWithout(s, values, n, f) == f = [k \in 0..n |-> WithoutStep(s, values, f, k)]

LEMMA WithoutExists ==
    ASSUME NEW s, NEW values
    PROVE  \A n \in Nat : \E f : IsWithout(s, values, n, f)
<1> DEFINE S == {n \in Nat : \E f : IsWithout(s, values, n, f)}
<1>1. 0 \in S
  <2> DEFINE f == [k \in 0..0 |-> << >>]
  <2>1. IsWithout(s, values, 0, f)
    BY DEF IsWithout, WithoutStep
  <2> QED BY <2>1
<1>2. ASSUME NEW n \in Nat, n \in S PROVE n + 1 \in S
  <2>1. PICK f : f = [k \in 0..n |-> WithoutStep(s, values, f, k)]
    BY <1>2 DEF IsWithout
  <2> DEFINE g == [k \in 0..(n + 1) |-> IF k = n + 1 THEN WithoutStep(s, values, f, k) ELSE f[k]]
  <2>2. ASSUME NEW k \in 0..(n + 1) PROVE g[k] = WithoutStep(s, values, g, k)
    <3>1. CASE k = n + 1
      <4>1. f[k - 1] = g[k - 1] /\ g[k] = WithoutStep(s, values, f, k)
        BY <3>1
      <4> QED BY <3>1, <4>1 DEF WithoutStep
    <3>2. CASE k # n + 1
      <4>1. k \in 0..n /\ g[k] = f[k] /\ f[k] = WithoutStep(s, values, f, k)
        BY <2>1, <3>2
      <4>2. k # 0 => k - 1 \in 0..n /\ f[k - 1] = g[k - 1]
        BY <3>2
      <4> QED BY <4>1, <4>2 DEF WithoutStep
    <3> QED BY <3>1, <3>2
  <2>3. g = [k \in 0..(n + 1) |-> WithoutStep(s, values, g, k)]
    <3> HIDE DEF WithoutStep
    <3>1. g = [k \in 0..(n + 1) |-> g[k]]
      OBVIOUS
    <3> HIDE DEF g
    <3> QED BY <3>1, <2>2
  <2> HIDE DEF g
  <2> QED BY <2>3 DEF IsWithout
<1> HIDE DEF S
<1>3. Nat \subseteq S
  BY <1>1, <1>2, SetInduction
<1> QED BY <1>3 DEF S

(* The function of Without up to each length.                               *)
LEMMA WithoutIs ==
    ASSUME NEW s, NEW values, Len(s) \in Nat
    PROVE  \E f : /\ Without(s, values) = f[Len(s)] /\ f[0] = << >>
                  /\ \A k \in 1..Len(s) :
                       f[k] = IF s[k] \in values THEN f[k - 1] ELSE Append(f[k - 1], s[k])
<1> DEFINE F == CHOOSE f : f = [k \in 0..Len(s) |-> WithoutStep(s, values, f, k)]
<1>1. F = [k \in 0..Len(s) |-> WithoutStep(s, values, F, k)]
  <2>1. \E f : f = [k \in 0..Len(s) |-> WithoutStep(s, values, f, k)]
    BY WithoutExists DEF IsWithout
  <2> QED BY <2>1
<1>2. Without(s, values) = F[Len(s)]
  BY DEF Without, WithoutStep
<1> HIDE DEF F
<1>3. \A k \in 0..Len(s) : F[k] = WithoutStep(s, values, F, k)
  BY <1>1
<1>4. F[0] = << >> /\ \A k \in 1..Len(s) :
         F[k] = IF s[k] \in values THEN F[k - 1] ELSE Append(F[k - 1], s[k])
  BY <1>3 DEF WithoutStep
<1> QED BY <1>2, <1>4

LEMMA WithoutAppend ==
    ASSUME NEW T, NEW s \in Seq(T), NEW x, NEW values
    PROVE  Without(Append(s, x), values)
             = IF x \in values THEN Without(s, values) ELSE Append(Without(s, values), x)
<1> DEFINE n == Len(s)
           t == Append(s, x)
<1>1. /\ n \in Nat /\ t \in Seq(T \union {x}) /\ Len(t) = n + 1 /\ t[n + 1] = x
      /\ \A k \in 1..n : t[k] = s[k]
  OBVIOUS
<1> HIDE DEF n, t
<1>2. PICK f : /\ Without(s, values) = f[n] /\ f[0] = << >>
               /\ \A k \in 1..n : f[k] = IF s[k] \in values THEN f[k - 1] ELSE Append(f[k - 1], s[k])
  BY <1>1, WithoutIs DEF n
<1>3. PICK g : /\ Without(t, values) = g[Len(t)] /\ g[0] = << >>
               /\ \A k \in 1..Len(t) : g[k] = IF t[k] \in values THEN g[k - 1] ELSE Append(g[k - 1], t[k])
  <2>1. Len(t) \in Nat
    BY <1>1
  <2> QED BY <2>1, WithoutIs
<1> DEFINE S == {k \in Nat : k <= n => g[k] = f[k]}
<1>4. 0 \in S
  BY <1>2, <1>3
<1>5. ASSUME NEW k \in Nat, k \in S PROVE k + 1 \in S
  <2> SUFFICES ASSUME k + 1 <= n PROVE g[k + 1] = f[k + 1]
    OBVIOUS
  <2>1. k + 1 \in 1..n /\ k + 1 \in 1..Len(t) /\ (k + 1) - 1 = k /\ g[k] = f[k]
    BY <1>1, <1>5
  <2> QED BY <1>1, <1>2, <1>3, <2>1
<1> HIDE DEF S
<1>6. n \in S
  BY <1>1, <1>4, <1>5, SetInduction
<1>7. g[n] = f[n]
  BY <1>1, <1>6 DEF S
<1>8. n + 1 \in 1..Len(t) /\ (n + 1) - 1 = n
  BY <1>1
<1>9. g[n + 1] = IF x \in values THEN f[n] ELSE Append(f[n], x)
  BY <1>1, <1>3, <1>7, <1>8
<1> QED BY <1>1, <1>2, <1>3, <1>9 DEF t

LEMMA WithoutEmpty == \A values : Without(<< >>, values) = << >>
<1> TAKE values
<1>1. Len(<< >>) = 0
  OBVIOUS
<1> QED BY <1>1, WithoutIs

(* What is left are the values of the sequence but those.                   *)
LEMMA WithoutType ==
    ASSUME NEW T, NEW s \in Seq(T), NEW values
    PROVE  /\ Without(s, values) \in Seq(T \ values)
           /\ \A i \in DOMAIN s : s[i] \notin values =>
                \E m \in DOMAIN Without(s, values) : Without(s, values)[m] = s[i]
<1> DEFINE n == Len(s)
<1>1. n \in Nat /\ DOMAIN s = 1..n /\ \A k \in 1..n : s[k] \in T
  OBVIOUS
<1>2. PICK f : /\ Without(s, values) = f[n] /\ f[0] = << >>
               /\ \A k \in 1..n : f[k] = IF s[k] \in values THEN f[k - 1] ELSE Append(f[k - 1], s[k])
  <2>1. Len(s) \in Nat
    BY <1>1
  <2> QED BY ONLY <2>1, WithoutIs
<1> HIDE DEF n
<1> DEFINE Holds(k) == \A i \in 1..k : s[i] \notin values => \E m \in DOMAIN f[k] : f[k][m] = s[i]
           S == {k \in Nat : k <= n => f[k] \in Seq(T \ values) /\ Holds(k)}
<1>3. 0 \in S
  <2>1. Holds(0)
    OBVIOUS
  <2> HIDE DEF Holds
  <2>2. f[0] \in Seq(T \ values)
    BY <1>2
  <2> QED BY <2>1, <2>2
<1>4. ASSUME NEW k \in Nat, k \in S PROVE k + 1 \in S
  <2> SUFFICES ASSUME k + 1 <= n PROVE f[k + 1] \in Seq(T \ values) /\ Holds(k + 1)
    OBVIOUS
  <2>1. /\ k + 1 \in 1..n /\ (k + 1) - 1 = k /\ f[k] \in Seq(T \ values) /\ Holds(k)
        /\ 1..(k + 1) = (1..k) \union {k + 1}
    BY <1>1, <1>4
  <2> DEFINE u == f[k]
             x == s[k + 1]
  <2>2. CASE x \in values
    <3>1. f[k + 1] = u
      BY <1>2, <2>1, <2>2
    <3>2. \A i \in 1..(k + 1) : s[i] \notin values => i \in 1..k
      BY <2>1, <2>2
    <3> QED BY <2>1, <3>1, <3>2
  <2>3. CASE x \notin values
    <3>1. f[k + 1] = Append(u, x)
      BY <1>2, <2>1, <2>3
    <3>2. x \in T \ values /\ u \in Seq(T \ values)
      BY <1>1, <2>1, <2>3
    <3> HIDE DEF u, x
    <3> DEFINE w == Append(u, x)
    <3>3. /\ w \in Seq(T \ values) /\ Len(u) \in Nat
          /\ DOMAIN u = 1..Len(u) /\ DOMAIN w = 1..(Len(u) + 1)
          /\ w[Len(u) + 1] = x /\ \A m \in 1..Len(u) : w[m] = u[m]
      BY <3>2
    <3> HIDE DEF w
    <3>4. ASSUME NEW i \in 1..(k + 1), s[i] \notin values PROVE \E m \in DOMAIN w : w[m] = s[i]
      <4>1. CASE i = k + 1
        BY <3>3, <4>1 DEF x
      <4>2. CASE i \in 1..k
        <5>1. PICK m \in DOMAIN u : u[m] = s[i]
          BY <2>1, <3>4, <4>2 DEF u
        <5> QED BY <3>3, <5>1
      <4> QED BY <2>1, <4>1, <4>2
    <3> QED BY <3>1, <3>3, <3>4 DEF w
  <2> QED BY <2>2, <2>3
<1> HIDE DEF S
<1>5. n \in S
  BY <1>1, <1>3, <1>4, SetInduction
<1>6. f[n] \in Seq(T \ values) /\ Holds(n)
  BY <1>1, <1>5 DEF S
<1> QED BY <1>1, <1>2, <1>6

-----------------------------------------------------------------------------
(* Folds over finite sets take one chosen element after another.            *)
FoldStep(h, base, g, s) ==
    IF s = {} THEN base ELSE LET x == CHOOSE x \in s : TRUE IN h[<<x, g[s \ {x}]>>]
Small(S, n) == {s \in SUBSET S : Cardinality(s) <= n}

LEMMA Smaller ==
    ASSUME NEW S, IsFiniteSet(S), NEW n \in Nat, NEW s \in Small(S, n + 1), s # {}
    PROVE  LET x == CHOOSE x \in s : TRUE IN x \in s /\ s \ {x} \in Small(S, n)
<1> DEFINE x == CHOOSE x \in s : TRUE
<1>1. x \in s
  OBVIOUS
<1>2. IsFiniteSet(s) /\ s \in SUBSET S /\ Cardinality(s) <= n + 1
  BY FS_Subset DEF Small
<1> HIDE DEF x
<1>3. Cardinality(s \ {x}) = Cardinality(s) - 1
  BY <1>1, <1>2, FS_RemoveElement
<1>4. Cardinality(s) \in Nat
  BY <1>2, FS_CardinalityType
<1>5. s \ {x} \in Small(S, n)
  BY <1>2, <1>3, <1>4 DEF Small
<1> QED BY <1>1, <1>5 DEF x

LEMMA AllAreSmall ==
    ASSUME NEW S, IsFiniteSet(S)
    PROVE  Cardinality(S) \in Nat /\ Small(S, Cardinality(S)) = SUBSET S
<1>1. Cardinality(S) \in Nat
  BY FS_CardinalityType
<1>2. \A s \in SUBSET S : Cardinality(s) <= Cardinality(S)
  BY FS_Subset
<1> QED BY <1>1, <1>2 DEF Small

LEMMA SmallestIsEmpty ==
    ASSUME NEW S, IsFiniteSet(S), NEW s \in Small(S, 0)
    PROVE  s = {}
<1>1. IsFiniteSet(s) /\ Cardinality(s) <= 0
  BY FS_Subset DEF Small
<1> QED BY <1>1, FS_CardinalityType, FS_EmptySet

(* What holds of the empty set, and of a set when it holds of the set without *)
(* its chosen element, holds of all parts of a finite set.                    *)
LEMMA ChosenInduction ==
    ASSUME NEW S, IsFiniteSet(S), NEW F, {} \in F,
           \A s \in SUBSET S : s # {} /\ s \ {CHOOSE x \in s : TRUE} \in F => s \in F
    PROVE  SUBSET S \subseteq F
<1> DEFINE N == {n \in Nat : Small(S, n) \subseteq F}
<1>1. 0 \in N
  BY SmallestIsEmpty
<1>2. ASSUME NEW n \in Nat, n \in N PROVE n + 1 \in N
  <2> SUFFICES ASSUME NEW s \in Small(S, n + 1), s # {} PROVE s \in F
    OBVIOUS
  <2>1. s \ {CHOOSE x \in s : TRUE} \in F
    BY <1>2, Smaller
  <2> QED BY <2>1 DEF Small
<1> HIDE DEF N
<1>3. Nat \subseteq N
  BY <1>1, <1>2, SetInduction
<1> QED BY <1>3, AllAreSmall DEF N

IsFold(h, base, S, n, g) == g = [s \in Small(S, n) |-> FoldStep(h, base, g, s)]
IsFoldOf(h, base, S, g) == g = [s \in SUBSET S |-> FoldStep(h, base, g, s)]

LEMMA FoldExists ==
    ASSUME NEW S, IsFiniteSet(S), NEW h, NEW base
    PROVE  \E g : IsFoldOf(h, base, S, g)
<1> DEFINE N == {n \in Nat : \E g : IsFold(h, base, S, n, g)}
<1>1. 0 \in N
  <2> DEFINE g == [s \in Small(S, 0) |-> base]
  <2>1. g = [s \in Small(S, 0) |-> FoldStep(h, base, g, s)]
    BY SmallestIsEmpty DEF FoldStep
  <2> QED BY <2>1 DEF IsFold
<1>2. ASSUME NEW n \in Nat, n \in N PROVE n + 1 \in N
  <2>1. PICK f : f = [s \in Small(S, n) |-> FoldStep(h, base, f, s)]
    BY <1>2 DEF IsFold
  <2> DEFINE g == [s \in Small(S, n + 1) |-> IF s \in Small(S, n) THEN f[s] ELSE FoldStep(h, base, f, s)]
  <2>2. ASSUME NEW s \in Small(S, n + 1) PROVE g[s] = FoldStep(h, base, g, s)
    <3>1. g[s] = FoldStep(h, base, f, s)
      BY <2>1
    <3>2. CASE s = {}
      BY <3>1, <3>2 DEF FoldStep
    <3>3. CASE s # {}
      <4> DEFINE x == CHOOSE x \in s : TRUE
      <4>1. s \ {x} \in Small(S, n)
        BY <3>3, Smaller
      <4>2. s \ {x} \in Small(S, n + 1)
        <5>1. \A t \in SUBSET S : Cardinality(t) \in Nat
          BY FS_Subset, FS_CardinalityType
        <5> HIDE DEF x
        <5> QED BY <4>1, <5>1 DEF Small
      <4>3. g[s \ {x}] = f[s \ {x}]
        <5> HIDE DEF x
        <5> QED BY <4>1, <4>2
      <4> HIDE DEF g
      <4> QED BY <3>1, <3>3, <4>3 DEF FoldStep
    <3> QED BY <3>2, <3>3
  <2>3. g = [s \in Small(S, n + 1) |-> FoldStep(h, base, g, s)]
    <3> HIDE DEF FoldStep, Small
    <3>1. g = [s \in Small(S, n + 1) |-> g[s]]
      OBVIOUS
    <3> HIDE DEF g
    <3> QED BY <3>1, <2>2
  <2> HIDE DEF g
  <2> QED BY <2>3 DEF IsFold
<1> HIDE DEF N
<1>3. Nat \subseteq N
  BY <1>1, <1>2, SetInduction
<1>4. PICK g : IsFold(h, base, S, Cardinality(S), g)
  BY <1>3, AllAreSmall DEF N
<1>5. g = [s \in SUBSET S |-> FoldStep(h, base, g, s)]
  BY <1>4, AllAreSmall DEF IsFold
<1> QED BY <1>5 DEF IsFoldOf

(* A fold that stays within some values, by a function of element and value.  *)
IsFoldWithin(h, base, S, V, g) ==
    g \in [SUBSET S -> V] /\ \A s \in SUBSET S : g[s] = FoldStep(h, base, g, s)

LEMMA FoldWithin ==
    ASSUME NEW S, IsFiniteSet(S), NEW V, NEW base \in V, NEW h \in [S \X V -> V]
    PROVE  \E g : IsFoldWithin(h, base, S, V, g)
<1>0. PICK g : IsFoldOf(h, base, S, g)
  BY FoldExists
<1>1. g = [s \in SUBSET S |-> FoldStep(h, base, g, s)]
  BY <1>0 DEF IsFoldOf
<1>2. \A s \in SUBSET S : g[s] = FoldStep(h, base, g, s)
  BY <1>1
<1> DEFINE F == {s \in SUBSET S : g[s] \in V}
<1>3. {} \in F
  BY <1>2 DEF FoldStep
<1>4. ASSUME NEW s \in SUBSET S, s # {}, s \ {CHOOSE x \in s : TRUE} \in F PROVE s \in F
  <2> DEFINE x == CHOOSE x \in s : TRUE
  <2>1. x \in s /\ g[s] = h[<<x, g[s \ {x}]>>] /\ g[s \ {x}] \in V
    BY <1>2, <1>4 DEF FoldStep
  <2> HIDE DEF x
  <2> QED BY <2>1
<1> HIDE DEF F
<1>5. SUBSET S \subseteq F
  BY <1>3, <1>4, ChosenInduction
<1>6. g \in [SUBSET S -> V]
  <2>1. \A s \in SUBSET S : g[s] \in V
    BY <1>5 DEF F
  <2>2. g = [s \in SUBSET S |-> g[s]]
    BY <1>1, <1>2
  <2> HIDE <1>1, <1>2
  <2> QED BY <2>1, <2>2
<1> QED BY <1>2, <1>6 DEF IsFoldWithin
=============================================================================
