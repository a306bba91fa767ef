------------------------ MODULE OracleClassesProofs ------------------------
(***************************************************************************)
(* What the operators of OracleClasses compute, for every mapping, layout  *)
(* and seed: functions defined by recursion, the shuffle, the scan of a    *)
(* pool, the lines it selects, the histograms of their classes and the     *)
(* division of the classes between victim and aggressors.                  *)
(***************************************************************************)
EXTENDS OracleSetup, SequenceTheorems, FiniteSetTheorems, WellFoundedInduction, TLAPS

-----------------------------------------------------------------------------
(* Numbers, and functions defined by recursion on them.                    *)

\* A set of naturals that is not empty has a least member.
LEMMA Least ==
  ASSUME NEW T, T \subseteq Nat, T # {}
  PROVE  \E x \in T : \A y \in T : x <= y
<1> DEFINE R == OpToRel(<, Nat)
<1>1. IsWellFoundedOn(R, Nat)
  BY NatLessThanWellFounded
<1>2. \A x, y \in Nat : <<x, y>> \in R <=> x < y
  BY DEF OpToRel
<1> HIDE DEF R
<1>3. PICK x \in T : \A y \in T : ~(<<y, x>> \in R)
  BY <1>1, WFMin
<1>4. \A y \in T : y \in Nat /\ x \in Nat
  OBVIOUS
<1>5. ASSUME NEW y \in T PROVE x <= y
  <2>1. x \in Nat /\ y \in Nat
    BY <1>4
  <2>2. ~ (y < x)
    BY <1>2, <1>3, <2>1
  <2> QED BY <2>1, <2>2
<1> QED BY <1>5

\* Induction, with a set for the property.
LEMMA Induction ==
  ASSUME NEW S, 0 \in S, \A n \in Nat : n \in S => n + 1 \in S
  PROVE  Nat \subseteq S
<1> DEFINE T == Nat \ S
<1> SUFFICES ASSUME T # {} PROVE FALSE
  OBVIOUS
<1>1. PICK x \in T : \A y \in T : x <= y
  BY Least
<1>2. x - 1 \in Nat /\ x - 1 \notin T
  BY <1>1
<1> QED BY <1>2

\* f follows the recursion that starts with b and applies g, up to n.
Follows(f, b, g, n) == f[0] = b /\ \A k \in 1..n : f[k] = g[<<k, f[k - 1]>>]

Start(X, b, g) == b \in X /\ g \in [Nat \X X -> X]
Defined(X, b, g, h) == h \in [Nat -> X] /\ h[0] = b /\ \A k \in Nat \ {0} : h[k] = g[<<k, h[k - 1]>>]

\* Such a recursion defines a function.
LEMMA Recursion ==
  ASSUME NEW X, NEW b, NEW g, Start(X, b, g)
  PROVE  \E h : Defined(X, b, g, h)
<1>0. b \in X /\ g \in [Nat \X X -> X]
  BY DEF Start
<1> DEFINE F(n) == {f \in [0..n -> X] : Follows(f, b, g, n)}
           S == {n \in Nat : F(n) # {}}
<1>1. 0 \in S
  <2>1. [k \in 0..0 |-> b] \in F(0)
    BY <1>0 DEF Follows
  <2> QED BY <2>1
<1>2. ASSUME NEW n \in Nat, n \in S
      PROVE  n + 1 \in S
  <2>1. PICK f \in F(n) : TRUE
    BY <1>2
  <2>2. f \in [0..n -> X] /\ f[0] = b /\ \A k \in 1..n : f[k] = g[<<k, f[k - 1]>>]
    BY <2>1 DEF Follows
  <2> DEFINE e == [k \in 0..(n + 1) |-> IF k = n + 1 THEN g[<<n + 1, f[n]>>] ELSE f[k]]
  <2>3. f[n] \in X /\ <<n + 1, f[n]>> \in Nat \X X
    BY <2>2
  <2>4. g[<<n + 1, f[n]>>] \in X
    BY <1>0, <2>3
  <2>5. e \in [0..(n + 1) -> X]
    BY <2>2, <2>4
  <2>6. e[0] = b /\ e[n] = f[n]
    BY <2>2
  <2>7. ASSUME NEW k \in 1..(n + 1) PROVE e[k] = g[<<k, e[k - 1]>>]
    <3>1. CASE k = n + 1
      <4>1. k \in 0..(n + 1) /\ k - 1 = n
        BY <3>1
      <4> QED BY <2>6, <3>1, <4>1
    <3>2. CASE k # n + 1
      <4>1. k \in 1..n /\ k - 1 \in 0..n /\ k - 1 # n + 1 /\ k \in 0..(n + 1) /\ k - 1 \in 0..(n + 1)
        BY <3>2
      <4>2. e[k] = f[k] /\ e[k - 1] = f[k - 1]
        BY <3>2, <4>1
      <4> QED BY <2>2, <4>1, <4>2
    <3> QED BY <3>1, <3>2
  <2> HIDE DEF e
  <2>8. e \in F(n + 1)
    BY <2>5, <2>6, <2>7 DEF Follows
  <2> QED BY <2>8
<1>3. Nat \subseteq S
  <2> HIDE DEF S
  <2> QED BY <1>1, <1>2, Induction
<1>4. \A n \in Nat : \E f : f \in [0..n -> X] /\ Follows(f, b, g, n)
  BY <1>3
<1> DEFINE A(n) == CHOOSE f : f \in [0..n -> X] /\ Follows(f, b, g, n)
           h == [n \in Nat |-> A(n)[n]]
<1>5. \A n \in Nat : A(n) \in [0..n -> X] /\ Follows(A(n), b, g, n)
  BY <1>4, Zenon
<1> HIDE DEF A
<1>6. \A n \in Nat : A(n) \in [0..n -> X] /\ A(n)[0] = b /\ \A k \in 1..n : A(n)[k] = g[<<k, A(n)[k - 1]>>]
  BY <1>5 DEF Follows
<1>7. ASSUME NEW n \in Nat, NEW m \in Nat, m <= n
      PROVE  A(n)[m] = A(m)[m]
  <2> DEFINE Q == {k \in Nat : k <= m => A(n)[k] = A(m)[k]}
  <2>1. 0 \in Q
    BY <1>6
  <2>2. ASSUME NEW k \in Nat, k \in Q
        PROVE  k + 1 \in Q
    <3>1. SUFFICES ASSUME k + 1 <= m PROVE A(n)[k + 1] = A(m)[k + 1]
      OBVIOUS
    <3>2. k + 1 \in 1..n /\ k + 1 \in 1..m /\ (k + 1) - 1 = k
      BY <1>7, <3>1
    <3>3. A(n)[k + 1] = g[<<k + 1, A(n)[k]>>] /\ A(m)[k + 1] = g[<<k + 1, A(m)[k]>>]
      BY <1>6, <3>2
    <3>4. A(n)[k] = A(m)[k]
      BY <2>2, <3>1
    <3> QED BY <3>3, <3>4
  <2>3. Nat \subseteq Q
    <3> HIDE DEF Q
    <3> QED BY <2>1, <2>2, Induction
  <2> QED BY <2>3
<1>8. \A n \in Nat : A(n)[n] \in X
  BY <1>6
<1>9. h \in [Nat -> X]
  BY <1>8
<1>10. h[0] = b
  BY <1>6
<1>11. ASSUME NEW k \in Nat \ {0} PROVE h[k] = g[<<k, h[k - 1]>>]
  <2>1. A(k)[k] = g[<<k, A(k)[k - 1]>>]
    BY <1>6
  <2>2. k - 1 \in Nat /\ k - 1 <= k
    OBVIOUS
  <2>3. A(k)[k - 1] = A(k - 1)[k - 1]
    BY <1>7, <2>2
  <2> QED BY <2>1, <2>2, <2>3
<1> HIDE DEF h
<1> QED BY <1>9, <1>10, <1>11 DEF Defined

\* The powers of two.
LEMMA Pow2Is ==
  /\ \A n \in Nat : Pow2[n] \in Nat \ {0}
  /\ Pow2[0] = 1
  /\ \A n \in Nat : Pow2[n + 1] = 2 * Pow2[n]
<1> DEFINE g == [x \in Nat \X Nat |-> 2 * x[2]]
<1>1. g \in [Nat \X Nat -> Nat]
  OBVIOUS
<1>2. PICK h : h \in [Nat -> Nat] /\ h[0] = 1 /\ \A k \in Nat \ {0} : h[k] = g[<<k, h[k - 1]>>]
  <2>1. Start(Nat, 1, g)
    BY <1>1 DEF Start
  <2>2. \E h : Defined(Nat, 1, g, h)
    BY <2>1, Recursion
  <2> HIDE DEF g
  <2> QED BY <2>2 DEF Defined
<1>3. h = [n \in Nat |-> IF n = 0 THEN 1 ELSE 2 * h[n - 1]]
  <2>1. \A k \in Nat \ {0} : h[k - 1] \in Nat
    BY <1>2
  <2>2. \A k \in Nat \ {0} : h[k] = 2 * h[k - 1]
    BY <1>2, <2>1
  <2> QED BY <1>2, <2>2
<1>4. Pow2 = [n \in Nat |-> IF n = 0 THEN 1 ELSE 2 * Pow2[n - 1]]
  BY <1>3, Zenon DEF Pow2
<1>5. Pow2[0] = 1
  BY <1>4
<1>6. \A n \in Nat : Pow2[n + 1] = 2 * Pow2[n]
  <2> TAKE n \in Nat
  <2>1. n + 1 \in Nat /\ n + 1 # 0 /\ (n + 1) - 1 = n
    OBVIOUS
  <2> QED BY <1>4, <2>1
<1> DEFINE S == {n \in Nat : Pow2[n] \in Nat \ {0}}
<1>7. 0 \in S
  BY <1>5
<1>8. \A n \in Nat : n \in S => n + 1 \in S
  BY <1>6
<1>9. Nat \subseteq S
  <2> HIDE DEF S
  <2> QED BY <1>7, <1>8, Induction
<1> QED BY <1>5, <1>6, <1>9

\* Quotient and remainder.
LEMMA DivModIs ==
  ASSUME NEW a \in Int, NEW d \in Nat \ {0}, NEW q \in Int, NEW r \in 0..(d - 1), a = q * d + r
  PROVE  a \div d = q /\ a % d = r
  OBVIOUS

\* They give the number back.
LEMMA DivModDef ==
  ASSUME NEW a \in Int, NEW d \in Nat \ {0}
  PROVE  /\ a \div d \in Int /\ a % d \in 0..(d - 1)
         /\ a = (a \div d) * d + (a % d)
  OBVIOUS

\* The quotient of naturals is one.
LEMMA DivNat ==
  ASSUME NEW a \in Nat, NEW d \in Nat \ {0}
  PROVE  a \div d \in Nat
  OBVIOUS

\* A quotient below a bound.
LEMMA DivBelow ==
  ASSUME NEW a \in Nat, NEW d \in Nat \ {0}, NEW n \in Nat, a < n * d
  PROVE  a \div d \in 0..(n - 1)
  OBVIOUS

\* Dividing twice divides by the product.
LEMMA DivDiv ==
  ASSUME NEW a \in Nat, NEW d \in Nat \ {0}, NEW e \in Nat \ {0}
  PROVE  a \div (d * e) = (a \div d) \div e
  OBVIOUS

\* A number below 2^m is determined by its m bits.
LEMMA BitsDetermine ==
  ASSUME NEW m \in Nat, NEW a \in 0..(Pow2[m] - 1), NEW b \in 0..(Pow2[m] - 1),
         \A i \in 0..(m - 1) : (a \div Pow2[i]) % 2 = (b \div Pow2[i]) % 2
  PROVE  a = b
<1> DEFINE Same(k, x, y) == \A i \in 0..(k - 1) : (x \div Pow2[i]) % 2 = (y \div Pow2[i]) % 2
           S == {k \in Nat : \A x, y \in 0..(Pow2[k] - 1) : Same(k, x, y) => x = y}
<1>1. 0 \in S
  BY Pow2Is
<1>2. ASSUME NEW k \in Nat, k \in S
      PROVE  k + 1 \in S
  <2> SUFFICES ASSUME NEW x \in 0..(Pow2[k + 1] - 1), NEW y \in 0..(Pow2[k + 1] - 1), Same(k + 1, x, y)
               PROVE  x = y
    OBVIOUS
  <2>1. Pow2[k + 1] = 2 * Pow2[k] /\ Pow2[k] \in Nat \ {0} /\ Pow2[0] = 1
    BY Pow2Is
  <2>2. x \div 2 \in 0..(Pow2[k] - 1) /\ y \div 2 \in 0..(Pow2[k] - 1)
    BY <2>1
  <2>3. x % 2 = y % 2
    <3>1. 0 \in 0..((k + 1) - 1) /\ x \div 1 = x /\ y \div 1 = y
      OBVIOUS
    <3> QED BY <2>1, <3>1
  <2>4. ASSUME NEW i \in 0..(k - 1)
        PROVE  ((x \div 2) \div Pow2[i]) % 2 = ((y \div 2) \div Pow2[i]) % 2
    <3>1. i + 1 \in 0..((k + 1) - 1) /\ i \in Nat
      OBVIOUS
    <3>2. Pow2[i + 1] = 2 * Pow2[i] /\ Pow2[i] \in Nat \ {0}
      BY <3>1, Pow2Is
    <3>3. (x \div 2) \div Pow2[i] = x \div Pow2[i + 1] /\ (y \div 2) \div Pow2[i] = y \div Pow2[i + 1]
      <4>1. x \in Nat /\ y \in Nat /\ 2 \in Nat \ {0}
        BY <2>1
      <4> QED BY <3>2, <4>1, DivDiv
    <3> QED BY <3>1, <3>3
  <2>5. x \div 2 = y \div 2
    BY <1>2, <2>2, <2>4
  <2> QED BY <2>1, <2>3, <2>5
<1>3. Nat \subseteq S
  <2> HIDE DEF S
  <2> QED BY <1>1, <1>2, Induction
<1> QED BY <1>3

-----------------------------------------------------------------------------
(* Sequences picked and shuffled.                                          *)

\* The elements of a sequence.
LEMMA RangeIs ==
  ASSUME NEW X, NEW s \in Seq(X)
  PROVE  /\ Len(s) \in Nat /\ Range(s) = {s[k] : k \in 1..Len(s)}
         /\ \A k \in 1..Len(s) : s[k] \in X /\ s[k] \in Range(s)
         /\ \A x \in Range(s) : \E k \in 1..Len(s) : s[k] = x
  BY DEF Range

\* The elements of a concatenation.
LEMMA ConcatIs ==
  ASSUME NEW X, NEW a \in Seq(X), NEW b \in Seq(X)
  PROVE  /\ a \o b \in Seq(X) /\ Len(a \o b) = Len(a) + Len(b)
         /\ \A k \in 1..Len(a) : (a \o b)[k] = a[k]
         /\ \A k \in 1..Len(b) : (a \o b)[Len(a) + k] = b[k]
         /\ Range(a \o b) = Range(a) \cup Range(b)
<1>1. /\ a \o b \in Seq(X) /\ Len(a \o b) = Len(a) + Len(b) /\ Len(a) \in Nat /\ Len(b) \in Nat
      /\ \A k \in 1..Len(a) : (a \o b)[k] = a[k] /\ k \in 1..Len(a \o b)
      /\ \A k \in 1..Len(b) : (a \o b)[Len(a) + k] = b[k] /\ Len(a) + k \in 1..Len(a \o b)
  OBVIOUS
<1> DEFINE s == a \o b
<1>2. Range(s) \subseteq Range(a) \cup Range(b)
  <2> SUFFICES ASSUME NEW x \in Range(s) PROVE x \in Range(a) \cup Range(b)
    OBVIOUS
  <2>1. PICK k \in 1..Len(s) : s[k] = x
    BY <1>1, RangeIs
  <2>2. CASE k <= Len(a)
    <3>1. k \in 1..Len(a)
      BY <1>1, <2>2
    <3> QED BY <1>1, <2>1, <3>1, RangeIs
  <2>3. CASE k > Len(a)
    <3>1. k - Len(a) \in 1..Len(b) /\ Len(a) + (k - Len(a)) = k
      BY <1>1, <2>3
    <3>2. b[k - Len(a)] = x
      BY <1>1, <2>1, <3>1
    <3> QED BY <3>1, <3>2, RangeIs
  <2> QED BY <1>1, <2>1, <2>2, <2>3
<1>3. Range(a) \cup Range(b) \subseteq Range(s)
  <2> HIDE DEF s
  <2>0. s \in Seq(X) /\ (\A k \in 1..Len(a) : s[k] = a[k] /\ k \in 1..Len(s))
        /\ \A k \in 1..Len(b) : s[Len(a) + k] = b[k] /\ Len(a) + k \in 1..Len(s)
    BY <1>1 DEF s
  <2>1. \A x \in Range(a) : x \in Range(s)
    <3> TAKE x \in Range(a)
    <3>1. PICK k \in 1..Len(a) : a[k] = x
      BY RangeIs
    <3> QED BY <2>0, <3>1, RangeIs
  <2>2. \A x \in Range(b) : x \in Range(s)
    <3> TAKE x \in Range(b)
    <3>1. PICK k \in 1..Len(b) : b[k] = x
      BY RangeIs
    <3> QED BY <2>0, <3>1, RangeIs
  <2> QED BY <2>1, <2>2
<1> QED BY <1>1, <1>2, <1>3

\* The members of a set of positions in order: each once.
LEMMA NthIs ==
  ASSUME NEW n \in Nat, NEW I, I \subseteq 1..n
  PROVE  /\ IsFiniteSet(I) /\ Cardinality(I) \in 0..n
         /\ \A k \in 1..Cardinality(I) : Nth(I, k) \in I
         /\ \A k, l \in 1..Cardinality(I) : Nth(I, k) = Nth(I, l) => k = l
         /\ \A i \in I : \E k \in 1..Cardinality(I) : Nth(I, k) = i
<1> DEFINE Below(i) == {j \in I : j <= i}
           K == 1..Cardinality(I)
           rank == [i \in I |-> Cardinality(Below(i))]
<1>1. IsFiniteSet(1..n) /\ Cardinality(1..n) = n
  BY FS_Interval
<1>2. IsFiniteSet(I) /\ Cardinality(I) \in Nat /\ Cardinality(I) <= n
  BY <1>1, FS_Subset, FS_CardinalityType
<1>3. \A i \in I : i \in Nat
  OBVIOUS
<1>4. \A i \in I : IsFiniteSet(Below(i)) /\ Cardinality(Below(i)) \in Nat /\ Cardinality(Below(i)) <= Cardinality(I)
  <2> TAKE i \in I
  <2>1. Below(i) \subseteq I
    OBVIOUS
  <2> HIDE DEF Below
  <2> QED BY <1>2, <2>1, FS_Subset, FS_CardinalityType
<1>5. \A i, j \in I : i < j => Cardinality(Below(i)) < Cardinality(Below(j))
  <2> TAKE i, j \in I
  <2> HAVE i < j
  <2>1. Below(i) \subseteq Below(j)
    <3>1. i \in Nat /\ j \in Nat
      BY <1>3
    <3>2. \A m \in I : m <= i => m <= j
      BY <1>3, <3>1
    <3> QED BY <3>2
  <2>2. j \in Below(j) /\ j \notin Below(i)
    <3>1. i \in Nat /\ j \in Nat
      BY <1>3
    <3> QED BY <3>1
  <2>3. Below(i) # Below(j)
    BY <2>2
  <2>4. IsFiniteSet(Below(j))
    BY <1>4
  <2> HIDE DEF Below
  <2> QED BY <2>1, <2>3, <2>4, FS_Subset, FS_CardinalityType
<1>6. \A i \in I : Cardinality(Below(i)) >= 1
  <2> TAKE i \in I
  <2>1. i \in Below(i) /\ IsFiniteSet(Below(i)) /\ Cardinality(Below(i)) \in Nat
    BY <1>3, <1>4
  <2> HIDE DEF Below
  <2>2. Cardinality(Below(i)) # 0
    BY <2>1, FS_EmptySet
  <2> QED BY <2>1, <2>2
<1>7. rank \in [I -> K]
  <2> HIDE DEF Below
  <2> QED BY <1>2, <1>4, <1>6
<1>8. \A i, j \in I : rank[i] = rank[j] => i = j
  <2> SUFFICES ASSUME NEW i \in I, NEW j \in I, i # j PROVE rank[i] # rank[j]
    OBVIOUS
  <2>1. i < j \/ j < i
    BY <1>3
  <2> HIDE DEF Below
  <2> QED BY <1>4, <1>5, <2>1
<1>9. \A i \in I : rank[i] = Cardinality({j \in I : j <= i})
  OBVIOUS
<1> HIDE DEF rank, Below
<1>10. \A k \in K : \E i \in I : rank[i] = k
  <2>1. IsFiniteSet(K) /\ Cardinality(K) = Cardinality(I)
    BY <1>2, FS_Interval
  <2>2. rank \in Injection(I, K)
    BY <1>7, <1>8, Zenon DEF Injection, IsInjective
  <2>3. rank \in Surjection(I, K)
    BY <1>2, <2>1, <2>2, FS_Injection
  <2> QED BY <2>3 DEF Surjection
<1>11. \A k \in K : Nth(I, k) \in I /\ rank[Nth(I, k)] = k
  <2> TAKE k \in K
  <2>1. \E i \in I : Cardinality({j \in I : j <= i}) = k
    BY <1>9, <1>10
  <2>2. Nth(I, k) \in I /\ Cardinality({j \in I : j <= Nth(I, k)}) = k
    BY <2>1, Zenon DEF Nth
  <2> QED BY <1>9, <2>2
<1>12. ASSUME NEW k \in K, NEW l \in K, Nth(I, k) = Nth(I, l) PROVE k = l
  BY <1>11, <1>12
<1>13. ASSUME NEW i \in I PROVE \E k \in K : Nth(I, k) = i
  <2>1. rank[i] \in K
    BY <1>7
  <2>2. Nth(I, rank[i]) = i
    BY <1>8, <1>11, <2>1
  <2> QED BY <2>1, <2>2
<1> QED BY <1>2, <1>11, <1>12, <1>13

\* What Matching picks from a sequence.
LEMMA PickIs ==
  ASSUME NEW n \in Nat, NEW I, I \subseteq 1..n, NEW s
  PROVE  /\ Cardinality(I) \in 0..n /\ Len(Pick(s, I)) = Cardinality(I)
         /\ DOMAIN Pick(s, I) = 1..Cardinality(I)
         /\ \A k \in 1..Cardinality(I) : Pick(s, I)[k] = s[Nth(I, k)]
<1>1. Cardinality(I) \in 0..n
  BY NthIs
<1>2. Pick(s, I) = [k \in 1..Cardinality(I) |-> s[Nth(I, k)]]
  BY DEF Pick
<1> QED BY <1>1, <1>2

\* p puts the numbers from 1 to n in another order.
Permutes(p, n) ==
    /\ p \in [1..n -> 1..n]
    /\ \A i, j \in 1..n : p[i] = p[j] => i = j
    /\ \A i \in 1..n : \E j \in 1..n : p[j] = i

Arranged(s, p, n) == [k \in 1..n |-> s[p[k]]]

\* Fisher and Yates' exchange of the element at i + 1 with the one at j + 1.
Exchange(s, i, j) == [s EXCEPT ![i + 1] = s[j + 1], ![j + 1] = s[i + 1]]

\* An exchange of two elements permutes.
LEMMA ExchangePermutes ==
  ASSUME NEW n \in Nat, NEW s, NEW p, Permutes(p, n), NEW i \in 0..(n - 1), NEW j \in 0..(n - 1)
  PROVE  \E q : /\ Permutes(q, n)
                /\ Exchange(Arranged(s, p, n), i, j) = Arranged(s, q, n)
<1> DEFINE q == [k \in 1..n |-> IF k = j + 1 THEN p[i + 1] ELSE IF k = i + 1 THEN p[j + 1] ELSE p[k]]
           f == [k \in 1..n |-> s[p[k]]]
<1>1. i + 1 \in 1..n /\ j + 1 \in 1..n
  OBVIOUS
<1>2. p \in [1..n -> 1..n]
  BY DEF Permutes
<1>3. q \in [1..n -> 1..n]
  BY <1>1, <1>2
<1>4. \A k, l \in 1..n : q[k] = q[l] => k = l
  BY <1>1 DEF Permutes
<1>5. \A k \in 1..n : \E l \in 1..n : q[l] = k
  <2> TAKE k \in 1..n
  <2>1. PICK l \in 1..n : p[l] = k
    BY DEF Permutes
  <2>2. CASE l = i + 1
    BY <1>1, <2>1, <2>2
  <2>3. CASE l = j + 1
    <3>1. CASE i = j
      BY <1>1, <2>1, <2>3, <3>1
    <3>2. CASE i # j
      <4>1. i + 1 # j + 1
        BY <3>2
      <4> QED BY <1>1, <2>1, <2>3, <4>1
    <3> QED BY <3>1, <3>2
  <2>4. CASE l # i + 1 /\ l # j + 1
    BY <2>1, <2>4
  <2> QED BY <2>2, <2>3, <2>4
<1>6. Exchange(f, i, j) = [k \in 1..n |-> IF k = j + 1 THEN f[i + 1] ELSE IF k = i + 1 THEN f[j + 1] ELSE f[k]]
  BY <1>1 DEF Exchange
<1>7. \A k \in 1..n : (IF k = j + 1 THEN f[i + 1] ELSE IF k = i + 1 THEN f[j + 1] ELSE f[k]) = s[q[k]]
  BY <1>1
<1>8. Exchange(f, i, j) = [k \in 1..n |-> s[q[k]]]
  BY <1>6, <1>7, Zenon
<1>9. Permutes(q, n)
  BY <1>3, <1>4, <1>5 DEF Permutes
<1> QED BY <1>8, <1>9 DEF Arranged

\* The number drawn is in range.
LEMMA DrawInRange ==
  ASSUME NEW x \in Nat, NEW i \in Nat
  PROVE  rng_next(x, i) \in 0..i
<1>1. x * (2 * i + 3) + i * i \in Nat /\ i + 1 \in Nat \ {0}
  OBVIOUS
<1> QED BY <1>1 DEF rng_next

\* shuffle_size_t and shuffle_u64 lose no element and make none twice,
\* whatever the random numbers.
LEMMA ShuffleIs ==
  ASSUME NEW n \in Nat, NEW T, NEW s \in [1..n -> T], NEW x \in Nat
  PROVE  \E p : Permutes(p, n) /\ shuffle(s, x) = Arranged(s, p, n)
<1> DEFINE id == [k \in 1..n |-> k]
           X == [1..n -> T]
           Sw(v, k) == Exchange(v, n - k, rng_next(x, n - k))
           g == [y \in Nat \X X |-> IF y[1] \in 1..(n - 1) THEN Sw(y[2], y[1]) ELSE y[2]]
<1>1. Permutes(id, n) /\ s = Arranged(s, id, n)
  BY DEF Permutes, Arranged
<1>2. Len(s) = n
  OBVIOUS
<1>3. CASE n < 2
  <2>1. shuffle(s, x) = s
    BY <1>2, <1>3 DEF shuffle
  <2> HIDE DEF id
  <2> QED BY <1>1, <2>1
<1>4. CASE n >= 2
  <2>1. ASSUME NEW k \in 1..(n - 1), NEW v \in X
        PROVE  Sw(v, k) \in X
    <3>0. n - k \in Nat
      OBVIOUS
    <3>1. n - k \in Nat /\ rng_next(x, n - k) \in 0..(n - k)
      BY <3>0, DrawInRange
    <3>2. (n - k) + 1 \in 1..n /\ rng_next(x, n - k) + 1 \in 1..n
      BY <3>1
    <3> QED BY <3>2 DEF Exchange
  <2>2. g \in [Nat \X X -> X]
    <3>1. ASSUME NEW y \in Nat \X X PROVE (IF y[1] \in 1..(n - 1) THEN Sw(y[2], y[1]) ELSE y[2]) \in X
      <4>1. y[1] \in Nat /\ y[2] \in X
        OBVIOUS
      <4> HIDE DEF Sw, X
      <4> QED BY <2>1, <4>1
    <3> HIDE DEF Sw, X
    <3> QED BY <3>1
  <2>3. Start(X, s, g)
    <3> HIDE DEF X, g
    <3>1. s \in X
      BY DEF X
    <3> QED BY <2>2, <3>1 DEF Start
  <2>4. PICK h : Defined(X, s, g, h)
    <3> HIDE DEF X, g
    <3> QED BY <2>3, Recursion
  <2>5. h[0] = s /\ \A k \in Nat \ {0} : h[k] = g[<<k, h[k - 1]>>] /\ h[k - 1] \in X
    <3> HIDE DEF X, g
    <3> QED BY <2>4 DEF Defined
  <2>6. \A k \in 1..(n - 1) : h[k] = Sw(h[k - 1], k)
    <3> TAKE k \in 1..(n - 1)
    <3>1. k \in Nat \ {0} /\ <<k, h[k - 1]>> \in Nat \X X
      <4> HIDE DEF X, g
      <4> QED BY <2>5
    <3>2. g[<<k, h[k - 1]>>] = Sw(h[k - 1], k)
      <4> HIDE DEF X, Sw
      <4> QED BY <3>1
    <3> HIDE DEF X, g, Sw
    <3> QED BY <2>5, <3>1, <3>2
  <2> DEFINE e == [k \in 0..(n - 1) |-> h[k]]
             Eq(f) == f = [k \in 0..(n - 1) |-> IF k = 0 THEN s ELSE Sw(f[k - 1], k)]
             a == CHOOSE f : Eq(f)
  <2>7. Eq(e)
    <3>1. \A k \in 0..(n - 1) : h[k] = IF k = 0 THEN s ELSE Sw(e[k - 1], k)
      <4> TAKE k \in 0..(n - 1)
      <4>1. CASE k = 0
        BY <2>5, <4>1
      <4>2. CASE k # 0
        <5>1. k \in 1..(n - 1) /\ k - 1 \in 0..(n - 1)
          BY <4>2
        <5>2. e[k - 1] = h[k - 1]
          BY <5>1
        <5> HIDE DEF e, Sw
        <5> QED BY <2>6, <4>2, <5>1, <5>2
      <4> QED BY <4>1, <4>2
    <3> HIDE DEF Sw
    <3> QED BY <3>1
  <2>8. Eq(a)
    <3> HIDE DEF Eq, e
    <3> QED BY <2>7, Zenon
  <2>9. shuffle(s, x) = a[n - 1]
    BY <1>2, <1>4 DEF shuffle, Exchange
  <2> HIDE DEF a
  <2>10. a[0] = s /\ \A k \in 1..(n - 1) : a[k] = Sw(a[k - 1], k)
    <3> HIDE DEF Sw
    <3> QED BY <1>4, <2>8
  <2> DEFINE Ok(v) == \E p : Permutes(p, n) /\ v = Arranged(s, p, n)
             S == {k \in Nat : k <= n - 1 => Ok(a[k])}
  <2>11. 0 \in S
    <3> HIDE DEF id
    <3> QED BY <1>1, <2>10
  <2>12. ASSUME NEW k \in Nat, k \in S
         PROVE  k + 1 \in S
    <3> SUFFICES ASSUME k + 1 <= n - 1 PROVE Ok(a[k + 1])
      OBVIOUS
    <3>9. Ok(a[k])
      BY <2>12
    <3>1. PICK p : Permutes(p, n) /\ a[k] = Arranged(s, p, n)
      BY <3>9
    <3> DEFINE i == n - (k + 1)
               j == rng_next(x, i)
    <3>0. i \in Nat /\ i \in 0..(n - 1)
      OBVIOUS
    <3>2. i \in Nat /\ i \in 0..(n - 1) /\ j \in 0..i
      <4> HIDE DEF i
      <4> QED BY <3>0, DrawInRange
    <3>3. j \in 0..(n - 1)
      BY <3>2
    <3>4. k + 1 \in 1..(n - 1) /\ (k + 1) - 1 = k
      OBVIOUS
    <3>5. a[k + 1] = Exchange(a[k], i, j)
      BY <2>10, <3>4
    <3> HIDE DEF i, j
    <3>6. \E q : Permutes(q, n) /\ Exchange(Arranged(s, p, n), i, j) = Arranged(s, q, n)
      <4>1. Permutes(p, n) /\ i \in 0..(n - 1) /\ j \in 0..(n - 1)
        BY <3>1, <3>2, <3>3
      <4> QED BY <4>1, ExchangePermutes, Zenon
    <3> QED BY <3>1, <3>5, <3>6
  <2>13. Nat \subseteq S
    <3> HIDE DEF S
    <3> QED BY <2>11, <2>12, Induction
  <2>14. Ok(a[n - 1])
    <3>1. n - 1 \in Nat
      BY <1>4
    <3> QED BY <2>13, <3>1
  <2> QED BY <2>9, <2>14
<1> QED BY <1>3, <1>4

-----------------------------------------------------------------------------
(* The selection of lines.                                                 *)

\* A sequence of n different values of T, and another of the same.
OneToOne(s, n, T) == s \in [1..n -> T] /\ \A i, j \in 1..n : s[i] = s[j] => i = j
SameValues(s, t, n) ==
    /\ \A i \in 1..n : \E j \in 1..n : t[j] = s[i]
    /\ \A i \in 1..n : \E j \in 1..n : t[i] = s[j]

\* A shuffled sequence has the elements of the sequence, each once.
LEMMA ShuffledIs ==
  ASSUME NEW n \in Nat, NEW T, NEW s, OneToOne(s, n, T), NEW x \in Nat
  PROVE  OneToOne(shuffle(s, x), n, T) /\ Len(shuffle(s, x)) = n /\ SameValues(s, shuffle(s, x), n)
<1>0. s \in [1..n -> T] /\ \A i, j \in 1..n : s[i] = s[j] => i = j
  BY DEF OneToOne
<1>1. PICK p : Permutes(p, n) /\ shuffle(s, x) = Arranged(s, p, n)
  BY <1>0, ShuffleIs, Zenon
<1> DEFINE t == shuffle(s, x)
<1>2. t = [k \in 1..n |-> s[p[k]]]
  BY <1>1 DEF Arranged
<1>3. /\ \A i \in 1..n : p[i] \in 1..n
      /\ \A i, j \in 1..n : p[i] = p[j] => i = j
      /\ \A i \in 1..n : \E j \in 1..n : p[j] = i
  BY <1>1 DEF Permutes
<1> HIDE DEF t
<1>4. t \in [1..n -> T] /\ Len(t) = n
  BY <1>0, <1>2, <1>3
<1>5. \A i \in 1..n : t[i] = s[p[i]]
  BY <1>2
<1>6. \A i, j \in 1..n : t[i] = t[j] => i = j
  <2> SUFFICES ASSUME NEW i \in 1..n, NEW j \in 1..n, t[i] = t[j] PROVE i = j
    OBVIOUS
  <2>1. s[p[i]] = s[p[j]] /\ p[i] \in 1..n /\ p[j] \in 1..n
    BY <1>3, <1>5
  <2>2. p[i] = p[j]
    BY <1>0, <2>1
  <2> QED BY <1>3, <2>2
<1>7. \A i \in 1..n : \E j \in 1..n : t[j] = s[i]
  BY <1>3, <1>5
<1>8. OneToOne(t, n, T)
  BY <1>4, <1>6 DEF OneToOne
<1>9. SameValues(s, t, n)
  BY <1>3, <1>5, <1>7 DEF SameValues
<1> QED BY <1>4, <1>8, <1>9 DEF t

\* The row and the column of place i in rows of n.
Row(i, n) == ((i - 1) \div n) + 1
Column(i, n) == ((i - 1) % n) + 1
Rows(m, n) ==
    /\ \A i \in 1..(m * n) : Row(i, n) \in 1..m /\ Column(i, n) \in 1..n /\ i = (Row(i, n) - 1) * n + Column(i, n)
    /\ \A a \in 1..m, b \in 1..n :
         (a - 1) * n + b \in 1..(m * n) /\ Row((a - 1) * n + b, n) = a /\ Column((a - 1) * n + b, n) = b

\* Every place has its own.
LEMMA Grid ==
  ASSUME NEW m \in Nat, NEW n \in Nat
  PROVE  Rows(m, n)
<1>1. ASSUME NEW i \in 1..(m * n)
      PROVE  Row(i, n) \in 1..m /\ Column(i, n) \in 1..n /\ i = (Row(i, n) - 1) * n + Column(i, n)
  <2>1. n # 0
    <3> SUFFICES ASSUME n = 0 PROVE FALSE
      OBVIOUS
    <3>1. m * n = 0
      OBVIOUS
    <3> QED BY <3>1
  <2>2. n \in Nat \ {0} /\ i - 1 \in Nat /\ i - 1 < m * n
    BY <2>1
  <2> DEFINE a == i - 1
             d == a \div n
             e == a % n
  <2>3. d \in 0..(m - 1)
    <3> HIDE DEF a
    <3> QED BY <2>2, DivBelow DEF a
  <2>4. e \in 0..(n - 1) /\ a = d * n + e /\ d \in Int
    <3>1. a \in Int
      BY <2>2
    <3> HIDE DEF a
    <3> QED BY <2>2, <3>1, DivModDef
  <2> HIDE DEF d, e
  <2>5. d + 1 \in 1..m /\ e + 1 \in 1..n /\ i = (d + 1 - 1) * n + (e + 1)
    BY <2>3, <2>4
  <2> QED BY <2>5 DEF d, e, Row, Column
<1>2. ASSUME NEW a \in 1..m, NEW b \in 1..n
      PROVE  (a - 1) * n + b \in 1..(m * n) /\ Row((a - 1) * n + b, n) = a /\ Column((a - 1) * n + b, n) = b
  <2> DEFINE i == (a - 1) * n + b
  <2>1. i \in Int /\ i - 1 = (a - 1) * n + (b - 1) /\ b - 1 \in 0..(n - 1) /\ a - 1 \in Int /\ n \in Nat \ {0}
    OBVIOUS
  <2>2. (i - 1) \div n = a - 1 /\ (i - 1) % n = b - 1
    <3>1. i - 1 \in Int
      BY <2>1
    <3> HIDE DEF i
    <3> QED BY <2>1, <3>1, DivModIs
  <2>3. i \in 1..(m * n)
    <3>1. (a - 1) * n + b <= (a - 1) * n + n /\ (a - 1) * n + n = a * n
      OBVIOUS
    <3>2. a * n <= m * n
      OBVIOUS
    <3>3. (a - 1) * n >= 0
      OBVIOUS
    <3> QED BY <3>1, <3>2, <3>3
  <2> HIDE DEF i
  <2>4. Row(i, n) = a /\ Column(i, n) = b
    BY <2>1, <2>2 DEF Row, Column
  <2> QED BY <2>3, <2>4 DEF i
<1> QED BY <1>1, <1>2 DEF Rows, Row, Column

\* A sequence of length N has every element of A once.
Enumerates(s, N, A) ==
    /\ N \in Nat /\ s \in [1..N -> A] /\ Len(s) = N
    /\ \A i, j \in 1..N : s[i] = s[j] => i = j
    /\ \A a \in A : \E i \in 1..N : s[i] = a

\* The scan looks at every line of a pool once.
LEMMA ScanIs ==
  ASSUME NEW n \in Nat, NEW pages, Len(pages) = n, NEW w \in Nat, NEW x \in Nat
  PROVE  Enumerates(ScanOrder(pages, w, x), n * Pow2[w], Addresses(pages, w))
<1> DEFINE z == Pow2[w]
           N == n * z
           A == (1..n) \X (0..(z - 1))
           s == [p \in 1..n |-> p]
           t == [l \in 1..z |-> l - 1]
           pp == shuffle(s, Seed(x, 1))
           oo == shuffle(t, Seed(x, 2))
           scan == ScanOrder(pages, w, x)
<1>1. z \in Nat /\ z # 0 /\ Seed(x, 1) \in Nat /\ Seed(x, 2) \in Nat
  BY Pow2Is DEF Seed
<1> HIDE DEF z
<1>2. OneToOne(pp, n, 1..n) /\ SameValues(s, pp, n)
  <2>1. OneToOne(s, n, 1..n)
    BY DEF OneToOne
  <2> HIDE DEF s
  <2> QED BY <1>1, <2>1, ShuffledIs, Zenon
<1>3. OneToOne(oo, z, 0..(z - 1)) /\ SameValues(t, oo, z)
  <2>1. OneToOne(t, z, 0..(z - 1))
    BY <1>1 DEF OneToOne
  <2> HIDE DEF t
  <2> QED BY <1>1, <2>1, ShuffledIs, Zenon
<1>4. (\A p \in 1..n : s[p] = p) /\ (\A l \in 1..z : t[l] = l - 1)
  OBVIOUS
<1>5. N \in Nat
  BY <1>1
<1>6. scan = [i \in 1..N |-> <<pp[Row(i, z)], oo[Column(i, z)]>>]
  BY DEF ScanOrder, z, Row, Column
<1>7. Rows(n, z)
  BY <1>1, Grid, Zenon
<1> HIDE DEF pp, oo, scan, s, t
<1>8. \A i \in 1..N : Row(i, z) \in 1..n /\ Column(i, z) \in 1..z /\ i = (Row(i, z) - 1) * z + Column(i, z)
  BY <1>7 DEF Rows
<1>9. \A a \in 1..n, b \in 1..z : \E i \in 1..N : Row(i, z) = a /\ Column(i, z) = b
  BY <1>7 DEF Rows
<1>10. \A i \in 1..N : scan[i] = <<pp[Row(i, z)], oo[Column(i, z)]>>
  BY <1>6
<1>11. DOMAIN scan = 1..N
  BY <1>6
<1> HIDE DEF N
<1>12. \A i \in 1..N : scan[i] \in A
  <2> SUFFICES ASSUME NEW i \in 1..N PROVE scan[i] \in A
    OBVIOUS
  <2>1. pp[Row(i, z)] \in 1..n /\ oo[Column(i, z)] \in 0..(z - 1)
    BY <1>2, <1>3, <1>8 DEF OneToOne
  <2>2. scan[i] = <<pp[Row(i, z)], oo[Column(i, z)]>>
    BY <1>10
  <2> QED BY <2>1, <2>2
<1>13. scan \in [1..N -> A]
  BY <1>6, <1>10, <1>12
<1>14. Len(scan) = N
  BY <1>5, <1>13
<1>15. \A i, j \in 1..N : scan[i] = scan[j] => i = j
  <2> SUFFICES ASSUME NEW i \in 1..N, NEW j \in 1..N, scan[i] = scan[j] PROVE i = j
    OBVIOUS
  <2>1. pp[Row(i, z)] = pp[Row(j, z)] /\ oo[Column(i, z)] = oo[Column(j, z)]
    BY <1>10
  <2>2. Row(i, z) = Row(j, z) /\ Column(i, z) = Column(j, z)
    BY <1>2, <1>3, <1>8, <2>1 DEF OneToOne
  <2> QED BY <1>8, <2>2
<1>16. \A a \in A : \E i \in 1..N : scan[i] = a
  <2> SUFFICES ASSUME NEW a \in A PROVE \E i \in 1..N : scan[i] = a
    OBVIOUS
  <2>1. a = <<a[1], a[2]>> /\ a[1] \in 1..n /\ a[2] \in 0..(z - 1)
    OBVIOUS
  <2>2. PICK u \in 1..n : pp[u] = a[1]
    <3>1. \E u \in 1..n : pp[u] = s[a[1]]
      BY <1>2, <2>1 DEF SameValues
    <3> QED BY <1>4, <2>1, <3>1
  <2>3. a[2] + 1 \in 1..z /\ (a[2] + 1) - 1 = a[2]
    BY <1>1, <2>1
  <2>4. PICK v \in 1..z : oo[v] = a[2]
    <3>1. \E v \in 1..z : oo[v] = t[a[2] + 1]
      BY <1>3, <2>3 DEF SameValues
    <3>2. t[a[2] + 1] = a[2]
      BY <1>4, <2>3
    <3> QED BY <3>1, <3>2
  <2>5. PICK i \in 1..N : Row(i, z) = u /\ Column(i, z) = v
    BY <1>9
  <2> QED BY <1>10, <2>1, <2>2, <2>4, <2>5
<1>17. Addresses(pages, w) = A
  BY DEF Addresses, z
<1>18. Enumerates(scan, N, A)
  BY <1>5, <1>13, <1>14, <1>15, <1>16 DEF Enumerates
<1> QED BY <1>17, <1>18 DEF N, z, scan

\* The places of the lines of a class in the scan; the k-th of these lines;
\* how many the pool has.
Spots(pages, ms, x, c) ==
    LET scan == ScanOrder(pages, Width, x)
    IN  {i \in 1..Len(scan) : ClassAt(pages, ms, Width, scan[i]) = c}
Place(pages, ms, x, c, k) == ScanOrder(pages, Width, x)[Nth(Spots(pages, ms, x, c), k)]
CountOf(pages, ms, c) == Cardinality({a \in Addresses(pages, Width) : ClassAt(pages, ms, Width, a) = c})

\* All of these lines are there.
Located(pages, ms, x, c) ==
    /\ CountOf(pages, ms, c) \in Nat
    /\ \A k \in 1..CountOf(pages, ms, c) :
          Place(pages, ms, x, c, k) \in Addresses(pages, Width)
          /\ ClassAt(pages, ms, Width, Place(pages, ms, x, c, k)) = c
    /\ \A k, l \in 1..CountOf(pages, ms, c) :
          Place(pages, ms, x, c, k) = Place(pages, ms, x, c, l) => k = l
    /\ LET scan == ScanOrder(pages, Width, x)
           I == Spots(pages, ms, x, c)
       IN  /\ Len(scan) \in Nat /\ I \subseteq 1..Len(scan) /\ Cardinality(I) = CountOf(pages, ms, c)

\* The scan comes to all lines of a class.
LEMMA PlacesIs ==
  ASSUME NEW pages, Len(pages) \in Nat, NEW ms, NEW x \in Nat, NEW c
  PROVE  Located(pages, ms, x, c)
<1> DEFINE n == Len(pages)
           scan == ScanOrder(pages, Width, x)
           N == n * Pow2[Width]
           A == Addresses(pages, Width)
           I == Spots(pages, ms, x, c)
           cl(a) == ClassAt(pages, ms, Width, a)
           B == {a \in A : cl(a) = c}
<1>0. n \in Nat /\ Width \in Nat
  BY OracleSetupAssumption
<1>1. /\ N \in Nat /\ scan \in [1..N -> A] /\ Len(scan) = N
      /\ \A i, j \in 1..N : scan[i] = scan[j] => i = j
      /\ \A a \in A : \E i \in 1..N : scan[i] = a
  <2>1. Enumerates(scan, N, A)
    BY <1>0, ScanIs, Zenon
  <2> QED BY <2>1 DEF Enumerates
<1>2. I = {i \in 1..N : cl(scan[i]) = c}
  BY <1>1 DEF Spots
<1> HIDE DEF scan, N, A, I, cl
<1>3. IsFiniteSet(I) /\ Cardinality(I) \in 0..N /\ I \subseteq 1..N
  BY <1>1, <1>2, NthIs
<1> DEFINE f == [i \in I |-> scan[i]]
<1>4. f \in Bijection(I, B)
  <2>1. \A i \in I : scan[i] \in B
    BY <1>1, <1>2
  <2>2. f \in [I -> B]
    BY <2>1
  <2>3. \A i, j \in I : f[i] = f[j] => i = j
    BY <1>1, <1>2
  <2>4. \A b \in B : \E i \in I : f[i] = b
    <3> SUFFICES ASSUME NEW b \in B PROVE \E i \in I : f[i] = b
      OBVIOUS
    <3>1. PICK i \in 1..N : scan[i] = b
      BY <1>1
    <3>2. i \in I
      BY <1>2, <3>1
    <3> QED BY <3>1, <3>2
  <2> HIDE DEF f, B
  <2> QED BY <2>2, <2>3, <2>4 DEF Bijection, Injection, Surjection, IsInjective
<1>5. Cardinality(B) = Cardinality(I)
  <2> HIDE DEF f, B
  <2>1. ExistsBijection(I, B)
    BY <1>4 DEF ExistsBijection
  <2> QED BY <1>3, <2>1, FS_Bijection
<1>6. CountOf(pages, ms, c) = Cardinality(I)
  BY <1>5 DEF CountOf, A, cl
<1> DEFINE m == Cardinality(I)
<1>7. /\ \A k \in 1..m : Nth(I, k) \in I
      /\ \A k, l \in 1..m : Nth(I, k) = Nth(I, l) => k = l
  BY <1>1, <1>3, NthIs
<1>8. m \in Nat
  BY <1>1, <1>3
<1> HIDE DEF m
<1>9. \A k \in 1..m : scan[Nth(I, k)] \in A /\ cl(scan[Nth(I, k)]) = c
  BY <1>1, <1>2, <1>7
<1>10. \A k, l \in 1..m : scan[Nth(I, k)] = scan[Nth(I, l)] => k = l
  BY <1>1, <1>2, <1>7
<1>11. \A k : Place(pages, ms, x, c, k) = scan[Nth(I, k)]
  BY DEF Place, scan, I
<1>12. CountOf(pages, ms, c) = m
  BY <1>6 DEF m
<1>13. /\ \A k \in 1..CountOf(pages, ms, c) :
            Place(pages, ms, x, c, k) \in Addresses(pages, Width)
            /\ ClassAt(pages, ms, Width, Place(pages, ms, x, c, k)) = c
       /\ \A k, l \in 1..CountOf(pages, ms, c) :
            Place(pages, ms, x, c, k) = Place(pages, ms, x, c, l) => k = l
  BY <1>9, <1>10, <1>11, <1>12 DEF A, cl
<1>14. Len(scan) \in Nat /\ I \subseteq 1..Len(scan) /\ Cardinality(I) = CountOf(pages, ms, c)
  BY <1>1, <1>3, <1>6
<1> QED BY <1>8, <1>12, <1>13, <1>14 DEF scan, I, Located

\* The lines of the classes in turn, q of each.
Gathered(pages, ms, x, classes, q) ==
    [i \in 1..(Len(classes) * q) |-> Place(pages, ms, x, classes[Row(i, q)], Column(i, q))]

\* There are q lines of every class.
Enough(pages, ms, classes, q) == \A s \in 1..Len(classes) : CountOf(pages, ms, classes[s]) >= q

\* collect_line_set finds all it looks for.
LEMMA CollectIs ==
  ASSUME NEW pages, Len(pages) \in Nat, NEW ms, NEW x \in Nat, NEW T, NEW classes \in Seq(T),
         OneToOne(classes, Len(classes), T), NEW q \in Nat, Enough(pages, ms, classes, q)
  PROVE  LET slots == collect_line_set(pages, ms, Width, classes, q, x)
         IN  AllFilled(slots, q) /\ LineSet(slots, q) = Gathered(pages, ms, x, classes, q)
<1> DEFINE slots == collect_line_set(pages, ms, Width, classes, q, x)
           scan == ScanOrder(pages, Width, x)
           I(s) == Spots(pages, ms, x, classes[s])
           n == Len(classes)
           fnd(s) == Pick(scan, I(s))
<1>0. n \in Nat /\ \A i, j \in 1..n : classes[i] = classes[j] => i = j
  BY DEF OneToOne
<1>1. slots = [s \in 1..n |-> SubSeq(fnd(s), 1, Min({q, Len(fnd(s))}))]
  <2>1. \A s \in 1..n : ~ \E t \in (s + 1)..n : classes[t] = classes[s]
    BY <1>0
  <2>2. \A s : Matching(scan, LAMBDA a : ClassAt(pages, ms, Width, a) = classes[s]) = fnd(s)
    BY DEF Matching, Spots
  <2> DEFINE F(s) == IF \E t \in (s + 1)..n : classes[t] = classes[s] THEN <<>>
                     ELSE Matching(scan, LAMBDA a : ClassAt(pages, ms, Width, a) = classes[s])
  <2>3. \A s \in 1..n : F(s) = fnd(s)
    BY <2>1, <2>2
  <2>4. slots = [s \in 1..n |-> SubSeq(F(s), 1, Min({q, Len(F(s))}))]
    BY DEF collect_line_set
  <2> HIDE DEF F, fnd, slots
  <2> QED BY <2>3, <2>4, Zenon
<1>2. ASSUME NEW s \in 1..n
      PROVE  /\ Len(fnd(s)) >= q /\ Len(fnd(s)) \in Nat
             /\ \A k \in 1..q : fnd(s)[k] = Place(pages, ms, x, classes[s], k)
             /\ DOMAIN fnd(s) = 1..Len(fnd(s))
  <2>1. /\ Len(scan) \in Nat /\ I(s) \subseteq 1..Len(scan)
        /\ Cardinality(I(s)) = CountOf(pages, ms, classes[s])
    <3>1. Located(pages, ms, x, classes[s])
      BY PlacesIs, Zenon
    <3> QED BY <3>1 DEF Located
  <2>2. CountOf(pages, ms, classes[s]) >= q
    BY DEF Enough
  <2> HIDE DEF scan, I
  <2>3. /\ Len(fnd(s)) = Cardinality(I(s)) /\ DOMAIN fnd(s) = 1..Cardinality(I(s)) /\ Cardinality(I(s)) \in Nat
        /\ \A k \in 1..Cardinality(I(s)) : fnd(s)[k] = scan[Nth(I(s), k)]
    BY <2>1, PickIs
  <2> HIDE DEF fnd
  <2>4. \A k \in 1..q : k \in 1..Cardinality(I(s))
    BY <2>1, <2>2, <2>3
  <2>5. \A k : Place(pages, ms, x, classes[s], k) = scan[Nth(I(s), k)]
    BY DEF Place, scan, I
  <2> QED BY <2>1, <2>2, <2>3, <2>4, <2>5
<1> HIDE DEF fnd
<1>3. ASSUME NEW s \in 1..n PROVE Min({q, Len(fnd(s))}) = q
  <2>1. Len(fnd(s)) >= q /\ Len(fnd(s)) \in Nat
    BY <1>2
  <2> DEFINE l == Len(fnd(s))
  <2> HIDE DEF l
  <2>2. \A y \in {q, l} : y = q \/ y = l
    OBVIOUS
  <2>3. q \in {q, l} /\ \A y \in {q, l} : q <= y
    BY <2>1 DEF l
  <2>4. \A z \in {q, l} : (\A y \in {q, l} : z <= y) => z = q
    BY <2>1 DEF l
  <2> QED BY <2>3, <2>4 DEF Min, l
<1>4. ASSUME NEW s \in 1..n
      PROVE  Len(slots[s]) = q /\ \A k \in 1..q : slots[s][k] = Place(pages, ms, x, classes[s], k)
  <2>1. slots[s] = SubSeq(fnd(s), 1, q)
    BY <1>1, <1>3
  <2>2. Len(fnd(s)) >= q /\ Len(fnd(s)) \in Nat /\ (\A k \in 1..q : fnd(s)[k] = Place(pages, ms, x, classes[s], k))
        /\ DOMAIN fnd(s) = 1..Len(fnd(s))
    BY <1>2
  <2>3. SubSeq(fnd(s), 1, q) = [k \in 1..q |-> fnd(s)[k]]
    BY <2>2
  <2> QED BY <2>1, <2>2, <2>3
<1>5. DOMAIN slots = 1..n /\ Len(slots) = n
  BY <1>0, <1>1
<1> HIDE DEF slots
<1>6. AllFilled(slots, q)
  BY <1>4, <1>5 DEF AllFilled
<1>7. LineSet(slots, q) = [i \in 1..(n * q) |-> slots[Row(i, q)][Column(i, q)]]
  BY <1>5 DEF LineSet, Row, Column
<1>8. \A i \in 1..(n * q) : Row(i, q) \in 1..n /\ Column(i, q) \in 1..q
  BY <1>0, Grid DEF Rows
<1>9. \A i \in 1..(n * q) : slots[Row(i, q)][Column(i, q)] = Place(pages, ms, x, classes[Row(i, q)], Column(i, q))
  BY <1>4, <1>8
<1>10. LineSet(slots, q) = Gathered(pages, ms, x, classes, q)
  BY <1>7, <1>9, Zenon DEF Gathered
<1> QED BY <1>6, <1>10 DEF slots

\* Base and offset have no bit in common, so the parities add up: the class
\* of a line is that of its address.
LEMMA AddressClass ==
  ASSUME NEW ms \in Seq(SUBSET Int), NEW base \in SUBSET Int, IsFiniteSet(base),
         NEW offset \in SUBSET Int, IsFiniteSet(offset), base \cap offset = {}
  PROVE  LineClass(ms, base, offset) = BankClass(ms, base \cup offset)
<1>1. ASSUME NEW i \in 1..Len(ms)
      PROVE  i \in LineClass(ms, base, offset) <=> i \in BankClass(ms, base \cup offset)
  <2> DEFINE a == base \cap ms[i]
             b == offset \cap ms[i]
             u == (base \cup offset) \cap ms[i]
  <2>1. IsFiniteSet(a) /\ IsFiniteSet(b) /\ u = a \cup b /\ a \cap b = {}
    BY FS_Intersection
  <2> HIDE DEF a, b, u
  <2>2. Cardinality(a) \in Nat /\ Cardinality(b) \in Nat
    BY <2>1, FS_CardinalityType
  <2>3. Cardinality(u) = Cardinality(a) + Cardinality(b)
    <3>1. Cardinality(a \cup b) = Cardinality(a) + Cardinality(b) - Cardinality(a \cap b)
      BY <2>1, FS_Union
    <3>2. Cardinality(a \cap b) = 0
      BY <2>1, FS_EmptySet
    <3> QED BY <2>1, <2>2, <3>1, <3>2
  <2>4. (Cardinality(u) % 2 = 1) <=> ~(Cardinality(a) % 2 = 1 <=> Cardinality(b) % 2 = 1)
    BY <2>2, <2>3
  <2>5. i \in BankClass(ms, base \cup offset) <=> Cardinality(u) % 2 = 1
    BY DEF BankClass, parity64, u
  <2>6. i \in BankClass(ms, base) <=> Cardinality(a) % 2 = 1
    BY DEF BankClass, parity64, a
  <2>7. i \in BankClass(ms, offset) <=> Cardinality(b) % 2 = 1
    BY DEF BankClass, parity64, b
  <2>8. i \in LineClass(ms, base, offset) <=> ~(i \in BankClass(ms, base) <=> i \in BankClass(ms, offset))
    BY DEF LineClass, Xor
  <2> QED BY <2>4, <2>5, <2>6, <2>7, <2>8
<1>2. LineClass(ms, base, offset) \subseteq 1..Len(ms) /\ BankClass(ms, base \cup offset) \subseteq 1..Len(ms)
  BY DEF LineClass, Xor, BankClass
<1> QED BY <1>1, <1>2

\* Frames the kernel gives at first, and all there are.
Homes == {f \in SUBSET Nat : IsFiniteSet(f) /\ f # Elsewhere /\ \A b \in f : b >= Width}
Frames == {Elsewhere} \cup SUBSET Nat

\* So the acceptance test classifies a line as the selection did.
LEMMA AddressClassAt ==
  ASSUME NEW ms \in Seq(SUBSET Int), NEW pages \in Seq(Homes), NEW a \in Addresses(pages, Width)
  PROVE  address_bank_class(pages, ms, Width, a) = ClassAt(pages, ms, Width, a)
<1>1. a[1] \in 1..Len(pages) /\ a[2] \in 0..(Pow2[Width] - 1) /\ Width \in Nat
  BY OracleSetupAssumption DEF Addresses
<1> DEFINE base == pages[a[1]]
           offset == Offset(a[2], Width)
<1>2. base \in Homes
  BY <1>1
<1>3. base \in SUBSET Int /\ IsFiniteSet(base) /\ \A b \in base : b >= Width
  BY <1>2 DEF Homes
<1>4. offset \subseteq 0..(Width - 1)
  BY DEF Offset
<1>5. offset \in SUBSET Int /\ IsFiniteSet(offset) /\ base \cap offset = {}
  <2>1. IsFiniteSet(0..(Width - 1))
    BY <1>1, FS_Interval
  <2>2. IsFiniteSet(offset)
    BY <1>4, <2>1, FS_Subset
  <2>3. base \cap offset = {}
    BY <1>1, <1>3, <1>4
  <2> QED BY <1>4, <2>2, <2>3
<1> HIDE DEF base, offset
<1>6. LineClass(ms, base, offset) = BankClass(ms, base \cup offset)
  BY <1>3, <1>5, AddressClass
<1> QED BY <1>6 DEF address_bank_class, ClassAt, base, offset

\* The lines are different lines of the pool, each of the class of its row.
Selects(lines, pages, ms, classes, q) ==
    LET n == Len(classes) * q
    IN  /\ n \in Nat /\ OneToOne(lines, n, Addresses(pages, Width)) /\ Len(lines) = n
        /\ \A i \in 1..n : ClassAt(pages, ms, Width, lines[i]) = classes[Row(i, q)]
        /\ Range(lines) = {lines[i] : i \in 1..n}

\* Those that are gathered are.
LEMMA GatheredIs ==
  ASSUME NEW pages, Len(pages) \in Nat, NEW ms, NEW x \in Nat, NEW T, NEW classes \in Seq(T),
         OneToOne(classes, Len(classes), T), NEW q \in Nat, Enough(pages, ms, classes, q)
  PROVE  Selects(Gathered(pages, ms, x, classes, q), pages, ms, classes, q)
<1> DEFINE lines == Gathered(pages, ms, x, classes, q)
           g == Len(classes)
           n == g * q
           A == Addresses(pages, Width)
           P(s, k) == Place(pages, ms, x, classes[s], k)
           cl(a) == ClassAt(pages, ms, Width, a)
<1>0. g \in Nat /\ n \in Nat /\ \A s, t \in 1..g : classes[s] = classes[t] => s = t
  BY DEF OneToOne
<1>1. ASSUME NEW s \in 1..g
      PROVE  /\ \A k \in 1..q : P(s, k) \in A /\ cl(P(s, k)) = classes[s]
             /\ \A k, l \in 1..q : P(s, k) = P(s, l) => k = l
  <2>1. Located(pages, ms, x, classes[s])
    BY PlacesIs, Zenon
  <2>2. CountOf(pages, ms, classes[s]) >= q
    BY DEF Enough
  <2>3. \A k \in 1..q : k \in 1..CountOf(pages, ms, classes[s])
    BY <2>1, <2>2 DEF Located
  <2> QED BY <2>1, <2>3 DEF Located
<1>2. lines = [i \in 1..n |-> P(Row(i, q), Column(i, q))]
  BY DEF Gathered
<1> HIDE DEF lines, P, A, cl, n
<1>3. \A i \in 1..n : Row(i, q) \in 1..g /\ Column(i, q) \in 1..q /\ i = (Row(i, q) - 1) * q + Column(i, q)
  <2>1. Rows(g, q)
    BY <1>0, Grid, Zenon
  <2> QED BY <2>1 DEF Rows, n
<1>4. \A i \in 1..n : lines[i] = P(Row(i, q), Column(i, q))
  BY <1>2
<1>5. \A i \in 1..n : lines[i] \in A /\ cl(lines[i]) = classes[Row(i, q)]
  BY <1>1, <1>3, <1>4
<1>6. ASSUME NEW i \in 1..n, NEW j \in 1..n, lines[i] = lines[j] PROVE i = j
  <2>1. classes[Row(i, q)] = classes[Row(j, q)]
    BY <1>5, <1>6
  <2>2. Row(i, q) = Row(j, q)
    BY <1>0, <1>3, <2>1
  <2>3. Column(i, q) = Column(j, q)
    BY <1>1, <1>3, <1>4, <1>6, <2>2
  <2> QED BY <1>3, <2>2, <2>3
<1>7. lines \in [1..n -> A]
  BY <1>2, <1>4, <1>5
<1>8. Len(lines) = n /\ Range(lines) = {lines[i] : i \in 1..n}
  BY <1>0, <1>7 DEF Range
<1>9. OneToOne(lines, n, A)
  BY <1>6, <1>7 DEF OneToOne
<1> QED BY <1>0, <1>5, <1>8, <1>9 DEF lines, n, A, cl, Selects

-----------------------------------------------------------------------------
(* Histograms.                                                             *)

\* A histogram with q lines in every class of C.
Bars(ms, C, q) == [c \in Range(class_space(ms)) |-> IF c \in C THEN q ELSE 0]

\* The lines of a class are those of its row.
LEMMA RowOf ==
  ASSUME NEW g \in Nat, NEW q \in Nat, NEW s \in 1..g
  PROVE  /\ {i \in 1..(g * q) : Row(i, q) = s} = ((s - 1) * q + 1)..(s * q)
         /\ Cardinality({i \in 1..(g * q) : Row(i, q) = s}) = q
         /\ IsFiniteSet({i \in 1..(g * q) : Row(i, q) = s})
<1>1. Rows(g, q)
  BY Grid, Zenon
<1> DEFINE n == g * q
           lo == (s - 1) * q + 1
           hi == s * q
           S == {i \in 1..n : Row(i, q) = s}
<1>2. n \in Nat /\ lo \in Int /\ hi \in Int /\ hi - lo + 1 = q
  OBVIOUS
<1>3. ASSUME NEW i \in S PROVE i \in lo..hi
  <2>1. i \in 1..n /\ Row(i, q) = s
    OBVIOUS
  <2>2. Column(i, q) \in 1..q /\ i = (s - 1) * q + Column(i, q)
    BY <1>1, <2>1 DEF Rows
  <2> DEFINE c == Column(i, q)
  <2> HIDE DEF c
  <2>3. c \in 1..q /\ i = (s - 1) * q + c
    BY <2>2 DEF c
  <2> QED BY <2>3
<1>4. ASSUME NEW i \in lo..hi PROVE i \in S
  <2> DEFINE c == i - (s - 1) * q
  <2>1. c \in 1..q /\ i = (s - 1) * q + c
    OBVIOUS
  <2> HIDE DEF c
  <2>2. (s - 1) * q + c \in 1..n /\ Row((s - 1) * q + c, q) = s
    BY <1>1, <2>1 DEF Rows
  <2> QED BY <2>1, <2>2
<1>5. S = lo..hi
  <2> HIDE DEF S, lo, hi
  <2> QED BY <1>3, <1>4
<1>6. IsFiniteSet(lo..hi) /\ Cardinality(lo..hi) = q
  <2> HIDE DEF lo, hi
  <2>1. IsFiniteSet(lo..hi) /\ Cardinality(lo..hi) = IF lo > hi THEN 0 ELSE hi - lo + 1
    BY <1>2, FS_Interval
  <2> QED BY <1>2, <2>1
<1> QED BY <1>5, <1>6

\* The histogram of selected lines.
LEMMA HistogramIs ==
  ASSUME NEW pages \in Seq(Homes), NEW ms \in Seq(SUBSET Int), NEW T, NEW classes \in Seq(T),
         OneToOne(classes, Len(classes), T), NEW q \in Nat, NEW lines, Selects(lines, pages, ms, classes, q)
  PROVE  build_histogram(pages, ms, Width, lines) = Bars(ms, Range(classes), q)
<1> DEFINE g == Len(classes)
           n == g * q
           H(c) == Quantify(DOMAIN lines, LAMBDA i : address_bank_class(pages, ms, Width, lines[i]) = c)
<1>1. /\ g \in Nat /\ n \in Nat /\ DOMAIN lines = 1..n
      /\ \A i \in 1..n : lines[i] \in Addresses(pages, Width) /\ ClassAt(pages, ms, Width, lines[i]) = classes[Row(i, q)]
      /\ \A s, t \in 1..g : classes[s] = classes[t] => s = t
  BY DEF Selects, OneToOne
<1>2. \A i \in 1..n : address_bank_class(pages, ms, Width, lines[i]) = classes[Row(i, q)]
  BY <1>1, AddressClassAt
<1>3. \A i \in 1..n : Row(i, q) \in 1..g
  <2>1. Rows(g, q)
    BY <1>1, Grid, Zenon
  <2> QED BY <2>1 DEF Rows
<1>4. ASSUME NEW c PROVE H(c) = Cardinality({i \in 1..n : classes[Row(i, q)] = c})
  <2>1. {i \in DOMAIN lines : address_bank_class(pages, ms, Width, lines[i]) = c} = {i \in 1..n : classes[Row(i, q)] = c}
    BY <1>1, <1>2
  <2> QED BY <2>1, Zenon DEF Quantify
<1> HIDE DEF n, H
<1>5. ASSUME NEW c \in Range(classes) PROVE H(c) = q
  <2>1. PICK s \in 1..g : classes[s] = c
    BY RangeIs
  <2>2. {i \in 1..n : classes[Row(i, q)] = c} = {i \in 1..n : Row(i, q) = s}
    BY <1>1, <1>3, <2>1
  <2>3. Cardinality({i \in 1..n : Row(i, q) = s}) = q
    <3>1. Cardinality({i \in 1..(g * q) : Row(i, q) = s}) = q
      <4>1. g \in Nat /\ q \in Nat /\ s \in 1..g
        BY <1>1, <2>1
      <4> HIDE DEF g
      <4> QED BY <4>1, RowOf, Zenon
    <3> QED BY <3>1 DEF n
  <2> QED BY <1>4, <2>2, <2>3
<1>6. ASSUME NEW c, c \notin Range(classes) PROVE H(c) = 0
  <2>1. \A s \in 1..g : classes[s] # c
    BY <1>6, RangeIs
  <2>2. {i \in 1..n : classes[Row(i, q)] = c} = {}
    BY <1>3, <2>1
  <2> QED BY <1>4, <2>2, FS_EmptySet
<1>7. build_histogram(pages, ms, Width, lines) = [c \in Range(class_space(ms)) |-> H(c)]
  BY DEF build_histogram, H
<1>8. \A c : H(c) = IF c \in Range(classes) THEN q ELSE 0
  BY <1>5, <1>6
<1> QED BY <1>7, <1>8, Zenon DEF Bars

\* The smaller and the larger of two numbers.
LEMMA MinMaxIs ==
  ASSUME NEW a \in Int, NEW b \in Int
  PROVE  Min({a, b}) = (IF a <= b THEN a ELSE b) /\ Max({a, b}) = (IF a <= b THEN b ELSE a)
<1> DEFINE m == IF a <= b THEN a ELSE b
           l == IF a <= b THEN b ELSE a
<1>1. m \in {a, b} /\ (\A y \in {a, b} : m <= y) /\ \A z \in {a, b} : (\A y \in {a, b} : z <= y) => z = m
  OBVIOUS
<1>2. l \in {a, b} /\ (\A y \in {a, b} : l >= y) /\ \A z \in {a, b} : (\A y \in {a, b} : z >= y) => z = l
  OBVIOUS
<1> HIDE DEF m, l
<1>3. Min({a, b}) = m
  BY <1>1 DEF Min
<1>4. Max({a, b}) = l
  BY <1>2 DEF Max
<1> QED BY <1>3, <1>4 DEF m, l

\* What the acceptance tests compute of two histograms.
Compares(v, a, V, A, q) ==
    /\ histogram_unique_classes(a) = Cardinality(A)
    /\ histogram_shared_classes(v, a) = Cardinality(V \cap A)
    /\ Intersection(v, a) = Cardinality(V \cap A) * q
    /\ Union(v, a) = Cardinality(V \cup A) * q

\* They count the classes.
LEMMA BarsIs ==
  ASSUME NEW ms, NEW V, NEW A, V \subseteq Range(class_space(ms)), A \subseteq Range(class_space(ms)),
         IsFiniteSet(V), IsFiniteSet(A), NEW q \in Nat \ {0}
  PROVE  Compares(Bars(ms, V, q), Bars(ms, A, q), V, A, q)
<1> DEFINE Cs == Range(class_space(ms))
           v == Bars(ms, V, q)
           a == Bars(ms, A, q)
<1>1. /\ DOMAIN v = Cs /\ DOMAIN a = Cs
      /\ \A c \in Cs : v[c] = IF c \in V THEN q ELSE 0
      /\ \A c \in Cs : a[c] = IF c \in A THEN q ELSE 0
  BY DEF Bars
<1> HIDE DEF Cs, v, a
<1>2. V \subseteq Cs /\ A \subseteq Cs
  BY DEF Cs
<1>3. histogram_unique_classes(a) = Cardinality(A)
  <2>1. {c \in DOMAIN a : a[c] # 0} = A
    BY <1>1, <1>2
  <2> QED BY <2>1 DEF histogram_unique_classes, Quantify
<1>4. histogram_shared_classes(v, a) = Cardinality(V \cap A)
  <2>1. {c \in DOMAIN v : v[c] # 0 /\ a[c] # 0} = V \cap A
    BY <1>1, <1>2
  <2> QED BY <2>1 DEF histogram_shared_classes, Quantify
<1>5. IsFiniteSet(1..q) /\ Cardinality(1..q) = q
  BY FS_Interval
<1>6. \A c \in Cs : Min({v[c], a[c]}) = (IF c \in V \cap A THEN q ELSE 0) /\ Max({v[c], a[c]}) = (IF c \in V \cup A THEN q ELSE 0)
  <2> SUFFICES ASSUME NEW c \in Cs
               PROVE  /\ Min({v[c], a[c]}) = (IF c \in V \cap A THEN q ELSE 0)
                      /\ Max({v[c], a[c]}) = (IF c \in V \cup A THEN q ELSE 0)
    OBVIOUS
  <2>1. v[c] = (IF c \in V THEN q ELSE 0) /\ a[c] = (IF c \in A THEN q ELSE 0) /\ v[c] \in Int /\ a[c] \in Int
    BY <1>1
  <2>2. Min({v[c], a[c]}) = (IF v[c] <= a[c] THEN v[c] ELSE a[c]) /\ Max({v[c], a[c]}) = (IF v[c] <= a[c] THEN a[c] ELSE v[c])
    BY <2>1, MinMaxIs
  <2> QED BY <2>1, <2>2
<1>7. ASSUME NEW B, B \subseteq Cs, IsFiniteSet(B), NEW f, \A c \in Cs : f[c] = IF c \in B THEN q ELSE 0
      PROVE  Cardinality(UNION {{c} \X (1..f[c]) : c \in Cs}) = Cardinality(B) * q
  <2>1. \A z \in UNION {{c} \X (1..f[c]) : c \in Cs} : z \in B \X (1..q)
    <3> SUFFICES ASSUME NEW c \in Cs, NEW z \in {c} \X (1..f[c]) PROVE z \in B \X (1..q)
      OBVIOUS
    <3>1. z[2] \in 1..f[c] /\ z[1] = c /\ z = <<z[1], z[2]>>
      OBVIOUS
    <3>2. c \in B
      BY <1>7, <3>1
    <3> QED BY <1>7, <3>1, <3>2
  <2>2. \A z \in B \X (1..q) : z \in UNION {{c} \X (1..f[c]) : c \in Cs}
    <3> SUFFICES ASSUME NEW z \in B \X (1..q) PROVE z \in UNION {{c} \X (1..f[c]) : c \in Cs}
      OBVIOUS
    <3>1. z = <<z[1], z[2]>> /\ z[1] \in B /\ z[2] \in 1..q /\ z[1] \in Cs
      BY <1>7
    <3>2. f[z[1]] = q
      BY <1>7, <3>1
    <3>3. z \in {z[1]} \X (1..f[z[1]])
      BY <3>1, <3>2
    <3> QED BY <3>1, <3>3
  <2>3. UNION {{c} \X (1..f[c]) : c \in Cs} = B \X (1..q)
    BY <2>1, <2>2
  <2>4. Cardinality(B \X (1..q)) = Cardinality(B) * Cardinality(1..q)
    BY <1>5, <1>7, FS_Product
  <2> QED BY <1>5, <2>3, <2>4
<1>8. Intersection(v, a) = Cardinality(V \cap A) * q
  <2> DEFINE f == [c \in Cs |-> Min({v[c], a[c]})]
  <2>1. \A c \in Cs : f[c] = IF c \in V \cap A THEN q ELSE 0
    BY <1>6
  <2>2. IsFiniteSet(V \cap A) /\ V \cap A \subseteq Cs
    BY <1>2, FS_Intersection
  <2>3. {{c} \X (1..Min({v[c], a[c]})) : c \in Cs} = {{c} \X (1..f[c]) : c \in Cs}
    BY Zenon
  <2>4. Intersection(v, a) = Cardinality(UNION {{c} \X (1..f[c]) : c \in Cs})
    BY <1>1, <2>3, Zenon DEF Intersection
  <2> HIDE DEF f
  <2> QED BY <1>7, <2>1, <2>2, <2>4
<1>9. Union(v, a) = Cardinality(V \cup A) * q
  <2> DEFINE f == [c \in Cs |-> Max({v[c], a[c]})]
  <2>1. \A c \in Cs : f[c] = IF c \in V \cup A THEN q ELSE 0
    BY <1>6
  <2>2. IsFiniteSet(V \cup A) /\ V \cup A \subseteq Cs
    BY <1>2, FS_Union
  <2>3. {{c} \X (1..Max({v[c], a[c]})) : c \in Cs} = {{c} \X (1..f[c]) : c \in Cs}
    BY Zenon
  <2>4. Union(v, a) = Cardinality(UNION {{c} \X (1..f[c]) : c \in Cs})
    BY <1>1, <2>3, Zenon DEF Union
  <2> HIDE DEF f
  <2> QED BY <1>7, <2>1, <2>2, <2>4
<1>10. Compares(v, a, V, A, q)
  BY <1>3, <1>4, <1>8, <1>9 DEF Compares
<1> QED BY <1>10 DEF v, a

-----------------------------------------------------------------------------
(* The classes.                                                            *)

\* The numbering of the classes has each class once.
LEMMA ClassSpaceIs ==
  ASSUME NEW ms, Len(ms) \in Nat
  PROVE  /\ Pow2[Len(ms)] \in Nat
         /\ OneToOne(class_space(ms), Pow2[Len(ms)], Range(class_space(ms)))
<1> DEFINE m == Len(ms)
           n == Pow2[m]
           s == class_space(ms)
<1>1. m \in Nat /\ n \in Nat
  BY Pow2Is
<1>2. s = [k \in 1..n |-> ClassNumber(k - 1, ms)]
  BY DEF class_space
<1>3. s \in [1..n -> Range(s)]
  BY <1>2 DEF Range
<1>4. ASSUME NEW i \in 1..n, NEW j \in 1..n, s[i] = s[j] PROVE i = j
  <2>1. ClassNumber(i - 1, ms) = ClassNumber(j - 1, ms)
    BY <1>2, <1>4
  <2> DEFINE a == i - 1
             b == j - 1
  <2>2. a \in 0..(n - 1) /\ b \in 0..(n - 1)
    BY <1>1
  <2> HIDE DEF a, b
  <2>3. ASSUME NEW k \in 0..(m - 1) PROVE (a \div Pow2[k]) % 2 = (b \div Pow2[k]) % 2
    <3>1. k + 1 \in 1..m /\ (k + 1) - 1 = k
      BY <1>1
    <3>2. k + 1 \in ClassNumber(a, ms) <=> k + 1 \in ClassNumber(b, ms)
      BY <2>1 DEF a, b
    <3>3. \A z \in {a, b} : k + 1 \in ClassNumber(z, ms) <=> (z \div Pow2[k]) % 2 = 1
      BY <3>1 DEF ClassNumber
    <3>4. (a \div Pow2[k]) % 2 = 1 <=> (b \div Pow2[k]) % 2 = 1
      BY <3>2, <3>3
    <3>5. Pow2[k] \in Nat \ {0}
      BY Pow2Is
    <3>6. a \div Pow2[k] \in Int /\ b \div Pow2[k] \in Int
      BY <2>2, <3>5, <1>1
    <3> DEFINE u == a \div Pow2[k]
               w == b \div Pow2[k]
    <3> HIDE DEF u, w
    <3>7. u \in Int /\ w \in Int /\ (u % 2 = 1 <=> w % 2 = 1)
      BY <3>4, <3>6 DEF u, w
    <3>8. u % 2 = w % 2
      BY <3>7
    <3> QED BY <3>8 DEF u, w
  <2>4. a = b
    BY <1>1, <2>2, <2>3, BitsDetermine
  <2> QED BY <1>1, <2>4 DEF a, b
<1> HIDE DEF s
<1>5. OneToOne(s, n, Range(s))
  BY <1>3, <1>4 DEF OneToOne
<1> QED BY <1>1, <1>5 DEF s

\* Positions picked from a sequence of different values.
LEMMA PickedIs ==
  ASSUME NEW n \in Nat, NEW T, NEW s, OneToOne(s, n, T), NEW I, I \subseteq 1..n, NEW G, \A i \in I : s[i] \in G
  PROVE  /\ Cardinality(I) \in Nat /\ Len(Pick(s, I)) = Cardinality(I)
         /\ OneToOne(Pick(s, I), Cardinality(I), G)
<1> DEFINE m == Cardinality(I)
           t == Pick(s, I)
<1>1. /\ m \in Nat /\ Len(t) = m /\ t = [k \in 1..m |-> s[Nth(I, k)]]
  <2>1. Cardinality(I) \in 0..n /\ Len(Pick(s, I)) = Cardinality(I)
    BY PickIs
  <2> QED BY <2>1 DEF Pick
<1>2. /\ \A k \in 1..m : Nth(I, k) \in I
      /\ \A k, l \in 1..m : Nth(I, k) = Nth(I, l) => k = l
  BY NthIs
<1> HIDE DEF m, t
<1>3. t \in [1..m -> G]
  BY <1>1, <1>2
<1>4. ASSUME NEW k \in 1..m, NEW l \in 1..m, t[k] = t[l] PROVE k = l
  <2>1. s[Nth(I, k)] = s[Nth(I, l)] /\ Nth(I, k) \in 1..n /\ Nth(I, l) \in 1..n
    BY <1>1, <1>2, <1>4
  <2>2. Nth(I, k) = Nth(I, l)
    BY <2>1 DEF OneToOne
  <2> QED BY <1>2, <2>2
<1>5. OneToOne(t, m, G)
  BY <1>3, <1>4 DEF OneToOne
<1> QED BY <1>1, <1>5 DEF m, t

\* Two groups of g classes of G, with none in common.
Groups(v, d, g, G) ==
    /\ OneToOne(v, g, G) /\ OneToOne(d, g, G)
    /\ \A i, j \in 1..g : v[i] # d[j]

\* The classes are divided into two groups.
LEMMA SplitIs ==
  ASSUME NEW n \in Nat, NEW G, NEW s, OneToOne(s, n, G), Len(s) = n, NEW g \in Nat, ~TooFew(s, g), NEW x \in Nat
  PROVE  Groups(Split(s, g, x).victim, Split(s, g, x).disjoint, g, G)
<1> DEFINE o == shuffle(s, x)
<1>1. OneToOne(o, n, G) /\ Len(o) = n
  <2>1. OneToOne(shuffle(s, x), n, G) /\ Len(shuffle(s, x)) = n
    BY ShuffledIs
  <2> QED BY <2>1
<1>2. 2 * g <= n
  BY DEF TooFew
<1> DEFINE v == SubSeq(o, 1, g)
           d == SubSeq(o, g + 1, 2 * g)
<1>3. Split(s, g, x).victim = v /\ Split(s, g, x).disjoint = d
  BY DEF Split
<1> HIDE DEF o
<1>4. o \in [1..n -> G] /\ o \in Seq(G) /\ \A i, j \in 1..n : o[i] = o[j] => i = j
  BY <1>1 DEF OneToOne
<1>5. v = [i \in 1..g |-> o[i]]
  BY <1>1, <1>2, <1>4
<1>6. d = [i \in 1..g |-> o[g + i]]
  <2>1. d = [i \in 1..(2 * g - (g + 1) + 1) |-> o[(g + 1) + i - 1]]
    BY <1>1, <1>2, <1>4
  <2>2. 2 * g - (g + 1) + 1 = g /\ \A i \in 1..g : (g + 1) + i - 1 = g + i
    OBVIOUS
  <2> QED BY <2>1, <2>2
<1> HIDE DEF v, d
<1>7. \A i \in 1..g : i \in 1..n /\ g + i \in 1..n
  BY <1>2
<1>8. OneToOne(v, g, G)
  BY <1>4, <1>5, <1>7 DEF OneToOne
<1>9. OneToOne(d, g, G)
  <2>1. d \in [1..g -> G]
    BY <1>4, <1>6, <1>7
  <2>2. ASSUME NEW i \in 1..g, NEW j \in 1..g, d[i] = d[j] PROVE i = j
    <3>1. o[g + i] = o[g + j] /\ g + i \in 1..n /\ g + j \in 1..n
      BY <1>6, <1>7, <2>2
    <3>2. g + i = g + j
      BY <1>4, <3>1
    <3> QED BY <3>2
  <2> QED BY <2>1, <2>2 DEF OneToOne
<1>10. \A i, j \in 1..g : v[i] # d[j]
  <2> SUFFICES ASSUME NEW i \in 1..g, NEW j \in 1..g, v[i] = d[j] PROVE FALSE
    OBVIOUS
  <2>1. o[i] = o[g + j] /\ i \in 1..n /\ g + j \in 1..n
    BY <1>5, <1>6, <1>7
  <2>2. i = g + j
    BY <1>4, <2>1
  <2> QED BY <2>2
<1> QED BY <1>3, <1>8, <1>9, <1>10 DEF Groups

\* The classes of an aggressor: h of the victim's, the others not.
Mixed(v, d, g, h) == SubSeq(v, 1, h) \o SubSeq(d, 1, g - h)

\* There are g of them, and h are the victim's.
Shares(v, c, g, h, G) ==
    /\ c \in Seq(G) /\ Len(c) = g /\ OneToOne(c, g, G)
    /\ IsFiniteSet(Range(v)) /\ IsFiniteSet(Range(c))
    /\ Cardinality(Range(v)) = g /\ Cardinality(Range(c)) = g
    /\ Cardinality(Range(v) \cap Range(c)) = h
    /\ Cardinality(Range(v) \cup Range(c)) = 2 * g - h

\* The two parts together have the number asked for.
LEMMA MixedIs ==
  ASSUME NEW g \in Nat, NEW G, NEW v, NEW d, Groups(v, d, g, G), NEW h \in 0..g
  PROVE  Shares(v, Mixed(v, d, g, h), g, h, G)
<1> DEFINE a == SubSeq(v, 1, h)
           b == SubSeq(d, 1, g - h)
           c == a \o b
<1>1. /\ v \in [1..g -> G] /\ d \in [1..g -> G] /\ \A i, j \in 1..g : v[i] # d[j]
      /\ \A i, j \in 1..g : v[i] = v[j] => i = j
      /\ \A i, j \in 1..g : d[i] = d[j] => i = j
  BY DEF Groups, OneToOne
<1>2. v \in Seq(G) /\ d \in Seq(G) /\ Len(v) = g /\ Len(d) = g /\ h \in Nat /\ g - h \in Nat
  BY <1>1
<1>3. a = [i \in 1..h |-> v[i]] /\ b = [i \in 1..(g - h) |-> d[i]]
  BY <1>2
<1>4. a \in Seq(G) /\ Len(a) = h /\ b \in Seq(G) /\ Len(b) = g - h
  BY <1>2, <1>3, <1>1
<1>5. \A i \in 1..g : c[i] = IF i <= h THEN v[i] ELSE d[i - h]
  <2> HIDE DEF a, b
  <2> SUFFICES ASSUME NEW i \in 1..g PROVE c[i] = IF i <= h THEN v[i] ELSE d[i - h]
    OBVIOUS
  <2>1. c[i] = IF i <= Len(a) THEN a[i] ELSE b[i - Len(a)]
    BY <1>2, <1>4
  <2> QED BY <1>2, <1>3, <1>4, <2>1
<1>6. c \in Seq(G) /\ Len(c) = g
  <2> HIDE DEF a, b
  <2>1. a \o b \in Seq(G) /\ Len(a \o b) = Len(a) + Len(b)
    BY <1>4, ConcatIs
  <2> QED BY <1>2, <1>4, <2>1
<1> HIDE DEF a, b, c
<1>7. c \in [1..g -> G]
  BY <1>6
<1>8. ASSUME NEW i \in 1..g, NEW j \in 1..g, c[i] = c[j] PROVE i = j
  <2>1. CASE i <= h /\ j <= h
    BY <1>1, <1>5, <1>8, <2>1
  <2>2. CASE ~(i <= h) /\ ~(j <= h)
    <3>1. i - h \in 1..g /\ j - h \in 1..g /\ d[i - h] = d[j - h]
      BY <1>5, <1>8, <2>2
    <3>2. i - h = j - h
      BY <1>1, <3>1
    <3> QED BY <3>2
  <2>3. CASE i <= h /\ ~(j <= h)
    <3>1. j - h \in 1..g /\ v[i] = d[j - h]
      BY <1>5, <1>8, <2>3
    <3> QED BY <1>1, <3>1
  <2>4. CASE ~(i <= h) /\ j <= h
    <3>1. i - h \in 1..g /\ v[j] = d[i - h]
      BY <1>5, <1>8, <2>4
    <3> QED BY <1>1, <3>1
  <2> QED BY <2>1, <2>2, <2>3, <2>4
<1>9. OneToOne(c, g, G)
  BY <1>7, <1>8 DEF OneToOne
<1> DEFINE First(s, k) == {s[i] : i \in 1..k}
<1>10. ASSUME NEW s, NEW k \in Nat, k <= g, s \in [1..g -> G], \A i, j \in 1..g : s[i] = s[j] => i = j
       PROVE  IsFiniteSet(First(s, k)) /\ Cardinality(First(s, k)) = k
  <2> DEFINE S == {s[i] : i \in 1..k}
             f == [i \in 1..k |-> s[i]]
  <2>0. \A i \in 1..k : i \in 1..g
    BY <1>10
  <2>1. f \in Bijection(1..k, S)
    <3>1. f \in [1..k -> S]
      OBVIOUS
    <3>2. \A i, j \in 1..k : f[i] = f[j] => i = j
      BY <1>10, <2>0
    <3>3. \A z \in S : \E i \in 1..k : f[i] = z
      OBVIOUS
    <3> HIDE DEF f, S
    <3> QED BY <3>1, <3>2, <3>3 DEF Bijection, Injection, Surjection, IsInjective
  <2> HIDE DEF f, S
  <2>2. ExistsBijection(1..k, S)
    BY <2>1 DEF ExistsBijection
  <2>3. IsFiniteSet(1..k) /\ Cardinality(1..k) = k
    BY FS_Interval
  <2>4. IsFiniteSet(S) /\ Cardinality(S) = k
    BY <2>2, <2>3, FS_Bijection
  <2> QED BY <2>4 DEF S
<1>11. Range(v) = First(v, g) /\ Range(c) = First(c, g)
  BY <1>1, <1>7 DEF Range
<1>12. IsFiniteSet(Range(v)) /\ Cardinality(Range(v)) = g
  <2> HIDE DEF First
  <2> QED BY <1>1, <1>10, <1>11
<1>13. IsFiniteSet(Range(c)) /\ Cardinality(Range(c)) = g
  <2> HIDE DEF First
  <2> QED BY <1>7, <1>8, <1>10, <1>11
<1>14. Range(v) \cap Range(c) = {v[i] : i \in 1..h}
  <2>1. ASSUME NEW z \in Range(v) \cap Range(c) PROVE z \in {v[i] : i \in 1..h}
    <3>1. PICK i \in 1..g : z = v[i]
      BY <1>11, <2>1
    <3>2. PICK j \in 1..g : z = c[j]
      BY <1>11, <2>1
    <3>3. j <= h
      <4> SUFFICES ASSUME ~(j <= h) PROVE FALSE
        OBVIOUS
      <4>1. j - h \in 1..g /\ c[j] = d[j - h]
        BY <1>2, <1>5
      <4> QED BY <1>1, <3>1, <3>2, <4>1
    <3> QED BY <1>2, <1>5, <3>2, <3>3
  <2>2. ASSUME NEW i \in 1..h PROVE v[i] \in Range(v) \cap Range(c)
    <3>1. i \in 1..g /\ i <= h
      BY <1>2
    <3>2. c[i] = v[i]
      BY <1>5, <3>1
    <3> QED BY <1>11, <3>1, <3>2
  <2> QED BY <2>1, <2>2
<1>15. Cardinality(Range(v) \cap Range(c)) = h
  <2>1. h \in Nat /\ h <= g
    BY <1>2
  <2>2. Cardinality(First(v, h)) = h
    <3> HIDE DEF First
    <3> QED BY <1>1, <1>10, <2>1
  <2> QED BY <1>14, <2>2
<1>16. Cardinality(Range(v) \cup Range(c)) = 2 * g - h
  <2>1. Cardinality(Range(v) \cup Range(c)) = Cardinality(Range(v)) + Cardinality(Range(c)) - Cardinality(Range(v) \cap Range(c))
    BY <1>12, <1>13, FS_Union
  <2> QED BY <1>2, <1>12, <1>13, <1>15, <2>1
<1>17. Shares(v, c, g, h, G)
  <2> HIDE DEF c
  <2> QED BY <1>6, <1>9, <1>12, <1>13, <1>15, <1>16 DEF Shares
<1> QED BY <1>17 DEF c, a, b, Mixed

-----------------------------------------------------------------------------
(* Chains.                                                                 *)

\* The lines that are visited from a root on.
Walk(next, root) == CHOOSE line : line = [k \in Nat |-> IF k = 0 THEN root ELSE next[line[k - 1]]]

\* Every line leads to the next.
LEMMA WalkIs ==
  ASSUME NEW X, NEW next, \A a \in X : next[a] \in X, NEW root \in X
  PROVE  /\ Walk(next, root)[0] = root
         /\ \A k \in Nat : Walk(next, root)[k + 1] = next[Walk(next, root)[k]]
<1> DEFINE g == [x \in Nat \X X |-> next[x[2]]]
           Eq(f) == f = [k \in Nat |-> IF k = 0 THEN root ELSE next[f[k - 1]]]
<1>1. g \in [Nat \X X -> X]
  OBVIOUS
<1>2. Start(X, root, g)
  <2> HIDE DEF g
  <2> QED BY <1>1 DEF Start
<1>3. PICK h : Defined(X, root, g, h)
  <2> HIDE DEF g
  <2> QED BY <1>2, Recursion
<1>4. h \in [Nat -> X] /\ h[0] = root /\ \A k \in Nat \ {0} : h[k] = g[<<k, h[k - 1]>>]
  <2> HIDE DEF g
  <2> QED BY <1>3 DEF Defined
<1>5. \A k \in Nat \ {0} : h[k] = next[h[k - 1]]
  <2> TAKE k \in Nat \ {0}
  <2>1. <<k, h[k - 1]>> \in Nat \X X
    BY <1>4
  <2>2. g[<<k, h[k - 1]>>] = next[h[k - 1]]
    BY <2>1
  <2> HIDE DEF g
  <2> QED BY <1>4, <2>2
<1>6. Eq(h)
  <2> HIDE DEF g
  <2> QED BY <1>4, <1>5
<1>7. Eq(Walk(next, root))
  <2>1. Walk(next, root) = CHOOSE f : Eq(f)
    BY DEF Walk
  <2> HIDE DEF Eq
  <2> QED BY <1>6, <2>1, Zenon
<1> DEFINE w == Walk(next, root)
<1>8. w = [k \in Nat |-> IF k = 0 THEN root ELSE next[w[k - 1]]]
  BY <1>7
<1> HIDE DEF w
<1>9. w[0] = root
  BY <1>8
<1>10. ASSUME NEW k \in Nat PROVE w[k + 1] = next[w[k]]
  <2>1. k + 1 \in Nat /\ k + 1 # 0 /\ (k + 1) - 1 = k
    OBVIOUS
  <2> QED BY <1>8, <2>1
<1> QED BY <1>9, <1>10 DEF w

\* Among n lines in S streams, the place that follows place i; the places of
\* stream s.
Follower(i, n, S) == IF i + S <= n THEN i + S ELSE ((i - 1) % S) + 1
Stream(n, S, s) == {i \in 1..n : (i - 1) % S = s - 1}

\* The lines of the sequence L are linked in S streams.
Threaded(next, L, n, S) == \A i \in 1..n : next[L[i]] = L[Follower(i, n, S)]

\* Remainders, a stream further.
LEMMA NextRow ==
  ASSUME NEW i \in Nat, NEW S \in Nat \ {0}
  PROVE  /\ (i + S) % S = i % S
         /\ i \in 0..(S - 1) => i % S = i
<1>1. /\ i % S \in 0..(S - 1) /\ i = (i \div S) * S + (i % S) /\ i \div S \in Int
  BY DivModDef
<1>2. i + S = ((i \div S) + 1) * S + (i % S)
  BY <1>1
<1>3. (i + S) % S = i % S
  <2> DEFINE a == i + S
             q == (i \div S) + 1
             r == i % S
  <2>1. a \in Int /\ q \in Int /\ r \in 0..(S - 1) /\ a = q * S + r
    BY <1>1, <1>2
  <2> HIDE DEF a, q, r
  <2>2. a % S = r
    BY <2>1, DivModIs
  <2> QED BY <2>2 DEF a, r
<1>4. ASSUME i \in 0..(S - 1) PROVE i % S = i
  <2>1. i = 0 * S + i
    BY <1>4
  <2> QED BY <1>4, <2>1, DivModIs
<1> QED BY <1>3, <1>4

\* A follower is in the same stream.
LEMMA FollowerIs ==
  ASSUME NEW n \in Nat \ {0}, NEW S \in Nat \ {0}, S <= n, NEW s \in 1..S, NEW i \in Stream(n, S, s)
  PROVE  /\ Follower(i, n, S) \in Stream(n, S, s)
         /\ i + S > n => Follower(i, n, S) = s
<1>1. i \in 1..n /\ i - 1 \in Nat /\ (i - 1) % S = s - 1 /\ s - 1 \in 0..(S - 1) /\ s - 1 \in Nat
  BY DEF Stream
<1>2. CASE i + S <= n
  <2>1. Follower(i, n, S) = i + S /\ i + S \in 1..n /\ (i + S) - 1 = (i - 1) + S
    BY <1>1, <1>2 DEF Follower
  <2>2. ((i - 1) + S) % S = (i - 1) % S
    BY <1>1, NextRow
  <2>3. ((i + S) - 1) % S = s - 1
    BY <1>1, <2>1, <2>2
  <2> QED BY <1>1, <1>2, <2>1, <2>3 DEF Stream
<1>3. CASE ~(i + S <= n)
  <2>1. Follower(i, n, S) = s
    BY <1>1, <1>3 DEF Follower
  <2>2. (s - 1) % S = s - 1
    BY <1>1, NextRow
  <2>3. s \in 1..n
    OBVIOUS
  <2> QED BY <2>1, <2>2, <2>3 DEF Stream
<1> QED BY <1>2, <1>3

\* What a walk goes through.
Walks(w, L, next, s) == w[0] = L[s] /\ \A k \in Nat : w[k + 1] = next[w[k]]

\* It is a cycle of a stream.
Circles(w, L, next, n, S, s) ==
    /\ {w[k] : k \in 0..n} = {L[i] : i \in Stream(n, S, s)}
    /\ \E i \in Stream(n, S, s) : next[L[i]] = L[s]

\* A walk of n steps goes through its whole stream, and no other, and comes
\* back to the root.
LEMMA StreamIs ==
  ASSUME NEW n \in Nat \ {0}, NEW S \in Nat \ {0}, S <= n, NEW L, NEW next, Threaded(next, L, n, S),
         NEW s \in 1..S, NEW w, Walks(w, L, next, s)
  PROVE  Circles(w, L, next, n, S, s)
<1>0. s \in Stream(n, S, s)
  <2>1. s - 1 \in Nat /\ s - 1 \in 0..(S - 1) /\ s \in 1..n
    OBVIOUS
  <2>2. (s - 1) % S = s - 1
    BY <2>1, NextRow
  <2> QED BY <2>1, <2>2 DEF Stream
<1>w. w[0] = L[s] /\ \A k \in Nat : w[k + 1] = next[w[k]]
  BY DEF Walks
<1>n. ASSUME NEW i \in Stream(n, S, s) PROVE next[L[i]] = L[Follower(i, n, S)]
  BY DEF Threaded, Stream
<1> DEFINE In == {k \in Nat : w[k] \in {L[i] : i \in Stream(n, S, s)}}
           On == {k \in Nat : s + k * S <= n => w[k] = L[s + k * S]}
<1>1. Nat \subseteq In
  <2>1. 0 \in In
    BY <1>0, <1>w
  <2>2. ASSUME NEW k \in Nat, k \in In PROVE k + 1 \in In
    <3>1. PICK i \in Stream(n, S, s) : w[k] = L[i]
      BY <2>2
    <3>2. w[k + 1] = L[Follower(i, n, S)] /\ Follower(i, n, S) \in Stream(n, S, s)
      BY <1>w, <1>n, <3>1, FollowerIs
    <3> QED BY <3>2
  <2> HIDE DEF In
  <2> QED BY <2>1, <2>2, Induction
<1>r. ASSUME NEW k \in Nat, s + k * S <= n PROVE s + k * S \in Stream(n, S, s)
  <2>1. k * S \in Nat
    OBVIOUS
  <2>2. s + k * S \in 1..n /\ (s + k * S) - 1 = k * S + (s - 1) /\ s - 1 \in 0..(S - 1) /\ (s + k * S) - 1 \in Int
    BY <1>r, <2>1
  <2>3. ((s + k * S) - 1) % S = s - 1
    <3> DEFINE a == (s + k * S) - 1
               r == s - 1
    <3>1. a \in Int /\ k \in Int /\ r \in 0..(S - 1) /\ a = k * S + r
      BY <2>2
    <3> HIDE DEF a, r
    <3>2. a % S = r
      BY <3>1, DivModIs
    <3> QED BY <3>2 DEF a, r
  <2> QED BY <2>2, <2>3 DEF Stream
<1>2. Nat \subseteq On
  <2>1. 0 \in On
    BY <1>w
  <2>2. ASSUME NEW k \in Nat, k \in On PROVE k + 1 \in On
    <3> DEFINE m == k * S
    <3>1. m \in Nat /\ (k + 1) * S = m + S
      OBVIOUS
    <3> SUFFICES ASSUME s + (k + 1) * S <= n PROVE w[k + 1] = L[s + (k + 1) * S]
      BY <3>1
    <3>2. s + m <= n /\ (s + m) + S <= n
      BY <3>1
    <3>3. w[k] = L[s + m] /\ s + m \in Stream(n, S, s)
      BY <2>2, <3>2, <1>r
    <3> HIDE DEF m
    <3>4. Follower(s + m, n, S) = (s + m) + S
      BY <3>2 DEF Follower
    <3>5. w[k + 1] = L[(s + m) + S]
      BY <1>w, <1>n, <3>3, <3>4
    <3>6. (s + m) + S = s + (k + 1) * S
      BY <3>1
    <3> QED BY <3>5, <3>6
  <2> HIDE DEF On
  <2> QED BY <2>1, <2>2, Induction
<1>3. ASSUME NEW i \in Stream(n, S, s) PROVE \E k \in 0..n : w[k] = L[i]
  <2> DEFINE k == (i - 1) \div S
  <2>1. i \in 1..n /\ i - 1 \in Nat /\ (i - 1) % S = s - 1
    BY DEF Stream
  <2>2. k \in Nat /\ i - 1 = k * S + (s - 1)
    <3>1. k \in Int /\ i - 1 = k * S + ((i - 1) % S)
      BY <2>1, DivModDef
    <3>2. k \in Nat
      BY <2>1, DivNat
    <3> QED BY <2>1, <3>1, <3>2
  <2> HIDE DEF k
  <2>3. k * S \in Nat /\ k <= k * S
    BY <2>2
  <2>4. i = s + k * S /\ k \in 0..n
    BY <2>1, <2>2, <2>3
  <2>5. w[k] = L[i]
    BY <1>2, <2>1, <2>2, <2>4
  <2> QED BY <2>4, <2>5
<1>4. {w[k] : k \in 0..n} = {L[i] : i \in Stream(n, S, s)}
  <2>1. \A k \in 0..n : w[k] \in {L[i] : i \in Stream(n, S, s)}
    BY <1>1
  <2> QED BY <1>3, <2>1
<1>5. \E i \in Stream(n, S, s) : next[L[i]] = L[s]
  <2> DEFINE q == (n - s) \div S
  <2>1. n - s \in Nat
    OBVIOUS
  <2>2. q \in Nat /\ (n - s) % S \in 0..(S - 1) /\ n - s = q * S + ((n - s) % S)
    <3>1. n - s \in Int /\ S \in Nat \ {0}
      OBVIOUS
    <3>2. (n - s) % S \in 0..(S - 1) /\ n - s = q * S + ((n - s) % S)
      BY <3>1, DivModDef
    <3>3. q \in Nat
      BY <2>1, <3>1, DivNat
    <3> QED BY <3>2, <3>3
  <2> HIDE DEF q
  <2>3. q * S \in Nat
    BY <2>2
  <2>4. s + q * S <= n /\ (s + q * S) + S > n
    BY <2>2, <2>3
  <2>5. s + q * S \in Stream(n, S, s)
    BY <1>r, <2>2, <2>4
  <2>6. Follower(s + q * S, n, S) = s
    BY <2>4, <2>5, FollowerIs
  <2> QED BY <1>n, <2>5, <2>6
<1> QED BY <1>4, <1>5 DEF Circles

\* The lines in the order of the chain, and what the chains put in them.
LEMMA ChainIs ==
  ASSUME NEW n \in Nat \ {0}, NEW T, NEW lines, OneToOne(lines, n, T), Len(lines) = n, NEW p, Permutes(p, n)
  PROVE  LET L == Arranged(lines, p, n)
         IN  /\ OneToOne(L, n, T) /\ Range(lines) = {L[i] : i \in 1..n}
             /\ Threaded(build_single_chain(lines, p), L, n, 1)
             /\ \A S \in Nat \ {0} : S <= n => Threaded(build_multi_chain(lines, p, S), L, n, S)
<1> DEFINE L == Arranged(lines, p, n)
           P(k) == CHOOSE i \in 1..n : lines[p[i]] = k
<1>1. /\ lines \in [1..n -> T] /\ \A i, j \in 1..n : lines[i] = lines[j] => i = j
  BY DEF OneToOne
<1>2. p \in [1..n -> 1..n] /\ (\A i, j \in 1..n : p[i] = p[j] => i = j) /\ \A i \in 1..n : \E j \in 1..n : p[j] = i
  BY DEF Permutes
<1>3. DOMAIN L = 1..n /\ \A i \in 1..n : L[i] = lines[p[i]] /\ p[i] \in 1..n
  BY <1>2 DEF Arranged
<1>4. OneToOne(L, n, T)
  <2>1. L \in [1..n -> T]
    BY <1>1, <1>2 DEF Arranged
  <2> HIDE DEF L
  <2>2. ASSUME NEW i \in 1..n, NEW j \in 1..n, L[i] = L[j] PROVE i = j
    <3>1. lines[p[i]] = lines[p[j]] /\ p[i] \in 1..n /\ p[j] \in 1..n
      BY <1>3, <2>2
    <3>2. p[i] = p[j]
      BY <1>1, <3>1
    <3> QED BY <1>2, <3>2
  <2> QED BY <2>1, <2>2 DEF OneToOne
<1>5. Range(lines) = {L[i] : i \in 1..n}
  <2> HIDE DEF L
  <2>1. Range(lines) = {lines[i] : i \in 1..n}
    BY <1>1 DEF Range
  <2>2. \A i \in 1..n : \E j \in 1..n : lines[i] = L[j]
    BY <1>2, <1>3
  <2>3. \A j \in 1..n : \E i \in 1..n : lines[i] = L[j]
    BY <1>3
  <2>4. ASSUME NEW x \in Range(lines) PROVE \E j \in 1..n : x = L[j]
    <3>1. PICK i \in 1..n : x = lines[i]
      BY <2>1
    <3> QED BY <2>2, <3>1
  <2>5. ASSUME NEW j \in 1..n PROVE L[j] \in Range(lines)
    BY <2>1, <2>3
  <2> QED BY <2>4, <2>5
<1>6. ASSUME NEW i \in 1..n PROVE L[i] \in Range(lines) /\ P(L[i]) = i
  <2> HIDE DEF L
  <2>1. L[i] \in Range(lines)
    BY <1>5
  <2>2. ASSUME NEW j \in 1..n PROVE lines[p[j]] = L[i] <=> j = i
    <3>1. L[j] = lines[p[j]]
      BY <1>3
    <3> QED BY <1>4, <3>1 DEF OneToOne
  <2> QED BY <2>1, <2>2
<1>7. Threaded(build_single_chain(lines, p), L, n, 1)
  <2> SUFFICES ASSUME NEW i \in 1..n PROVE build_single_chain(lines, p)[L[i]] = L[Follower(i, n, 1)]
    BY DEF Threaded
  <2>1. build_single_chain(lines, p)[L[i]] = lines[p[(P(L[i]) % n) + 1]]
    <3> HIDE DEF L
    <3> QED BY <1>6 DEF build_single_chain
  <2>2. build_single_chain(lines, p)[L[i]] = lines[p[(i % n) + 1]]
    <3> HIDE DEF L, P
    <3> QED BY <1>6, <2>1
  <2>3. (i % n) + 1 = Follower(i, n, 1) /\ (i % n) + 1 \in 1..n
    <3>1. (i - 1) % 1 = 0
      OBVIOUS
    <3>2. CASE i = n
      <4>1. n % n = 0
        <5>1. 0 \in Nat /\ n \in Nat \ {0} /\ 0 + n = n /\ 0 \in 0..(n - 1)
          OBVIOUS
        <5>2. (0 + n) % n = 0 % n /\ 0 % n = 0
          BY <5>1, NextRow
        <5> QED BY <5>1, <5>2
      <4> QED BY <3>1, <3>2, <4>1 DEF Follower
    <3>3. CASE i # n
      <4>1. i \in Nat /\ i \in 0..(n - 1)
        BY <3>3
      <4>2. i % n = i
        BY <4>1, NextRow
      <4> QED BY <3>3, <4>2 DEF Follower
    <3> QED BY <3>2, <3>3
  <2> HIDE DEF L
  <2> QED BY <1>3, <2>2, <2>3
<1>8. ASSUME NEW S \in Nat \ {0}, S <= n PROVE Threaded(build_multi_chain(lines, p, S), L, n, S)
  <2> SUFFICES ASSUME NEW i \in 1..n PROVE build_multi_chain(lines, p, S)[L[i]] = L[Follower(i, n, S)]
    BY DEF Threaded
  <2> DEFINE Q(k) == CHOOSE j \in 1..Len(lines) : lines[p[j]] = k
             G(k) == lines[p[IF Q(k) + S <= Len(lines) THEN Q(k) + S ELSE ((Q(k) - 1) % S) + 1]]
  <2>1. build_multi_chain(lines, p, S) = [k \in Range(lines) |-> G(k)]
    BY Zenon DEF build_multi_chain
  <2>2. build_multi_chain(lines, p, S)[L[i]] = lines[p[Follower(i, n, S)]]
    <3>1. Q(L[i]) = i
      <4> HIDE DEF L
      <4> QED BY <1>6
    <3> HIDE DEF L, Q
    <3>2. G(L[i]) = lines[p[Follower(i, n, S)]]
      BY <3>1 DEF Follower
    <3> HIDE DEF G
    <3> QED BY <1>6, <2>1, <3>2
  <2>3. Follower(i, n, S) \in 1..n
    <3>1. i - 1 \in Int
      OBVIOUS
    <3>2. (i - 1) % S \in 0..(S - 1)
      BY <3>1, DivModDef
    <3> QED BY <1>8, <3>2 DEF Follower
  <2> HIDE DEF L
  <2> QED BY <1>3, <2>2, <2>3
<1> HIDE DEF L
<1>9. L = Arranged(lines, p, n)
  BY DEF L
<1> QED BY <1>4, <1>5, <1>7, <1>8, <1>9

\* From the roots, walks cover the lines: each line is on one of them, and
\* each walk is a cycle.
Divides(cycle, next, roots, lines) ==
    /\ UNION Range(cycle) = Range(lines)
    /\ \A s, t \in DOMAIN cycle : s # t => cycle[s] \cap cycle[t] = {}
    /\ \A s \in DOMAIN cycle : \E a \in cycle[s] : next[a] = roots[s]
Covers(next, roots, lines) ==
    Divides([s \in DOMAIN roots |-> {Walk(next, roots[s])[k] : k \in 0..Len(lines)}], next, roots, lines)

\* So they do when the lines are linked in streams.
LEMMA ThreadsCover ==
  ASSUME NEW n \in Nat \ {0}, NEW S \in Nat \ {0}, S <= n, NEW T, NEW L, OneToOne(L, n, T),
         NEW lines, Len(lines) = n, Range(lines) = {L[i] : i \in 1..n}, NEW next, Threaded(next, L, n, S),
         NEW roots, DOMAIN roots = 1..S, \A s \in 1..S : roots[s] = L[s]
  PROVE  Covers(next, roots, lines)
<1> DEFINE W(s) == Walk(next, roots[s])
           cycle == [s \in DOMAIN roots |-> {W(s)[k] : k \in 0..Len(lines)}]
           X == {L[i] : i \in 1..n}
<1>0. \A i, j \in 1..n : L[i] = L[j] => i = j
  BY DEF OneToOne
<1>1. ASSUME NEW i \in 1..n PROVE (i - 1) % S \in 0..(S - 1) /\ ((i - 1) % S) + 1 \in 1..S /\ i \in Stream(n, S, ((i - 1) % S) + 1)
                                 /\ Follower(i, n, S) \in 1..n
  <2>0. i - 1 \in Int
    OBVIOUS
  <2>1. (i - 1) % S \in 0..(S - 1)
    BY <2>0, DivModDef
  <2> QED BY <2>1 DEF Stream, Follower
<1>2. \A a \in X : next[a] \in X
  <2> SUFFICES ASSUME NEW i \in 1..n PROVE next[L[i]] \in X
    OBVIOUS
  <2>1. next[L[i]] = L[Follower(i, n, S)] /\ Follower(i, n, S) \in 1..n
    BY <1>1 DEF Threaded
  <2> QED BY <2>1
<1>3. ASSUME NEW s \in 1..S
      PROVE  /\ {W(s)[k] : k \in 0..n} = {L[i] : i \in Stream(n, S, s)}
             /\ \E i \in Stream(n, S, s) : next[L[i]] = L[s]
  <2>1. roots[s] = L[s] /\ L[s] \in X
    OBVIOUS
  <2>2. W(s)[0] = L[s] /\ \A k \in Nat : W(s)[k + 1] = next[W(s)[k]]
    <3>1. PICK b \in X : b = L[s]
      BY <2>1
    <3>2. W(s) = Walk(next, b)
      BY <2>1, <3>1
    <3> HIDE DEF X, W
    <3>3. Walk(next, b)[0] = b /\ \A k \in Nat : Walk(next, b)[k + 1] = next[Walk(next, b)[k]]
      BY <1>2, WalkIs
    <3> QED BY <3>1, <3>2, <3>3
  <2>3. PICK w \in {W(s)} : TRUE
    OBVIOUS
  <2>4. Walks(w, L, next, s) /\ w = W(s)
    BY <2>2, <2>3 DEF Walks
  <2>5. /\ {w[k] : k \in 0..n} = {L[i] : i \in Stream(n, S, s)}
        /\ \E i \in Stream(n, S, s) : next[L[i]] = L[s]
    <3>1. Circles(w, L, next, n, S, s)
      BY <2>4, StreamIs
    <3> QED BY <3>1 DEF Circles
  <2> HIDE DEF W
  <2> QED BY <2>4, <2>5
<1>4. DOMAIN cycle = 1..S /\ \A s \in 1..S : cycle[s] = {L[i] : i \in Stream(n, S, s)}
  <2> HIDE DEF W
  <2> QED BY <1>3
<1> HIDE DEF cycle
<1>5. UNION Range(cycle) = Range(lines)
  <2>1. \A x : x \in UNION Range(cycle) <=> \E s \in 1..S : x \in cycle[s]
    BY <1>4 DEF Range
  <2>2. \A x : (\E s \in 1..S : x \in cycle[s]) <=> x \in X
    <3>1. ASSUME NEW s \in 1..S, NEW x \in cycle[s] PROVE x \in X
      BY <1>4 DEF Stream
    <3>2. ASSUME NEW x \in X PROVE \E s \in 1..S : x \in cycle[s]
      <4>1. PICK i \in 1..n : x = L[i]
        OBVIOUS
      <4> QED BY <1>1, <1>4, <4>1
    <3> QED BY <3>1, <3>2
  <2> HIDE DEF X
  <2>3. Range(lines) = X
    BY DEF X
  <2> QED BY <2>1, <2>2, <2>3
<1>6. ASSUME NEW s \in DOMAIN cycle, NEW t \in DOMAIN cycle, s # t PROVE cycle[s] \cap cycle[t] = {}
  <2> SUFFICES ASSUME NEW x \in cycle[s], x \in cycle[t] PROVE FALSE
    OBVIOUS
  <2>1. PICK i \in Stream(n, S, s) : x = L[i]
    BY <1>4
  <2>2. PICK j \in Stream(n, S, t) : x = L[j]
    BY <1>4
  <2>3. i = j
    BY <1>0, <2>1, <2>2 DEF Stream
  <2>4. s - 1 = t - 1 /\ s \in 1..S /\ t \in 1..S
    BY <1>4, <2>3 DEF Stream
  <2> QED BY <1>6, <2>4
<1>7. ASSUME NEW s \in DOMAIN cycle PROVE \E a \in cycle[s] : next[a] = roots[s]
  BY <1>3, <1>4
<1>8. cycle = [s \in DOMAIN roots |-> {Walk(next, roots[s])[k] : k \in 0..Len(lines)}]
  BY DEF cycle
<1>9. Divides(cycle, next, roots, lines)
  BY <1>5, <1>6, <1>7 DEF Divides
<1> QED BY <1>8, <1>9, Zenon DEF Covers

-----------------------------------------------------------------------------
(* The worker's blocks.                                                    *)

\* The lowest bit of the masks.
MinBit(ms) == Min(UNION Range(ms))

\* No mask has a lower one.
LEMMA MinBitIs ==
  ASSUME NEW ms \in MaskSets
  PROVE  /\ MinBit(ms) \in Int
         /\ \A i \in 1..Len(ms) : \A b \in ms[i] : b \in Int /\ MinBit(ms) <= b
<1> DEFINE U == UNION Range(ms)
           T == {x \in Nat : x - 6 \in U}
<1>1. ms \in Seq(SUBSET Int) /\ U # {} /\ \A b \in U : b >= -6
  BY OracleSetupAssumption, MasksAssumption
<1>2. Range(ms) = {ms[i] : i \in 1..Len(ms)} /\ U \subseteq Int
  BY <1>1, RangeIs
<1>3. \A i \in 1..Len(ms) : \A b \in ms[i] : b \in U
  BY <1>2
<1> HIDE DEF U
<1>4. ASSUME NEW b \in U PROVE b + 6 \in T
  BY <1>1, <1>2
<1>5. PICK x \in T : \A y \in T : x <= y
  BY <1>1, <1>4, Least
<1>6. x - 6 \in U /\ \A b \in U : x - 6 <= b
  <2>1. x \in Nat /\ x - 6 \in U
    OBVIOUS
  <2>2. ASSUME NEW b \in U PROVE x - 6 <= b
    <3>1. b \in Int /\ x <= b + 6
      BY <1>2, <1>4, <1>5
    <3> QED BY <2>1, <3>1
  <2> QED BY <2>1, <2>2
<1>7. MinBit(ms) \in U /\ \A b \in U : MinBit(ms) <= b
  <2>1. MinBit(ms) = CHOOSE z \in U : \A y \in U : z <= y
    BY DEF MinBit, Min, U
  <2> QED BY <1>6, <2>1
<1> QED BY <1>2, <1>3, <1>7

\* Powers of two, multiplied.
LEMMA Pow2Add ==
  ASSUME NEW a \in Nat, NEW b \in Nat
  PROVE  Pow2[a + b] = Pow2[a] * Pow2[b]
<1> DEFINE S == {k \in Nat : Pow2[a + k] = Pow2[a] * Pow2[k]}
<1>1. 0 \in S
  <2>1. Pow2[a] \in Nat /\ a + 0 = a
    BY Pow2Is
  <2> QED BY <2>1, Pow2Is
<1>2. ASSUME NEW k \in Nat, k \in S PROVE k + 1 \in S
  <2>1. Pow2[a + k] = Pow2[a] * Pow2[k] /\ a + (k + 1) = (a + k) + 1
    BY <1>2
  <2>2. Pow2[(a + k) + 1] = 2 * Pow2[a + k] /\ Pow2[k + 1] = 2 * Pow2[k]
    BY Pow2Is
  <2>3. Pow2[a] \in Nat /\ Pow2[k] \in Nat
    BY Pow2Is
  <2> DEFINE u == Pow2[a]
             v == Pow2[k]
  <2>4. 2 * (u * v) = u * (2 * v)
    <3> HIDE DEF u, v
    <3>1. u \in Nat /\ v \in Nat
      BY <2>3 DEF u, v
    <3> QED BY <3>1
  <2>5. Pow2[a + (k + 1)] = Pow2[a] * Pow2[k + 1]
    BY <2>1, <2>2, <2>4
  <2> QED BY <2>5
<1>3. Nat \subseteq S
  <2> HIDE DEF S
  <2> QED BY <1>1, <1>2, Induction
<1> QED BY <1>3

\* The bits from m on are those of the block of 2^m lines.
LEMMA BlockBits ==
  ASSUME NEW m \in Nat, NEW b \in Nat, NEW j \in 0..(Pow2[m] - 1), NEW x \in Nat, m <= x
  PROVE  (b * Pow2[m] + j) \div Pow2[x] = (b * Pow2[m]) \div Pow2[x]
<1> DEFINE z == Pow2[m]
           y == Pow2[x - m]
           l == b * z + j
           k == b * z
<1>1. z \in Nat \ {0} /\ y \in Nat \ {0} /\ x - m \in Nat
  BY Pow2Is
<1>2. Pow2[x] = z * y
  <2>1. m + (x - m) = x
    OBVIOUS
  <2> QED BY <1>1, <2>1, Pow2Add
<1> HIDE DEF z, y
<1>3. b * z \in Nat /\ j \in Nat /\ j \in 0..(z - 1)
  BY <1>1 DEF z
<1>4. l \in Nat /\ k \in Nat /\ l = b * z + j /\ k = b * z + 0 /\ 0 \in 0..(z - 1)
  BY <1>1, <1>3
<1> HIDE DEF l, k
<1>5. l \div z = b /\ k \div z = b
  <2>1. l \in Int /\ k \in Int /\ b \in Int
    BY <1>4
  <2> QED BY <1>1, <1>3, <1>4, <2>1, DivModIs
<1>6. l \div (z * y) = (l \div z) \div y /\ k \div (z * y) = (k \div z) \div y
  BY <1>1, <1>4, DivDiv
<1>7. l \div Pow2[x] = k \div Pow2[x]
  BY <1>2, <1>5, <1>6
<1> QED BY <1>7 DEF l, k, z

\* So the lines of a block are in the class of its first line.
SameClass(ms, page, w, b, j) ==
    BankClass(ms, page \cup Offset(b * Pow2[MinBit(ms)] + j, w)) = BankClass(ms, page \cup Offset(b * Pow2[MinBit(ms)], w))

\* That is: adding j to the first line changes no bit a mask looks at.
LEMMA BlockClass ==
  ASSUME NEW ms \in MaskSets, MinBit(ms) \in Nat, NEW page, NEW w \in Nat, NEW b \in Nat, NEW j \in 0..(Pow2[MinBit(ms)] - 1)
  PROVE  SameClass(ms, page, w, b, j)
<1> DEFINE m == MinBit(ms)
           l == b * Pow2[m] + j
           k == b * Pow2[m]
<1>1. ASSUME NEW i \in 1..Len(ms)
      PROVE  (page \cup Offset(l, w)) \cap ms[i] = (page \cup Offset(k, w)) \cap ms[i]
  <2>1. ASSUME NEW x \in ms[i] PROVE x \in Offset(l, w) <=> x \in Offset(k, w)
    <3>1. x \in Int /\ m <= x
      BY MinBitIs
    <3>2. x \in Nat
      BY <3>1
    <3>3. l \div Pow2[x] = k \div Pow2[x]
      BY <3>1, <3>2, BlockBits
    <3> HIDE DEF l, k
    <3> QED BY <3>3 DEF Offset
  <2> HIDE DEF l, k
  <2> QED BY <2>1
<1> HIDE DEF l, k
<1>2. BankClass(ms, page \cup Offset(l, w)) = BankClass(ms, page \cup Offset(k, w))
  BY <1>1 DEF BankClass
<1> QED BY <1>2 DEF l, k, m, SameClass

\* What BlocksOf looks through, and where it finds blocks of the class.
Starts(ms) == [b \in 1..(Pow2[Width] \div Pow2[MinBit(ms)]) |-> (b - 1) * Pow2[MinBit(ms)]]
Hits(page, ms, target) ==
    {b \in 1..Len(Starts(ms)) : BankClass(ms, page \cup Offset(Starts(ms)[b], Width)) = target}

\* What PickIs says of a sequence and a set of its positions.
Picks(f, s, I, n) ==
    /\ Cardinality(I) \in 0..n /\ Len(f) = Cardinality(I) /\ DOMAIN f = 1..Cardinality(I)
    /\ \A k \in 1..Cardinality(I) : f[k] = s[Nth(I, k)]
\* Pick does that.
LEMMA PicksIs ==
  \A n \in Nat : \A I \in SUBSET (1..n) : \A s : Picks(Pick(s, I), s, I, n)
<1>1. ASSUME NEW n \in Nat, NEW I \in SUBSET (1..n), NEW s PROVE Picks(Pick(s, I), s, I, n)
  <2>1. I \subseteq 1..n
    OBVIOUS
  <2>2. Cardinality(I) \in 0..n /\ Len(Pick(s, I)) = Cardinality(I)
    BY <2>1, PickIs
  <2>3. Pick(s, I) = [k \in 1..Cardinality(I) |-> s[Nth(I, k)]]
    BY DEF Pick
  <2> QED BY <2>2, <2>3 DEF Picks
<1> QED BY <1>1, Zenon

\* The worker's operators, in the terms of OracleClasses.
LEMMA WorkerOps ==
  /\ \A ms : Worker!find_minimum_mask_bit(ms) = MinBit(ms)
  /\ \A ms, l : Worker!GranularityRefused(ms, Width, l)
                  <=> (MinBit(ms) < 0 \/ MinBit(ms) > Width \/ l % Pow2[MinBit(ms)] # 0)
  /\ \A page, ms, target, wanted :
        Worker!BlocksOf(page, ms, Width, target, wanted)
          = LET f == Pick(Starts(ms), Hits(page, ms, target)) IN SubSeq(f, 1, Min({wanted, Len(f)}))
  /\ \A p, blocks, ms :
        Worker!LinesOf(p, blocks, ms)
          = [i \in 1..Len(blocks) * Pow2[MinBit(ms)] |->
                <<p, blocks[Row(i, Pow2[MinBit(ms)])] + ((i - 1) % Pow2[MinBit(ms)])>>]
  /\ \A n, keep : Worker!release_unselected_pages(n, keep) = (1..n) \ keep
  /\ \A lines : Worker!shuffle_lines(lines) = shuffle(lines, 1)
<1>0. Worker!Pow2 = Pow2
  BY Zenon DEF Worker!Pow2, Pow2
<1>1. \A ms : Worker!find_minimum_mask_bit(ms) = MinBit(ms)
  BY Zenon DEF Worker!find_minimum_mask_bit, Worker!Min, Worker!Range, MinBit, Min, Range
<1>2. \A ms, l : Worker!GranularityRefused(ms, Width, l)
                   <=> (MinBit(ms) < 0 \/ MinBit(ms) > Width \/ l % Pow2[MinBit(ms)] # 0)
  BY <1>0, <1>1, Zenon DEF Worker!GranularityRefused
<1>3. ASSUME NEW page, NEW ms, NEW target, NEW wanted
      PROVE  Worker!BlocksOf(page, ms, Width, target, wanted)
               = LET f == Pick(Starts(ms), Hits(page, ms, target)) IN SubSeq(f, 1, Min({wanted, Len(f)}))
  <2>1. \A s, I : Worker!Pick(s, I) = Pick(s, I)
    BY Zenon DEF Worker!Pick, Pick, Worker!Nth, Nth, Worker!Cardinality, Cardinality
  <2>2. \A m, pa : Worker!BankClass(m, pa) = BankClass(m, pa)
    BY Zenon DEF Worker!BankClass, BankClass, Worker!parity64, parity64, Worker!Cardinality, Cardinality
  <2>3. \A l, w : Worker!Offset(l, w) = Offset(l, w)
    BY <1>0, Zenon DEF Worker!Offset, Offset
  <2>4. \A a : Worker!Min(a) = Min(a)
    BY Zenon DEF Worker!Min, Min
  <2>5. Starts(ms) = [b \in 1..(Worker!Pow2[Width] \div Worker!Pow2[Worker!find_minimum_mask_bit(ms)])
                        |-> (b - 1) * Worker!Pow2[Worker!find_minimum_mask_bit(ms)]]
    BY <1>0, <1>1, Zenon DEF Starts
  <2>6. Hits(page, ms, target)
          = {b \in 1..Len(Starts(ms)) : Worker!BankClass(ms, page \cup Worker!Offset(Starts(ms)[b], Width)) = target}
    BY <2>2, <2>3, Zenon DEF Hits
  <2> DEFINE st == [b \in 1..(Worker!Pow2[Width] \div Worker!Pow2[Worker!find_minimum_mask_bit(ms)])
                        |-> (b - 1) * Worker!Pow2[Worker!find_minimum_mask_bit(ms)]]
             hi == {b \in 1..Len(st) : Worker!BankClass(ms, page \cup Worker!Offset(st[b], Width)) = target}
             f == Worker!Pick(st, hi)
  <2>7. Worker!BlocksOf(page, ms, Width, target, wanted) = SubSeq(f, 1, Worker!Min({wanted, Len(f)}))
    BY Zenon DEF Worker!BlocksOf, Worker!Matching
  <2>8. f = Pick(Starts(ms), Hits(page, ms, target))
    <3>1. st = Starts(ms) /\ hi = Hits(page, ms, target)
      BY <2>5, <2>6
    <3> HIDE DEF st, hi
    <3> QED BY <2>1, <3>1
  <2> HIDE DEF f
  <2> QED BY <2>4, <2>7, <2>8
<1>4. \A p, blocks, ms :
        Worker!LinesOf(p, blocks, ms)
          = [i \in 1..Len(blocks) * Pow2[MinBit(ms)] |->
                <<p, blocks[Row(i, Pow2[MinBit(ms)])] + ((i - 1) % Pow2[MinBit(ms)])>>]
  BY <1>0, <1>1, Zenon DEF Worker!LinesOf, Row
<1>5. \A n, keep : Worker!release_unselected_pages(n, keep) = (1..n) \ keep
  BY DEF Worker!release_unselected_pages
<1>6. \A lines : Worker!shuffle_lines(lines) = shuffle(lines, 1)
  BY Zenon DEF Worker!shuffle_lines, Worker!shuffle, shuffle, Worker!rng_next, rng_next
<1> QED BY <1>1, <1>2, <1>3, <1>4, <1>5, <1>6

\* The lines of page p that are of the class, and a sequence of some of them.
ClassLines(p, page, ms, target) ==
    {<<p, l>> : l \in {k \in 0..(Pow2[Width] - 1) : BankClass(ms, page \cup Offset(k, Width)) = target}}
Found(blocks, lines, wanted, ms, C) ==
    LET n == Len(blocks) * Pow2[MinBit(ms)]
    IN  /\ Len(blocks) \in 0..wanted /\ n \in Nat /\ Len(lines) = n /\ OneToOne(lines, n, C)
        /\ (n = 0 <=> blocks = <<>>)

\* The worker selects such lines, and no line twice.
LEMMA ScannedLines ==
  ASSUME NEW ms \in MaskSets, MinBit(ms) \in 0..Width, NEW page, NEW target, NEW wanted \in Nat, NEW p
  PROVE  LET B == Worker!BlocksOf(page, ms, Width, target, wanted)
         IN  Found(B, Worker!LinesOf(p, B, ms), wanted, ms, ClassLines(p, page, ms, target))
<1> DEFINE m == MinBit(ms)
           z == Pow2[m]
           N == Pow2[Width - m]
           st == Starts(ms)
           I == Hits(page, ms, target)
           f == Pick(st, I)
           B == Worker!BlocksOf(page, ms, Width, target, wanted)
           s == Worker!LinesOf(p, B, ms)
           C == ClassLines(p, page, ms, target)
<1>0. Width \in Nat /\ m \in Nat /\ Width - m \in Nat
  BY OracleSetupAssumption
<1>1. z \in Nat \ {0} /\ N \in Nat \ {0} /\ Pow2[Width] = z * N
  <2>1. m + (Width - m) = Width
    BY <1>0
  <2>2. Pow2[m + (Width - m)] = Pow2[m] * Pow2[Width - m]
    BY <1>0, Pow2Add
  <2> QED BY <1>0, <2>1, <2>2, Pow2Is
<1>2. Pow2[Width] \div z = N
  <2> DEFINE a == Pow2[Width]
  <2>1. a \in Int /\ N \in Int /\ 0 \in 0..(z - 1) /\ a = N * z + 0
    BY <1>1
  <2> HIDE DEF a, z, N
  <2>2. a \div z = N
    BY <1>1, <2>1, DivModIs
  <2> QED BY <2>2 DEF a
<1>3. st = [b \in 1..N |-> (b - 1) * z]
  BY <1>2 DEF Starts
<1> HIDE DEF z, N
<1>4. Len(st) = N /\ \A b \in 1..N : st[b] = (b - 1) * z
  BY <1>1, <1>3
<1> HIDE DEF st
<1>5. I \subseteq 1..N /\ \A b \in I : BankClass(ms, page \cup Offset((b - 1) * z, Width)) = target
  <2>1. I = {b \in 1..N : BankClass(ms, page \cup Offset(st[b], Width)) = target}
    BY <1>4 DEF Hits, st
  <2> HIDE DEF I
  <2> QED BY <1>4, <2>1
<1> HIDE DEF I
<1> DEFINE c == Cardinality(I)
<1>6. /\ c \in Nat /\ Len(f) = c /\ DOMAIN f = 1..c
      /\ \A k \in 1..c : f[k] = st[Nth(I, k)]
  <2>1. N \in Nat /\ I \in SUBSET (1..N)
    BY <1>1, <1>5
  <2>2. Picks(f, st, I, N)
    BY <2>1, PicksIs, Zenon
  <2> HIDE DEF f
  <2> QED BY <2>1, <2>2 DEF Picks
<1>7. /\ \A k \in 1..c : Nth(I, k) \in I
      /\ \A k, l \in 1..c : Nth(I, k) = Nth(I, l) => k = l
  BY <1>1, <1>5, NthIs
<1> HIDE DEF f, c
<1> DEFINE t == IF wanted <= c THEN wanted ELSE c
<1>8. B = SubSeq(f, 1, t)
  <2>1. B = SubSeq(f, 1, Min({wanted, Len(f)}))
    BY WorkerOps DEF f, st, I
  <2>2. Min({wanted, c}) = t
    <3>1. wanted \in Int /\ c \in Int
      BY <1>6
    <3> QED BY <3>1, MinMaxIs
  <2> QED BY <1>6, <2>1, <2>2
<1>9. t \in 0..wanted /\ t \in Nat /\ t <= c
  BY <1>6
<1> HIDE DEF B, t
<1>10. B = [k \in 1..t |-> f[k]] /\ Len(B) = t
  <2>1. SubSeq(f, 1, t) = [k \in 1..t |-> f[k]]
    BY <1>6, <1>9
  <2> QED BY <1>8, <1>9, <2>1
<1> DEFINE J(k) == Nth(I, k)
<1>11. ASSUME NEW k \in 1..t PROVE J(k) \in I /\ J(k) \in 1..N /\ B[k] = (J(k) - 1) * z
  <2>1. k \in 1..c
    BY <1>6, <1>9
  <2>2. J(k) \in I
    BY <1>7, <2>1
  <2>3. J(k) \in 1..N
    BY <1>5, <2>2
  <2>4. B[k] = f[k] /\ f[k] = st[J(k)]
    BY <1>6, <1>10, <2>1
  <2> HIDE DEF J
  <2> QED BY <1>4, <2>2, <2>3, <2>4
<1>12. ASSUME NEW k \in 1..t, NEW l \in 1..t, J(k) = J(l) PROVE k = l
  <2>1. k \in 1..c /\ l \in 1..c
    BY <1>6, <1>9
  <2> QED BY <1>7, <1>12, <2>1
<1> HIDE DEF J
<1>13. s = [i \in 1..t * z |-> <<p, B[Row(i, z)] + ((i - 1) % z)>>]
  BY <1>10, WorkerOps, Zenon DEF s, z, m
<1> DEFINE n == t * z
<1>14. n \in Nat /\ (n = 0 <=> t = 0)
  BY <1>1, <1>9
<1> HIDE DEF s
<1>15. Len(s) = n /\ DOMAIN s = 1..n
  BY <1>13, <1>14
<1>16. ASSUME NEW i \in 1..n
       PROVE  Row(i, z) \in 1..t /\ (i - 1) % z \in 0..(z - 1) /\ i = (Row(i, z) - 1) * z + ((i - 1) % z) + 1
  <2>1. Rows(t, z)
    BY <1>1, <1>9, Grid, Zenon
  <2>2. Row(i, z) \in 1..t /\ Column(i, z) \in 1..z /\ i = (Row(i, z) - 1) * z + Column(i, z)
    BY <2>1 DEF Rows
  <2>3. (i - 1) % z = Column(i, z) - 1
    <3>1. i - 1 \in Int
      OBVIOUS
    <3>2. (i - 1) % z \in 0..(z - 1)
      BY <1>1, <3>1, DivModDef
    <3> QED BY <3>2 DEF Column
  <2>4. (Row(i, z) - 1) * z \in Int
    BY <1>1, <2>2
  <2> QED BY <1>1, <2>2, <2>3, <2>4
<1> DEFINE V(i) == (J(Row(i, z)) - 1) * z + ((i - 1) % z)
<1>17. ASSUME NEW i \in 1..n
       PROVE  /\ s[i] = <<p, V(i)>> /\ V(i) \in 0..(Pow2[Width] - 1)
              /\ BankClass(ms, page \cup Offset(V(i), Width)) = target
              /\ V(i) \div z = J(Row(i, z)) - 1 /\ V(i) % z = (i - 1) % z
  <2> DEFINE r == Row(i, z)
             j == (i - 1) % z
             b == J(r) - 1
  <2>1. r \in 1..t /\ j \in 0..(z - 1)
    BY <1>16
  <2>2. J(r) \in I /\ J(r) \in 1..N /\ B[r] = b * z
    BY <1>11, <2>1
  <2>3. s[i] = <<p, B[r] + j>>
    BY <1>13
  <2> HIDE DEF r, j
  <2>4. b \in Nat /\ b <= N - 1 /\ b \in Int
    BY <1>1, <2>2
  <2>5. BankClass(ms, page \cup Offset(b * z, Width)) = target
    BY <1>5, <2>2
  <2> HIDE DEF b
  <2>6. BankClass(ms, page \cup Offset(b * z + j, Width)) = target
    <3>1. /\ j \in 0..(Pow2[MinBit(ms)] - 1) /\ z = Pow2[MinBit(ms)]
          /\ MinBit(ms) \in Nat /\ Width \in Nat /\ b \in Nat /\ ms \in MaskSets
      BY <1>0, <2>1, <2>4 DEF z
    <3>2. SameClass(ms, page, Width, b, j)
      BY <3>1, BlockClass, Zenon
    <3> QED BY <2>5, <3>1, <3>2 DEF SameClass
  <2>7. b * z + j \in 0..(Pow2[Width] - 1)
    <3>1. b * z \in Nat /\ b * z <= (N - 1) * z /\ (N - 1) * z = z * N - z
      BY <1>1, <2>4
    <3> QED BY <1>1, <2>1, <3>1
  <2>8. (b * z + j) \div z = b /\ (b * z + j) % z = j
    <3> DEFINE a == b * z + j
    <3>1. a \in Int /\ a = b * z + j
      BY <1>1, <2>1, <2>4
    <3> HIDE DEF a
    <3>2. a \div z = b /\ a % z = j
      BY <1>1, <2>1, <2>4, <3>1, DivModIs
    <3> QED BY <3>1, <3>2
  <2>9. V(i) = b * z + j
    BY DEF b, r, j
  <2> HIDE DEF V
  <2> QED BY <2>2, <2>3, <2>6, <2>7, <2>8, <2>9 DEF b, r, j
<1>18. s \in [1..n -> C]
  <2>1. \A i \in 1..n : s[i] \in C
    <3> HIDE DEF V, n
    <3> QED BY <1>17 DEF ClassLines
  <2>2. s = [i \in 1..n |-> s[i]]
    BY <1>13, <1>15
  <2> HIDE DEF C, n
  <2> QED BY <2>1, <2>2
<1>19. ASSUME NEW i \in 1..n, NEW k \in 1..n, s[i] = s[k] PROVE i = k
  <2>1. V(i) = V(k)
    <3>1. s[i] = <<p, V(i)>> /\ s[k] = <<p, V(k)>>
      BY <1>17
    <3> HIDE DEF V
    <3>2. <<p, V(i)>> = <<p, V(k)>>
      BY <1>19, <3>1
    <3> QED BY <3>2
  <2>2. /\ V(i) \div z = J(Row(i, z)) - 1 /\ V(i) % z = (i - 1) % z
        /\ V(k) \div z = J(Row(k, z)) - 1 /\ V(k) % z = (k - 1) % z
    BY <1>17
  <2> HIDE DEF V
  <2>3. Row(i, z) \in 1..t /\ Row(k, z) \in 1..t /\ J(Row(i, z)) \in 1..N /\ J(Row(k, z)) \in 1..N
    BY <1>11, <1>16
  <2>4. J(Row(i, z)) = J(Row(k, z))
    BY <1>1, <2>1, <2>2, <2>3
  <2>5. Row(i, z) = Row(k, z)
    BY <1>12, <2>3, <2>4
  <2> QED BY <1>16, <2>1, <2>2, <2>5
<1>20. OneToOne(s, n, C)
  <2> HIDE DEF C, n
  <2> QED BY <1>18, <1>19 DEF OneToOne
<1>21. t = 0 <=> B = <<>>
  BY <1>9, <1>10
<1>22. Found(B, s, wanted, ms, C)
  <2>1. Len(B) * Pow2[MinBit(ms)] = n
    BY <1>10 DEF n, z
  <2> HIDE DEF n, C
  <2> QED BY <1>9, <1>10, <1>14, <1>15, <1>20, <1>21, <2>1 DEF Found
<1> QED BY <1>22 DEF B, s, C
=============================================================================
