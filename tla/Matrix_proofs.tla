---------------------------- MODULE Matrix_proofs ----------------------------
(***************************************************************************)
(* What the proofs need to know of the data. First Rational: a fraction    *)
(* has one form in lowest terms, so exact addition, multiplication and     *)
(* division have the laws of numbers, what a loop adds up has the laws of  *)
(* sums, and the root of a square is its root. Then Matrix: the cells of   *)
(* an array of rows, the algebra of matrices of numbers, and copies of     *)
(* blocks.                                                                 *)
(***************************************************************************)
EXTENDS Matrix, SequenceTheorems, WellFoundedInduction, TLAPS

-----------------------------------------------------------------------------
(* Induction, and the greatest common divisor.                              *)

\* Induction on natural numbers, for a set.
LEMMA Induct ==
  ASSUME NEW T, T \subseteq Nat, 0 \in T, \A n \in T : n + 1 \in T
  PROVE  Nat \subseteq T
<1> SUFFICES ASSUME Nat \ T # {} PROVE FALSE
  OBVIOUS
<1>1. PICK n \in Nat \ T : \A m \in Nat \ T : ~ (<<m, n>> \in OpToRel(<, Nat))
  BY NatLessThanWellFounded, WFMin
<1>2. n # 0 /\ n - 1 \in Nat /\ (n - 1) + 1 = n
  OBVIOUS
<1>3. n - 1 \in T
  <2>1. n - 1 \in Nat /\ n - 1 < n
    BY <1>2
  <2>2. <<n - 1, n>> \in OpToRel(<, Nat)
    BY <2>1 DEF OpToRel
  <2> QED
    BY <1>1, <2>1, <2>2
<1> QED
  BY <1>2, <1>3

\* Gcd is what its equation says: there is a function that satisfies it.
EuclidUpTo(g, n) ==
  \A p \in Nat \X Nat : p[2] < n => g[p] = IF p[2] = 0 THEN p[1] ELSE g[<<p[2], p[1] % p[2]>>]

\* There is at most one such function.
LEMMA EuclidUnique ==
  ASSUME NEW n \in Nat, NEW g, NEW h, EuclidUpTo(g, n), EuclidUpTo(h, n)
  PROVE  \A p \in Nat \X Nat : p[2] < n => g[p] = h[p]
<1> DEFINE T == {k \in Nat : k <= n => \A p \in Nat \X Nat : p[2] < k => g[p] = h[p]}
<1>1. 0 \in T
  OBVIOUS
<1>2. ASSUME NEW k \in T PROVE k + 1 \in T
  <2> SUFFICES ASSUME k + 1 <= n, NEW p \in Nat \X Nat, p[2] = k PROVE g[p] = h[p]
    BY <1>2
  <2> p[2] < n /\ n \in Nat /\ k \in Nat
    OBVIOUS
  <2>1. CASE k = 0
    <3>1. p[2] = 0
      BY <2>1
    <3>2. g[p] = p[1] /\ h[p] = p[1]
      BY <3>1 DEF EuclidUpTo
    <3> QED
      BY <3>2
  <2>2. CASE k # 0
    <3>1. p[1] % p[2] \in Nat /\ p[1] % p[2] < k
      BY <2>2
    <3> DEFINE q == <<p[2], p[1] % p[2]>>
    <3>2. q \in Nat \X Nat /\ q[2] < k
      BY <3>1
    <3>3. g[q] = h[q]
      BY <3>2, <1>2
    <3>4. g[p] = g[q] /\ h[p] = h[q]
      BY <2>2 DEF EuclidUpTo
    <3> QED
      BY <3>3, <3>4
  <2> QED
    BY <2>1, <2>2
<1> HIDE DEF T
<1>3. n \in T
  BY <1>1, <1>2, Induct DEF T
<1> QED
  BY <1>3 DEF T

\* There is one for every bound.
LEMMA EuclidExists ==
  ASSUME NEW n \in Nat
  PROVE  \E g : EuclidUpTo(g, n)
<1> DEFINE T == {k \in Nat : \E g : EuclidUpTo(g, k)}
<1>1. 0 \in T
  BY DEF EuclidUpTo
<1>2. ASSUME NEW k \in T PROVE k + 1 \in T
  <2>1. PICK g : EuclidUpTo(g, k)
    OBVIOUS
  <2> DEFINE h == [p \in Nat \X Nat |->
                     IF p[2] = k THEN IF k = 0 THEN p[1] ELSE g[<<p[2], p[1] % p[2]>>] ELSE g[p]]
  <2>2. ASSUME NEW p \in Nat \X Nat, p[2] < k + 1
        PROVE  h[p] = IF p[2] = 0 THEN p[1] ELSE h[<<p[2], p[1] % p[2]>>]
    <3>1. CASE p[2] = 0
      BY <2>1, <3>1 DEF EuclidUpTo
    <3>2. CASE p[2] # 0
      <4> DEFINE q == <<p[2], p[1] % p[2]>>
      <4>1. p[1] % p[2] \in Nat /\ p[1] % p[2] < p[2]
        BY <3>2
      <4>2. q \in Nat \X Nat /\ q[2] < p[2]
        BY <4>1
      <4>3. h[q] = g[q]
        BY <4>2, <2>2
      <4>4. h[p] = g[q]
        BY <2>1, <2>2, <3>2 DEF EuclidUpTo
      <4> QED
        BY <3>2, <4>3, <4>4
    <3> QED
      BY <3>1, <3>2
  <2> HIDE DEF h
  <2>3. EuclidUpTo(h, k + 1)
    BY <2>2 DEF EuclidUpTo
  <2> QED
    BY <2>3
<1> HIDE DEF T
<1> QED
  BY <1>1, <1>2, Induct DEF T

\* So Gcd satisfies its equation.
LEMMA GcdEquation ==
  Gcd = [p \in Nat \X Nat |-> IF p[2] = 0 THEN p[1] ELSE Gcd[<<p[2], p[1] % p[2]>>]]
<1> DEFINE part(k) == CHOOSE g : EuclidUpTo(g, k)
           f == [p \in Nat \X Nat |-> part(p[2] + 1)[p]]
           P(g) == g = [p \in Nat \X Nat |-> IF p[2] = 0 THEN p[1] ELSE g[<<p[2], p[1] % p[2]>>]]
<1>1. \A k \in Nat : EuclidUpTo(part(k), k)
  BY EuclidExists
<1> HIDE DEF part
<1>2. ASSUME NEW p \in Nat \X Nat
      PROVE  f[p] = IF p[2] = 0 THEN p[1] ELSE f[<<p[2], p[1] % p[2]>>]
  <2> p[1] \in Nat /\ p[2] \in Nat /\ p[2] + 1 \in Nat
    OBVIOUS
  <2>1. CASE p[2] = 0
    <3>1. EuclidUpTo(part(p[2] + 1), p[2] + 1) /\ p[2] < p[2] + 1
      BY <1>1
    <3>2. part(p[2] + 1)[p] = p[1]
      BY <3>1, <2>1 DEF EuclidUpTo
    <3> QED
      BY <3>2, <2>1
  <2>2. CASE p[2] # 0
    <3> DEFINE q == <<p[2], p[1] % p[2]>>
    <3>1. q \in Nat \X Nat /\ q[2] < p[2] /\ q[2] + 1 \in Nat
      BY <2>2
    <3>2. f[p] = part(p[2] + 1)[q]
      BY <1>1, <2>2 DEF EuclidUpTo
    <3>3. EuclidUpTo(part(p[2] + 1), q[2] + 1)
      BY <1>1, <3>1 DEF EuclidUpTo
    <3>4. part(p[2] + 1)[q] = part(q[2] + 1)[q]
      BY <1>1, <3>1, <3>3, EuclidUnique
    <3> QED
      BY <2>2, <3>1, <3>2, <3>4
  <2> QED
    BY <2>1, <2>2
<1>3. P(f)
  <2> DEFINE r == [p \in Nat \X Nat |-> IF p[2] = 0 THEN p[1] ELSE f[<<p[2], p[1] % p[2]>>]]
  <2>1. \A p \in Nat \X Nat : f[p] = r[p]
    BY <1>2
  <2>2. f = r
    BY <2>1, Zenon
  <2> QED
    BY <2>2
<1>4. Gcd = CHOOSE g : P(g)
  BY DEF Gcd
<1> HIDE DEF P, f
<1>5. P(Gcd)
  BY <1>3, <1>4
<1> QED
  BY <1>5 DEF P

IsGcd(g, a, b) ==
  /\ g \in Nat
  /\ \E i, j \in Nat : a = i * g /\ b = j * g
  /\ \E u, v \in Int : g = u * a + v * b

\* The greatest common divisor divides both numbers and is a combination of them.
LEMMA GcdDivides ==
  ASSUME NEW a \in Nat, NEW b \in Nat
  PROVE  IsGcd(Gcd[<<a, b>>], a, b)
<1> DEFINE Good(c, d) == IsGcd(Gcd[<<c, d>>], c, d)
           T == {n \in Nat : \A c, d \in Nat : d <= n => Good(c, d)}
<1>1. \A c, d \in Nat : Gcd[<<c, d>>] = IF d = 0 THEN c ELSE Gcd[<<d, c % d>>]
  <2> SUFFICES ASSUME NEW c \in Nat, NEW d \in Nat
               PROVE  Gcd[<<c, d>>] = IF d = 0 THEN c ELSE Gcd[<<d, c % d>>]
    OBVIOUS
  <2> DEFINE p == <<c, d>>
  <2>1. p \in Nat \X Nat /\ p[1] = c /\ p[2] = d
    OBVIOUS
  <2>2. Gcd[p] = IF p[2] = 0 THEN p[1] ELSE Gcd[<<p[2], p[1] % p[2]>>]
    BY <2>1, GcdEquation
  <2> QED
    BY <2>1, <2>2
<1>2. \A c \in Nat : Good(c, 0)
  <2> SUFFICES ASSUME NEW c \in Nat PROVE Good(c, 0)
    OBVIOUS
  <2>1. Gcd[<<c, 0>>] = c
    BY <1>1
  <2>2. c = 1 * c /\ 0 = 0 * c /\ c = 1 * c + 0 * 0
    OBVIOUS
  <2> QED
    BY <2>1, <2>2 DEF IsGcd
<1>3. 0 \in T
  BY <1>2
<1>4. ASSUME NEW n \in T PROVE n + 1 \in T
  <2> SUFFICES ASSUME NEW c \in Nat, NEW d \in Nat, d <= n + 1, d # 0 PROVE Good(c, d)
    BY <1>2
  <2> DEFINE r == c % d
             k == c \div d
             g == Gcd[<<d, r>>]
  <2>1. r \in Nat /\ r <= n /\ k \in Nat /\ c = d * k + r
    OBVIOUS
  <2>2. Good(d, r)
    BY <2>1
  <2>3. Gcd[<<c, d>>] = g
    BY <1>1
  <2>4. PICK i, j \in Nat : d = i * g /\ r = j * g
    BY <2>2 DEF IsGcd
  <2>5. PICK u, v \in Int : g = u * d + v * r
    BY <2>2 DEF IsGcd
  <2>6. g \in Nat
    BY <2>2 DEF IsGcd
  <2> HIDE DEF g, r, k, T
  <2>7. c = (i * k + j) * g
    <3>1. c = (i * g) * k + j * g
      BY <2>1, <2>4
    <3> QED
      BY <3>1, <2>1, <2>6
  <2>8. i * k + j \in Nat
    BY <2>1
  <2>9. g = v * c + (u - v * k) * d
    <3>1. r = c - d * k
      BY <2>1
    <3>2. g = u * d + v * (c - d * k)
      BY <2>5, <3>1
    <3> QED
      BY <3>2, <2>1
  <2>10. v \in Int /\ u - v * k \in Int
    BY <2>1
  <2> QED
    BY <2>3, <2>4, <2>6, <2>7, <2>8, <2>9, <2>10 DEF IsGcd
<1> HIDE DEF T
<1>5. b \in T
  BY <1>3, <1>4, Induct DEF T
<1>6. Good(a, b)
  BY <1>5 DEF T
<1> QED
  BY <1>6

-----------------------------------------------------------------------------
(* Fractions.                                                               *)

\* p is the number n / d.
Stands(p, n, d) == p \in Fraction /\ IsNumber(p) /\ p[1] * d = n * p[2]

\* Numerator and denominator of a fraction, and the NaN.
LEMMA FractionParts ==
  ASSUME NEW p \in Fraction
  PROVE  /\ p = <<p[1], p[2]>> /\ p[1] \in Int /\ p[2] \in Nat
         /\ IsNumber(p) <=> p[2] # 0
         /\ ~IsNumber(p) <=> p = NaN
BY DEF Fraction, IsNumber, NaN

\* Numerator and denominator of a number in lowest terms combine to one.
LEMMA Bezout ==
  ASSUME NEW p \in Fraction, IsNumber(p)
  PROVE  \E u, v \in Int : u * p[1] + v * p[2] = 1
<1>1. /\ p[1] \in Int /\ p[2] \in Nat /\ Magnitude(p[1]) \in Nat
      /\ Gcd[<<Magnitude(p[1]), p[2]>>] = 1
  BY DEF Fraction, IsNumber, NaN, Magnitude
<1>2. PICK u, v \in Int : 1 = u * Magnitude(p[1]) + v * p[2]
  <2>1. IsGcd(1, Magnitude(p[1]), p[2])
    BY <1>1, GcdDivides
  <2> QED
    BY <2>1 DEF IsGcd
<1>3. CASE p[1] < 0
  <2>1. (-u) * p[1] + v * p[2] = 1
    BY <1>1, <1>2, <1>3 DEF Magnitude
  <2> QED
    BY <2>1
<1>4. CASE ~(p[1] < 0)
  BY <1>1, <1>2, <1>4 DEF Magnitude
<1> QED
  BY <1>3, <1>4

\* A denominator divides that of every fraction of the same value.
LEMMA DenominatorDivides ==
  ASSUME NEW p \in Fraction, NEW q \in Fraction, IsNumber(p), IsNumber(q),
         p[1] * q[2] = q[1] * p[2]
  PROVE  \E k \in Int : q[2] = k * p[2]
<1>1. p[1] \in Int /\ p[2] \in Nat /\ q[1] \in Int /\ q[2] \in Nat
  BY FractionParts
<1>2. PICK u, v \in Int : u * p[1] + v * p[2] = 1
  BY Bezout
<1> DEFINE k == u * q[1] + v * q[2]
<1>3. q[2] = q[2] * (u * p[1] + v * p[2])
  BY <1>1, <1>2
<1>4. q[2] * (u * p[1] + v * p[2]) = u * (p[1] * q[2]) + v * p[2] * q[2]
  BY <1>1
<1>5. u * (q[1] * p[2]) + v * p[2] * q[2] = k * p[2]
  BY <1>1
<1>6. k \in Int
  BY <1>1
<1> HIDE DEF k
<1> QED
  BY <1>3, <1>4, <1>5, <1>6

\* Two numbers in lowest terms with the same value are equal.
LEMMA FractionUnique ==
  ASSUME NEW p \in Fraction, NEW q \in Fraction, IsNumber(p), IsNumber(q),
         p[1] * q[2] = q[1] * p[2]
  PROVE  p = q
<1>1. /\ p[1] \in Int /\ p[2] \in Nat /\ q[1] \in Int /\ q[2] \in Nat
      /\ p[2] # 0 /\ q[2] # 0 /\ p = <<p[1], p[2]>> /\ q = <<q[1], q[2]>>
  BY FractionParts
<1>2. PICK k \in Int : q[2] = k * p[2]
  BY DenominatorDivides
<1>3. PICK l \in Int : p[2] = l * q[2]
  BY DenominatorDivides
<1>4. q[2] = p[2]
  <2>1. k > 0 /\ l > 0
    BY <1>1, <1>2, <1>3
  <2>2. k * p[2] >= p[2] /\ l * q[2] >= q[2]
    BY <1>1, <2>1
  <2> QED
    BY <1>1, <1>2, <1>3, <2>2
<1>5. p[1] = q[1]
  BY <1>1, <1>4
<1> QED
  BY <1>1, <1>4, <1>5

\* A product divided by its factor.
LEMMA ExactQuotient ==
  ASSUME NEW i \in Int, NEW g \in Nat, g # 0
  PROVE  (i * g) \div g = i
<1> DEFINE m == i * g
           q == m \div g
<1>1. m \in Int
  OBVIOUS
<1> HIDE DEF m
<1>2. q \in Int /\ q * g <= m /\ m < q * g + g
  BY <1>1
<1> HIDE DEF q
<1>3. q * g <= i * g /\ i * g < (q + 1) * g
  BY <1>2 DEF m
<1>4. q <= i
  BY <1>2, <1>3
<1>5. i < q + 1
  BY <1>2, <1>3
<1> QED
  BY <1>2, <1>4, <1>5 DEF q, m

\* What combines to one has no common divisor.
LEMMA CoprimeGcd ==
  ASSUME NEW i \in Nat, NEW j \in Nat, NEW u \in Int, NEW v \in Int, u * i + v * j = 1
  PROVE  Gcd[<<i, j>>] = 1
<1> DEFINE g == Gcd[<<i, j>>]
<1>1. g \in Nat
  BY GcdDivides DEF IsGcd
<1>2. PICK c, d \in Nat : i = c * g /\ j = d * g
  BY GcdDivides DEF IsGcd
<1> HIDE DEF g
<1> DEFINE w == u * c + v * d
<1>3. w * g = 1 /\ w \in Int
  <2>1. u * (c * g) + v * (d * g) = 1
    BY <1>2
  <2> QED
    BY <1>1, <2>1
<1> HIDE DEF w
<1>4. g = 1
  BY <1>1, <1>3
<1> QED
  BY <1>4 DEF g

\* Quotient reduces to lowest terms.
LEMMA QuotientStands ==
  ASSUME NEW n \in Int, NEW d \in Int, d # 0
  PROVE  Stands(Quotient(n, d), n, d)
<1> DEFINE a == Magnitude(n)
           b == Magnitude(d)
           g == Gcd[<<a, b>>]
           s == IF d < 0 THEN -1 ELSE 1
           t == IF n < 0 THEN -1 ELSE 1
<1>1. a \in Nat /\ b \in Nat /\ b # 0 /\ n = t * a /\ d = s * b /\ s \in {-1, 1} /\ t \in {-1, 1}
  BY DEF Magnitude
<1>2. g \in Nat
  BY <1>1, GcdDivides DEF IsGcd
<1>3. PICK i, j \in Nat : a = i * g /\ b = j * g
  BY <1>1, GcdDivides DEF IsGcd
<1>4. PICK u, v \in Int : g = u * a + v * b
  BY <1>1, GcdDivides DEF IsGcd
<1>5. Quotient(n, d) = <<s * (n \div g), b \div g>>
  BY DEF Quotient
<1> HIDE DEF a, b, g, s, t
<1>6. g # 0 /\ j # 0
  BY <1>1, <1>2, <1>3
<1>7. b \div g = j
  BY <1>2, <1>3, <1>6, ExactQuotient
<1>8. n \div g = t * i
  <2>1. n = (t * i) * g /\ t * i \in Int
    BY <1>1, <1>2, <1>3
  <2> QED
    BY <1>2, <1>6, <2>1, ExactQuotient
<1> DEFINE m == s * (t * i)
<1>9. m \in Int /\ Magnitude(m) = i /\ Quotient(n, d) = <<m, j>>
  BY <1>1, <1>5, <1>7, <1>8 DEF Magnitude
<1>10. u * i + v * j = 1
  <2>1. g = (u * i + v * j) * g
    <3>1. g = u * (i * g) + v * (j * g)
      BY <1>3, <1>4
    <3> QED
      BY <1>2, <3>1
  <2> DEFINE w == u * i + v * j
  <2>2. w \in Int /\ g = w * g
    BY <2>1
  <2> HIDE DEF w
  <2>3. w = 1
    BY <1>2, <1>6, <2>2
  <2> QED
    BY <2>3 DEF w
<1>11. Gcd[<<i, j>>] = 1
  BY <1>10, CoprimeGcd
<1>12. m * d = n * j
  <2>1. d = s * (j * g) /\ n = t * (i * g)
    BY <1>1, <1>3
  <2>2. (s * (t * i)) * (s * (j * g)) = (s * s) * ((t * (i * g)) * j)
    BY <1>1, <1>2
  <2>3. s * s = 1
    BY <1>1
  <2>4. (t * (i * g)) * j \in Int
    BY <1>1, <1>2
  <2> QED
    BY <2>1, <2>2, <2>3, <2>4
<1> HIDE DEF m
<1>13. <<m, j>> \in Fraction
  BY <1>6, <1>9, <1>11 DEF Fraction, IsNumber
<1> QED
  BY <1>6, <1>9, <1>12, <1>13 DEF Stands, IsNumber

\* One number, one fraction.
LEMMA StandsUnique ==
  ASSUME NEW p, NEW q, NEW n \in Int, NEW d \in Int, d # 0, Stands(p, n, d), Stands(q, n, d)
  PROVE  p = q
<1>1. /\ p[1] \in Int /\ p[2] \in Nat /\ q[1] \in Int /\ q[2] \in Nat
      /\ p[1] * d = n * p[2] /\ q[1] * d = n * q[2]
  BY FractionParts DEF Stands
<1>2. (p[1] * q[2]) * d = (q[1] * p[2]) * d
  <2>1. (p[1] * d) * q[2] = (q[1] * d) * p[2]
    BY <1>1
  <2> QED
    BY <1>1, <2>1
<1>3. p[1] * q[2] = q[1] * p[2]
  <2> DEFINE l == p[1] * q[2]
             r == q[1] * p[2]
  <2>1. l \in Int /\ r \in Int /\ l * d = r * d
    BY <1>1, <1>2
  <2> HIDE DEF l, r
  <2>2. l = r
    BY <2>1
  <2> QED
    BY <2>2 DEF l, r
<1> QED
  BY <1>3, FractionUnique DEF Stands

\* A whole number stands for itself over one.
LEMMA WholeStands ==
  ASSUME NEW n \in Int
  PROVE  Stands(Whole(n), n, 1)
<1> DEFINE a == Magnitude(n)
<1>1. a \in Nat
  BY DEF Magnitude
<1> HIDE DEF a
<1>2. 0 * a + 1 * 1 = 1
  BY <1>1
<1>3. Gcd[<<a, 1>>] = 1
  BY <1>1, <1>2, CoprimeGcd
<1> QED
  BY <1>3 DEF Stands, Whole, Fraction, IsNumber, a

\* Every number stands for itself.
LEMMA StandsForItself ==
  ASSUME NEW p \in Fraction, IsNumber(p)
  PROVE  Stands(p, p[1], p[2])
BY FractionParts DEF Stands

\* A number stands for all fractions of its value.
LEMMA SameValue ==
  ASSUME NEW r, NEW a \in Int, NEW b \in Int, NEW s \in Int, NEW t \in Int,
         b # 0, Stands(r, a, b), b * s = a * t
  PROVE  Stands(r, s, t)
<1> DEFINE i == r[1]
           j == r[2]
<1>1. i \in Int /\ j \in Nat /\ i * b = a * j
  BY FractionParts DEF Stands
<1> HIDE DEF i, j
<1>2. (i * t) * b = (s * j) * b
  <2>1. (i * t) * b = (i * b) * t
    BY <1>1
  <2>2. (a * j) * t = (a * t) * j
    BY <1>1
  <2>3. (b * s) * j = (s * j) * b
    BY <1>1
  <2> QED
    BY <1>1, <2>1, <2>2, <2>3
<1> DEFINE k == i * t
           l == s * j
<1>3. k \in Int /\ l \in Int /\ k * b = l * b
  BY <1>1, <1>2
<1> HIDE DEF k, l
<1>4. k = l
  BY <1>3
<1> QED
  BY <1>4 DEF Stands, k, l, i, j

\* Sums and products of quotients, multiplied out.
LEMMA CrossSum ==
  ASSUME NEW i \in Int, NEW j \in Int, NEW k \in Int, NEW l \in Int,
         NEW n \in Int, NEW d \in Int, NEW m \in Int, NEW e \in Int,
         i * d = n * j, k * e = m * l
  PROVE  /\ (j * l) * (n * e + m * d) = (i * l + k * j) * (d * e)
         /\ (j * l) * (n * m) = (i * k) * (d * e)
<1>1. (j * l) * (n * e + m * d) = (n * j) * (l * e) + (m * l) * (j * d)
  OBVIOUS
<1>2. (i * l + k * j) * (d * e) = (i * d) * (l * e) + (k * e) * (j * d)
  OBVIOUS
<1>3. (j * l) * (n * m) = (n * j) * (m * l)
  OBVIOUS
<1>4. (i * k) * (d * e) = (i * d) * (k * e)
  OBVIOUS
<1> QED
  BY <1>1, <1>2, <1>3, <1>4

\* The operations, on whatever fractions their arguments are given by.
LEMMA AddStands ==
  ASSUME NEW p, NEW q, NEW n \in Int, NEW d \in Int, NEW m \in Int, NEW e \in Int,
         Stands(p, n, d), Stands(q, m, e)
  PROVE  Stands(Add(p, q), n * e + m * d, d * e)
<1> DEFINE i == p[1]
           j == p[2]
           k == q[1]
           l == q[2]
           a == i * l + k * j
           b == j * l
<1>1. /\ i \in Int /\ j \in Nat /\ k \in Int /\ l \in Nat /\ j # 0 /\ l # 0
      /\ i * d = n * j /\ k * e = m * l
  BY FractionParts DEF Stands
<1>2. Add(p, q) = IF j = 1 /\ l = 1 THEN Whole(i + k) ELSE Quotient(a, b)
  BY DEF Add
<1> HIDE DEF i, j, k, l
<1>3. a \in Int /\ b \in Int /\ b # 0
  BY <1>1
<1>4. Stands(Add(p, q), a, b)
  <2>1. CASE j = 1 /\ l = 1
    <3>1. a = i + k /\ b = 1 /\ i + k \in Int
      BY <1>1, <2>1
    <3> QED
      BY <1>2, <2>1, <3>1, WholeStands
  <2>2. CASE ~(j = 1 /\ l = 1)
    BY <1>2, <1>3, <2>2, QuotientStands
  <2> QED
    BY <2>1, <2>2
<1>5. b * (n * e + m * d) = a * (d * e)
  BY <1>1, CrossSum
<1> HIDE DEF a, b
<1> QED
  BY <1>3, <1>4, <1>5, SameValue

\* Mul stands for the product.
LEMMA MulStands ==
  ASSUME NEW p, NEW q, NEW n \in Int, NEW d \in Int, NEW m \in Int, NEW e \in Int,
         Stands(p, n, d), Stands(q, m, e)
  PROVE  Stands(Mul(p, q), n * m, d * e)
<1> DEFINE i == p[1]
           j == p[2]
           k == q[1]
           l == q[2]
           a == i * k
           b == j * l
<1>1. /\ i \in Int /\ j \in Nat /\ k \in Int /\ l \in Nat /\ j # 0 /\ l # 0
      /\ i * d = n * j /\ k * e = m * l
  BY FractionParts DEF Stands
<1>2. Mul(p, q) = IF j = 1 /\ l = 1 THEN Whole(i * k) ELSE Quotient(a, b)
  BY DEF Mul
<1> HIDE DEF i, j, k, l
<1>3. a \in Int /\ b \in Int /\ b # 0
  BY <1>1
<1>4. Stands(Mul(p, q), a, b)
  <2>1. CASE j = 1 /\ l = 1
    <3>1. a = i * k /\ b = 1 /\ i * k \in Int
      BY <1>1, <2>1
    <3> QED
      BY <1>2, <2>1, <3>1, WholeStands
  <2>2. CASE ~(j = 1 /\ l = 1)
    BY <1>2, <1>3, <2>2, QuotientStands
  <2> QED
    BY <2>1, <2>2
<1>5. b * (n * m) = a * (d * e)
  BY <1>1, CrossSum
<1> HIDE DEF a, b
<1> QED
  BY <1>3, <1>4, <1>5, SameValue

\* Neg stands for the opposite.
LEMMA NegStands ==
  ASSUME NEW p, NEW n \in Int, NEW d \in Int, Stands(p, n, d)
  PROVE  Stands(Neg(p), -n, d)
<1>1. /\ p \in Fraction /\ p[1] \in Int /\ p[2] \in Nat /\ p[2] # 0 /\ p[1] * d = n * p[2]
  BY FractionParts DEF Stands
<1>2. Gcd[<<Magnitude(p[1]), p[2]>>] = 1
  BY <1>1 DEF Fraction, NaN
<1>3. -p[1] \in Int /\ Magnitude(-p[1]) = Magnitude(p[1])
  BY <1>1 DEF Magnitude
<1>4. Neg(p) \in Fraction /\ Neg(p) = <<-p[1], p[2]>>
  BY <1>1, <1>2, <1>3 DEF Neg, Fraction, IsNumber
<1>5. (-p[1]) * d = (-n) * p[2]
  BY <1>1
<1> QED
  BY <1>1, <1>3, <1>4, <1>5 DEF Stands, IsNumber

\* What is not a number stays so.
LEMMA NotANumberStays ==
  ASSUME NEW p \in Fraction, NEW q \in Fraction, ~IsNumber(p) \/ ~IsNumber(q)
  PROVE  Add(p, q) = NaN /\ Mul(p, q) = NaN
<1>1. /\ p[1] \in Int /\ p[2] \in Nat /\ q[1] \in Int /\ q[2] \in Nat
      /\ p[2] = 0 \/ q[2] = 0
  BY FractionParts
<1>2. p[2] * q[2] = 0 /\ ~(p[2] = 1 /\ q[2] = 1)
  BY <1>1
<1> QED
  BY <1>2 DEF Add, Mul, Quotient

\* The NaN is a fraction and its own opposite.
LEMMA NanIsFraction == NaN \in Fraction /\ ~IsNumber(NaN) /\ Neg(NaN) = NaN
<1>1. NaN \in Int \X Nat /\ NaN[1] = 0 /\ NaN[2] = 0 /\ NaN = <<0, 0>>
  BY DEF NaN
<1>2. NaN \in Fraction
  BY <1>1 DEF Fraction
<1>3. -NaN[1] = 0
  <2>1. \A n \in Int : -n = 0 - n
    OBVIOUS
  <2>2. -NaN[1] = 0 - NaN[1]
    BY <1>1, <2>1
  <2> QED
    BY <1>1, <2>2
<1>4. Neg(NaN) = <<-NaN[1], NaN[2]>>
  BY DEF Neg
<1> QED
  BY <1>1, <1>2, <1>3, <1>4 DEF IsNumber

\* p + q and p * q are numbers if both are.
LEMMA Closed ==
  ASSUME NEW p \in Fraction, NEW q \in Fraction
  PROVE  /\ Add(p, q) \in Fraction /\ Mul(p, q) \in Fraction /\ Neg(p) \in Fraction /\ Sub(p, q) \in Fraction
         /\ IsNumber(Add(p, q)) <=> IsNumber(p) /\ IsNumber(q)
         /\ IsNumber(Mul(p, q)) <=> IsNumber(p) /\ IsNumber(q)
         /\ IsNumber(Neg(p)) <=> IsNumber(p)
<1>1. ASSUME NEW r \in Fraction, NEW s \in Fraction
      PROVE  /\ Add(r, s) \in Fraction /\ Mul(r, s) \in Fraction
             /\ IsNumber(Add(r, s)) <=> IsNumber(r) /\ IsNumber(s)
             /\ IsNumber(Mul(r, s)) <=> IsNumber(r) /\ IsNumber(s)
  <2>1. CASE IsNumber(r) /\ IsNumber(s)
    <3>1. /\ Stands(Add(r, s), r[1] * s[2] + s[1] * r[2], r[2] * s[2])
          /\ Stands(Mul(r, s), r[1] * s[1], r[2] * s[2])
      BY <2>1, FractionParts, StandsForItself, AddStands, MulStands
    <3> QED
      BY <2>1, <3>1 DEF Stands
  <2>2. CASE ~IsNumber(r) \/ ~IsNumber(s)
    BY <2>2, NotANumberStays, NanIsFraction
  <2> QED
    BY <2>1, <2>2
<1>2. ASSUME NEW r \in Fraction
      PROVE  Neg(r) \in Fraction /\ (IsNumber(Neg(r)) <=> IsNumber(r))
  <2>1. CASE IsNumber(r)
    BY <2>1, FractionParts, StandsForItself, NegStands DEF Stands
  <2>2. CASE ~IsNumber(r)
    BY <2>2, FractionParts, NanIsFraction
  <2> QED
    BY <2>1, <2>2
<1> QED
  BY <1>1, <1>2 DEF Sub

\* Addition is associative.
LEMMA AddAssociative ==
  ASSUME NEW p \in Fraction, NEW q \in Fraction, NEW r \in Fraction
  PROVE  Add(Add(p, q), r) = Add(p, Add(q, r))
<1>1. CASE IsNumber(p) /\ IsNumber(q) /\ IsNumber(r)
  <2> DEFINE i == p[1]
             j == p[2]
             k == q[1]
             l == q[2]
             m == r[1]
             n == r[2]
  <2>1. /\ i \in Int /\ j \in Nat /\ k \in Int /\ l \in Nat /\ m \in Int /\ n \in Nat
        /\ j # 0 /\ l # 0 /\ n # 0
        /\ Stands(p, i, j) /\ Stands(q, k, l) /\ Stands(r, m, n)
    BY <1>1, FractionParts, StandsForItself
  <2> HIDE DEF i, j, k, l, m, n
  <2>2. Stands(Add(p, q), i * l + k * j, j * l)
    BY <2>1, AddStands
  <2>3. Stands(Add(Add(p, q), r), (i * l + k * j) * n + m * (j * l), (j * l) * n)
    BY <2>1, <2>2, AddStands
  <2>4. Stands(Add(q, r), k * n + m * l, l * n)
    BY <2>1, AddStands
  <2>5. Stands(Add(p, Add(q, r)), i * (l * n) + (k * n + m * l) * j, j * (l * n))
    BY <2>1, <2>4, AddStands
  <2>6. /\ (i * l + k * j) * n + m * (j * l) = i * (l * n) + (k * n + m * l) * j
        /\ (j * l) * n = j * (l * n)
    BY <2>1
  <2>7. j * (l * n) \in Int /\ j * (l * n) # 0 /\ i * (l * n) + (k * n + m * l) * j \in Int
    BY <2>1
  <2> QED
    BY <2>3, <2>5, <2>6, <2>7, StandsUnique
<1>2. CASE ~(IsNumber(p) /\ IsNumber(q) /\ IsNumber(r))
  <2>1. /\ Add(p, q) \in Fraction /\ (IsNumber(Add(p, q)) <=> IsNumber(p) /\ IsNumber(q))
        /\ Add(q, r) \in Fraction /\ (IsNumber(Add(q, r)) <=> IsNumber(q) /\ IsNumber(r))
    BY Closed
  <2> QED
    BY <1>2, <2>1, NotANumberStays
<1> QED
  BY <1>1, <1>2

\* Addition and multiplication commute.
LEMMA AddCommutes ==
  ASSUME NEW p \in Fraction, NEW q \in Fraction
  PROVE  Add(p, q) = Add(q, p) /\ Mul(p, q) = Mul(q, p)
<1>1. p[1] \in Int /\ p[2] \in Nat /\ q[1] \in Int /\ q[2] \in Nat
  BY FractionParts
<1>2. /\ p[1] + q[1] = q[1] + p[1] /\ p[1] * q[1] = q[1] * p[1] /\ p[2] * q[2] = q[2] * p[2]
      /\ p[1] * q[2] + q[1] * p[2] = q[1] * p[2] + p[1] * q[2]
  BY <1>1
<1> QED
  BY <1>2, Zenon DEF Add, Mul

\* Multiplication distributes over addition.
LEMMA Distributes ==
  ASSUME NEW p \in Fraction, NEW q \in Fraction, NEW r \in Fraction
  PROVE  Mul(p, Add(q, r)) = Add(Mul(p, q), Mul(p, r))
<1>1. CASE IsNumber(p) /\ IsNumber(q) /\ IsNumber(r)
  <2> DEFINE i == p[1]
             j == p[2]
             k == q[1]
             l == q[2]
             m == r[1]
             n == r[2]
  <2>1. /\ i \in Int /\ j \in Nat /\ k \in Int /\ l \in Nat /\ m \in Int /\ n \in Nat
        /\ j # 0 /\ l # 0 /\ n # 0
        /\ Stands(p, i, j) /\ Stands(q, k, l) /\ Stands(r, m, n)
    BY <1>1, FractionParts, StandsForItself
  <2> HIDE DEF i, j, k, l, m, n
  <2>2. Stands(Add(q, r), k * n + m * l, l * n)
    BY <2>1, AddStands
  <2>3. Stands(Mul(p, Add(q, r)), i * (k * n + m * l), j * (l * n))
    BY <2>1, <2>2, MulStands
  <2>4. Stands(Mul(p, q), i * k, j * l) /\ Stands(Mul(p, r), i * m, j * n)
    BY <2>1, MulStands
  <2>5. Stands(Add(Mul(p, q), Mul(p, r)), (i * k) * (j * n) + (i * m) * (j * l), (j * l) * (j * n))
    BY <2>1, <2>4, AddStands
  <2> DEFINE a == i * (k * n + m * l)
             b == j * (l * n)
             s == (i * k) * (j * n) + (i * m) * (j * l)
             t == (j * l) * (j * n)
  <2>6. s = j * a /\ t = j * b
    BY <2>1
  <2>7. a \in Int /\ b \in Int /\ b # 0 /\ s \in Int /\ t \in Int /\ t # 0
    BY <2>1
  <2>8. Stands(Mul(p, Add(q, r)), a, b) /\ Stands(Add(Mul(p, q), Mul(p, r)), s, t)
    BY <2>3, <2>5
  <2> HIDE DEF a, b, s, t
  <2>9. b * (j * a) = a * (j * b)
    BY <2>1, <2>7
  <2>10. Stands(Mul(p, Add(q, r)), s, t)
    BY <2>6, <2>7, <2>8, <2>9, SameValue
  <2> QED
    BY <2>7, <2>8, <2>10, StandsUnique
<1>2. CASE ~(IsNumber(p) /\ IsNumber(q) /\ IsNumber(r))
  <2>1. /\ Add(q, r) \in Fraction /\ (IsNumber(Add(q, r)) <=> IsNumber(q) /\ IsNumber(r))
        /\ Mul(p, q) \in Fraction /\ (IsNumber(Mul(p, q)) <=> IsNumber(p) /\ IsNumber(q))
        /\ Mul(p, r) \in Fraction /\ (IsNumber(Mul(p, r)) <=> IsNumber(p) /\ IsNumber(r))
    BY Closed
  <2> QED
    BY <1>2, <2>1, NotANumberStays
<1> QED
  BY <1>1, <1>2

\* Zero is neutral.
LEMMA ZeroIsNeutral ==
  /\ Zero \in Fraction /\ IsNumber(Zero)
  /\ \A p \in Fraction : Add(p, Zero) = p /\ Add(Zero, p) = p /\ Sub(p, Zero) = p
  /\ \A p \in Fraction : IsNumber(p) => Mul(p, Zero) = Zero
<1>1. Stands(Zero, 0, 1)
  BY WholeStands DEF Zero
<1>2. Zero \in Fraction /\ IsNumber(Zero)
  BY <1>1 DEF Stands
<1>3. ASSUME NEW p \in Fraction
      PROVE  Add(p, Zero) = p
  <2>1. CASE IsNumber(p)
    <3> DEFINE i == p[1]
               j == p[2]
    <3>1. i \in Int /\ j \in Nat /\ j # 0 /\ Stands(p, i, j)
      BY <2>1, FractionParts, StandsForItself
    <3> HIDE DEF i, j
    <3>2. Stands(Add(p, Zero), i * 1 + 0 * j, j * 1)
      BY <1>1, <3>1, AddStands
    <3>3. i * 1 + 0 * j = i /\ j * 1 = j
      BY <3>1
    <3> QED
      BY <3>1, <3>2, <3>3, StandsUnique
  <2>2. CASE ~IsNumber(p)
    BY <1>2, <2>2, NotANumberStays, FractionParts
  <2> QED
    BY <2>1, <2>2
<1>4. ASSUME NEW p \in Fraction, IsNumber(p)
      PROVE  Mul(p, Zero) = Zero
  <2> DEFINE i == p[1]
             j == p[2]
  <2>1. i \in Int /\ j \in Nat /\ j # 0 /\ Stands(p, i, j)
    BY <1>4, FractionParts, StandsForItself
  <2> HIDE DEF i, j
  <2>2. Stands(Mul(p, Zero), i * 0, j * 1)
    BY <1>1, <2>1, MulStands
  <2>3. i * 0 = 0 /\ j * 1 = j /\ 1 * 0 = 0 * j
    BY <2>1
  <2>4. Stands(Zero, 0, j)
    BY <1>1, <2>1, <2>3, SameValue
  <2> QED
    BY <2>1, <2>2, <2>3, <2>4, StandsUnique
<1>5. Neg(Zero) = Zero
  <2>1. Zero \in Int \X Nat /\ Zero[1] = 0 /\ Zero[2] = 1 /\ Zero = <<0, 1>>
    BY DEF Zero, Whole
  <2>2. \A n \in Int : -n = 0 - n
    OBVIOUS
  <2>3. -Zero[1] = 0
    <3>1. -Zero[1] = 0 - Zero[1]
      BY <2>1, <2>2
    <3> QED
      BY <2>1, <3>1
  <2>4. Neg(Zero) = <<-Zero[1], Zero[2]>>
    BY DEF Neg
  <2> QED
    BY <2>1, <2>3, <2>4
<1> QED
  BY <1>2, <1>3, <1>4, <1>5, AddCommutes DEF Sub

\* The opposite of a sum.
LEMMA NegDistributes ==
  ASSUME NEW p \in Fraction, NEW q \in Fraction
  PROVE  Neg(Add(p, q)) = Add(Neg(p), Neg(q))
<1>1. CASE IsNumber(p) /\ IsNumber(q)
  <2> DEFINE i == p[1]
             j == p[2]
             k == q[1]
             l == q[2]
  <2>1. /\ i \in Int /\ j \in Nat /\ k \in Int /\ l \in Nat /\ j # 0 /\ l # 0
        /\ Stands(p, i, j) /\ Stands(q, k, l)
    BY <1>1, FractionParts, StandsForItself
  <2> HIDE DEF i, j, k, l
  <2>2. Stands(Add(p, q), i * l + k * j, j * l)
    BY <2>1, AddStands
  <2>3. Stands(Neg(Add(p, q)), -(i * l + k * j), j * l)
    BY <2>1, <2>2, NegStands
  <2>4. Stands(Neg(p), -i, j) /\ Stands(Neg(q), -k, l)
    BY <2>1, NegStands
  <2>5. Stands(Add(Neg(p), Neg(q)), (-i) * l + (-k) * j, j * l)
    BY <2>1, <2>4, AddStands
  <2>6. (-i) * l + (-k) * j = -(i * l + k * j) /\ j * l # 0 /\ j * l \in Int /\ (-i) * l + (-k) * j \in Int
    BY <2>1
  <2> QED
    BY <2>3, <2>5, <2>6, StandsUnique
<1>2. CASE ~(IsNumber(p) /\ IsNumber(q))
  <2>1. Neg(p) \in Fraction /\ Neg(q) \in Fraction /\ ~(IsNumber(Neg(p)) /\ IsNumber(Neg(q)))
    BY <1>2, Closed
  <2> QED
    BY <1>2, <2>1, NotANumberStays, NanIsFraction
<1> QED
  BY <1>1, <1>2

\* Subtracting one after the other subtracts the sum.
LEMMA SubtractsSum ==
  ASSUME NEW p \in Fraction, NEW q \in Fraction, NEW r \in Fraction
  PROVE  Sub(Sub(p, q), r) = Sub(p, Add(q, r))
<1>1. Neg(q) \in Fraction /\ Neg(r) \in Fraction
  BY Closed
<1> QED
  BY <1>1, AddAssociative, NegDistributes DEF Sub

\* A quotient is a fraction, or the NaN.
LEMMA DivClosed ==
  ASSUME NEW p \in Fraction, NEW q \in Fraction
  PROVE  Div(p, q) \in Fraction
<1>1. CASE ~(IsNumber(p) /\ IsNumber(q))
  BY <1>1, NanIsFraction DEF Div
<1>2. CASE IsNumber(p) /\ IsNumber(q)
  <2> DEFINE n == p[1] * q[2]
             d == p[2] * q[1]
  <2>1. n \in Int /\ d \in Int
    BY FractionParts
  <2>2. Div(p, q) = Quotient(n, d)
    BY <1>2 DEF Div
  <2> HIDE DEF n, d
  <2>3. CASE d = 0
    BY <2>2, <2>3, NanIsFraction DEF Quotient
  <2>4. CASE d # 0
    BY <2>1, <2>2, <2>4, QuotientStands DEF Stands
  <2> QED
    BY <2>3, <2>4
<1> QED
  BY <1>1, <1>2

-----------------------------------------------------------------------------
(* Numbers: the fractions that are not the NaN.                             *)

\* The operations on numbers give numbers.
LEMMA NumbersClosed ==
  /\ Zero \in Number /\ One \in Number
  /\ \A p, q \in Number : /\ Add(p, q) \in Number /\ Mul(p, q) \in Number
                          /\ Sub(p, q) \in Number /\ Neg(p) \in Number
<1>1. Zero \in Number
  BY ZeroIsNeutral DEF Number
<1>2. One \in Number
  BY WholeStands DEF One, Stands, Number
<1>3. \A p, q \in Number : Add(p, q) \in Number /\ Mul(p, q) \in Number /\ Neg(p) \in Number
  BY Closed DEF Number
<1> QED
  BY <1>1, <1>2, <1>3 DEF Sub

\* The parts of a number that a proof computes with.
LEMMA NumberParts ==
  ASSUME NEW p \in Number
  PROVE  p[1] \in Int /\ p[2] \in Nat /\ p[2] # 0 /\ Stands(p, p[1], p[2])
BY FractionParts, StandsForItself DEF Number

\* Multiplication of numbers is associative.
LEMMA MulAssociative ==
  ASSUME NEW p \in Number, NEW q \in Number, NEW r \in Number
  PROVE  Mul(Mul(p, q), r) = Mul(p, Mul(q, r))
<1> DEFINE i == p[1]
           j == p[2]
           k == q[1]
           l == q[2]
           a == r[1]
           b == r[2]
<1>1. /\ i \in Int /\ j \in Nat /\ k \in Int /\ l \in Nat /\ a \in Int /\ b \in Nat
      /\ j # 0 /\ l # 0 /\ b # 0
      /\ Stands(p, i, j) /\ Stands(q, k, l) /\ Stands(r, a, b)
  BY NumberParts
<1> HIDE DEF i, j, k, l, a, b
<1>2. i * k \in Int /\ j * l \in Int /\ k * a \in Int /\ l * b \in Int
  BY <1>1
<1>3. Stands(Mul(Mul(p, q), r), (i * k) * a, (j * l) * b)
  BY <1>1, <1>2, MulStands
<1>4. Stands(Mul(p, Mul(q, r)), i * (k * a), j * (l * b))
  BY <1>1, <1>2, MulStands
<1>5. (i * k) * a = i * (k * a) /\ (j * l) * b = j * (l * b)
  BY <1>1
<1>6. j * (l * b) \in Int /\ j * (l * b) # 0 /\ i * (k * a) \in Int
  BY <1>1
<1> QED
  BY <1>3, <1>4, <1>5, <1>6, StandsUnique

\* One is neutral, and zero makes products zero.
LEMMA OneIsNeutral ==
  ASSUME NEW p \in Number
  PROVE  Mul(One, p) = p /\ Mul(p, One) = p /\ Mul(Zero, p) = Zero /\ Mul(p, Zero) = Zero
         /\ Add(p, Zero) = p /\ Add(Zero, p) = p
<1> DEFINE i == p[1]
           j == p[2]
<1>1. i \in Int /\ j \in Nat /\ j # 0 /\ Stands(p, i, j)
  BY NumberParts
<1> HIDE DEF i, j
<1>2. Stands(One, 1, 1)
  BY WholeStands DEF One
<1>3. Stands(Mul(p, One), i * 1, j * 1)
  BY <1>1, <1>2, MulStands
<1>4. i * 1 = i /\ j * 1 = j
  BY <1>1
<1>5. Mul(p, One) = p
  BY <1>1, <1>3, <1>4, StandsUnique
<1> QED
  BY <1>5, NumbersClosed, AddCommutes, ZeroIsNeutral DEF Number

\* Subtraction undoes addition.
LEMMA SubUndoes ==
  ASSUME NEW p \in Number, NEW q \in Number
  PROVE  Sub(p, p) = Zero /\ Add(Sub(p, q), q) = p /\ Sub(Add(p, q), q) = p
<1>1. ASSUME NEW r \in Number
      PROVE  Add(r, Neg(r)) = Zero
  <2> DEFINE i == r[1]
             j == r[2]
  <2>1. i \in Int /\ j \in Nat /\ j # 0 /\ Stands(r, i, j)
    BY NumberParts
  <2> HIDE DEF i, j
  <2>2. Stands(Neg(r), -i, j)
    BY <2>1, NegStands
  <2>3. Stands(Add(r, Neg(r)), i * j + (-i) * j, j * j)
    BY <2>1, <2>2, AddStands
  <2>4. i * j + (-i) * j = 0 /\ j * j \in Int /\ j * j # 0
    BY <2>1
  <2>5. Stands(Zero, 0, 1)
    BY WholeStands DEF Zero
  <2>6. Stands(Zero, 0, j * j)
    BY <2>4, <2>5, SameValue
  <2> QED
    BY <2>3, <2>4, <2>6, StandsUnique
<1>2. p \in Fraction /\ q \in Fraction /\ Neg(q) \in Fraction /\ Neg(q) \in Number
  BY NumbersClosed DEF Number
<1>3. Add(Neg(q), q) = Zero
  BY <1>1, <1>2, AddCommutes
<1>4. Add(Add(p, Neg(q)), q) = Add(p, Add(Neg(q), q)) /\ Add(Add(p, q), Neg(q)) = Add(p, Add(q, Neg(q)))
  BY <1>2, AddAssociative
<1> QED
  BY <1>1, <1>2, <1>3, <1>4, OneIsNeutral DEF Sub

\* Only the zero is 0.
LEMMA ZeroIsZero ==
  ASSUME NEW p \in Number, p # Zero
  PROVE  p[1] # 0
<1> SUFFICES ASSUME p[1] = 0 PROVE FALSE
  OBVIOUS
<1>1. Zero \in Fraction /\ IsNumber(Zero) /\ p \in Fraction /\ IsNumber(p)
  BY NumbersClosed DEF Number
<1>2. Zero[1] = 0 /\ Zero[2] = 1
  BY DEF Zero, Whole
<1>3. p[1] * Zero[2] = Zero[1] * p[2]
  BY <1>2, NumberParts
<1> QED
  BY <1>1, <1>3, FractionUnique

\* Division by what is not zero undoes multiplication.
LEMMA DivUndoes ==
  ASSUME NEW p \in Number, NEW q \in Number, q # Zero
  PROVE  Div(p, q) \in Number /\ Mul(q, Div(p, q)) = p /\ Mul(Div(p, q), q) = p
<1> DEFINE i == p[1]
           j == p[2]
           k == q[1]
           l == q[2]
<1>1. /\ i \in Int /\ j \in Nat /\ k \in Int /\ l \in Nat /\ j # 0 /\ l # 0 /\ k # 0
      /\ Stands(p, i, j) /\ Stands(q, k, l)
  BY NumberParts, ZeroIsZero
<1>2. Div(p, q) = Quotient(i * l, j * k)
  BY DEF Div, Number
<1> HIDE DEF i, j, k, l
<1>3. i * l \in Int /\ j * k \in Int /\ j * k # 0 /\ l * (j * k) \in Int /\ l * (j * k) # 0
  BY <1>1
<1>4. Stands(Div(p, q), i * l, j * k)
  BY <1>2, <1>3, QuotientStands
<1>5. Div(p, q) \in Number
  BY <1>4 DEF Stands, Number
<1>6. Stands(Mul(q, Div(p, q)), k * (i * l), l * (j * k))
  BY <1>1, <1>3, <1>4, MulStands
<1>7. k * (i * l) \in Int /\ (l * (j * k)) * i = (k * (i * l)) * j
  BY <1>1
<1>8. Stands(Mul(q, Div(p, q)), i, j)
  BY <1>1, <1>3, <1>6, <1>7, SameValue
<1>9. Mul(q, Div(p, q)) = p
  BY <1>1, <1>8, StandsUnique
<1> QED
  BY <1>5, <1>9, AddCommutes DEF Number

-----------------------------------------------------------------------------
(* Loops. f holds what a loop from lo leaves after each iteration up to hi. *)

Loop(f, start, step, lo, hi) ==
  \A i \in lo - 1 .. hi : f[i] = IF i < lo THEN start ELSE step[<<f[i - 1], i>>]

\* There is a function of the states the loop passes through.
LEMMA LoopExists ==
  ASSUME NEW S, NEW start \in S, NEW step \in [S \X Int -> S], NEW lo \in Int, NEW hi \in Int
  PROVE  \E f \in [lo - 1 .. hi -> S] : Loop(f, start, step, lo, hi)
<1> DEFINE T == {k \in Nat : \E f \in [lo - 1 .. lo - 1 + k -> S] : Loop(f, start, step, lo, lo - 1 + k)}
<1>1. 0 \in T
  <2> DEFINE f == [i \in lo - 1 .. lo - 1 + 0 |-> start]
  <2>1. f \in [lo - 1 .. lo - 1 + 0 -> S] /\ Loop(f, start, step, lo, lo - 1 + 0)
    BY DEF Loop
  <2> QED
    BY <2>1
<1>2. ASSUME NEW k \in T PROVE k + 1 \in T
  <2> DEFINE m == lo + k
  <2>1. PICK f \in [lo - 1 .. m - 1 -> S] : Loop(f, start, step, lo, m - 1)
    <3>1. lo - 1 + k = m - 1
      OBVIOUS
    <3> QED
      BY <3>1
  <2> DEFINE g == [i \in lo - 1 .. m |-> IF i = m THEN step[<<f[m - 1], m>>] ELSE f[i]]
  <2>2. m \in Int /\ m - 1 \in lo - 1 .. m - 1 /\ m >= lo /\ lo - 1 + (k + 1) = m
    OBVIOUS
  <2> HIDE DEF m
  <2>3. step[<<f[m - 1], m>>] \in S
    BY <2>2
  <2>4. \A i \in lo - 1 .. m : i # m => i \in lo - 1 .. m - 1
    BY <2>2
  <2>5. g \in [lo - 1 .. m -> S]
    BY <2>3, <2>4
  <2>6. ASSUME NEW i \in lo - 1 .. m
        PROVE  g[i] = IF i < lo THEN start ELSE step[<<g[i - 1], i>>]
    <3>1. CASE i = m
      <4>1. g[i] = step[<<f[m - 1], m>>] /\ g[i - 1] = f[m - 1] /\ ~(i < lo)
        BY <2>2, <3>1
      <4> QED
        BY <3>1, <4>1
    <3>2. CASE i # m
      <4>1. i \in lo - 1 .. m - 1 /\ g[i] = f[i]
        BY <2>4, <3>2
      <4>2. CASE i < lo
        BY <2>1, <4>1, <4>2 DEF Loop
      <4>3. CASE ~(i < lo)
        <5>1. i - 1 \in lo - 1 .. m /\ i - 1 # m
          BY <2>2, <4>1, <4>3
        <5>2. g[i - 1] = f[i - 1]
          BY <5>1
        <5> QED
          BY <2>1, <4>1, <4>3, <5>2 DEF Loop
      <4> QED
        BY <4>2, <4>3
    <3> QED
      BY <3>1, <3>2
  <2> HIDE DEF g
  <2>7. Loop(g, start, step, lo, m)
    BY <2>6 DEF Loop
  <2> QED
    BY <2>2, <2>5, <2>7
<1> HIDE DEF T
<1>3. Nat \subseteq T
  BY <1>1, <1>2, Induct DEF T
<1>4. CASE hi >= lo - 1
  <2>1. hi - (lo - 1) \in Nat /\ lo - 1 + (hi - (lo - 1)) = hi
    BY <1>4
  <2>2. hi - (lo - 1) \in T
    BY <1>3, <2>1
  <2> QED
    BY <2>1, <2>2 DEF T
<1>5. CASE ~(hi >= lo - 1)
  <2>1. lo - 1 .. hi = {}
    BY <1>5
  <2> DEFINE f == [i \in lo - 1 .. hi |-> start]
  <2>2. f \in [lo - 1 .. hi -> S] /\ Loop(f, start, step, lo, hi)
    BY <2>1 DEF Loop
  <2> QED
    BY <2>2
<1> QED
  BY <1>4, <1>5

\* What every iteration keeps holds after each of them.
LEMMA UpInduct ==
  ASSUME NEW lo \in Int, NEW hi \in Int, NEW T, lo - 1 \in T, \A i \in lo .. hi : i - 1 \in T => i \in T
  PROVE  lo - 1 .. hi \subseteq T
<1> DEFINE U == {k \in Nat : lo - 1 + k <= hi => lo - 1 + k \in T}
<1>1. 0 \in U
  OBVIOUS
<1>2. ASSUME NEW k \in U PROVE k + 1 \in U
  <2> SUFFICES ASSUME lo - 1 + (k + 1) <= hi PROVE lo - 1 + (k + 1) \in T
    OBVIOUS
  <2>1. lo + k \in lo .. hi /\ (lo + k) - 1 = lo - 1 + k /\ lo - 1 + (k + 1) = lo + k
    OBVIOUS
  <2> QED
    BY <2>1
<1> HIDE DEF U
<1>3. Nat \subseteq U
  BY <1>1, <1>2, Induct DEF U
<1> SUFFICES ASSUME NEW i \in lo - 1 .. hi PROVE i \in T
  OBVIOUS
<1>4. i - (lo - 1) \in Nat /\ lo - 1 + (i - (lo - 1)) = i /\ i <= hi
  OBVIOUS
<1>5. i - (lo - 1) \in U
  BY <1>3, <1>4
<1> QED
  BY <1>4, <1>5 DEF U

\* body leads from Stage[i - 1] to Stage[i], from start on.
Leads(lo, hi, start, body, Stage) ==
  /\ start \in Stage[lo - 1]
  /\ \A i \in lo .. hi : \A s \in Stage[i - 1] : body[<<s, i>>] \in Stage[i]

\* f is what a loop leaves after each iteration.
Runs(f, lo, hi, start, body) == f = [i \in lo - 1 .. hi |-> IF i < lo THEN start ELSE body[<<f[i - 1], i>>]]

\* A loop whose iterations lead from Stage[i - 1] to Stage[i] has a run.
LEMMA LoopRuns ==
  ASSUME NEW lo \in Int, NEW hi \in Int, NEW S, NEW start, NEW body, NEW Stage,
         start \in S, Leads(lo, hi, start, body, Stage), \A i \in lo - 1 .. hi : Stage[i] \subseteq S
  PROVE  \E f : Runs(f, lo, hi, start, body) /\ \A i \in lo - 1 .. hi : f[i] \in Stage[i]
<1> start \in Stage[lo - 1] /\ \A i \in lo .. hi : \A s \in Stage[i - 1] : body[<<s, i>>] \in Stage[i]
  BY DEF Leads
<1> USE DEF Runs
<1> DEFINE step == [q \in S \X Int |-> IF body[q] \in S THEN body[q] ELSE start]
<1>1. step \in [S \X Int -> S]
  OBVIOUS
<1>2. \A s \in S, i \in Int : body[<<s, i>>] \in S => step[<<s, i>>] = body[<<s, i>>]
  OBVIOUS
<1> HIDE DEF step
<1>3. PICK f \in [lo - 1 .. hi -> S] : Loop(f, start, step, lo, hi)
  BY <1>1, LoopExists
<1> DEFINE T == {i \in lo - 1 .. hi : /\ f[i] \in Stage[i]
                                      /\ f[i] = IF i < lo THEN start ELSE body[<<f[i - 1], i>>]}
<1>4. CASE hi < lo - 1
  <2>1. lo - 1 .. hi = {}
    BY <1>4
  <2>2. f = [i \in lo - 1 .. hi |-> IF i < lo THEN start ELSE body[<<f[i - 1], i>>]]
    BY <2>1
  <2> QED
    BY <2>1, <2>2
<1>5. CASE ~(hi < lo - 1)
  <2>1. lo - 1 \in T
    <3>1. lo - 1 \in lo - 1 .. hi /\ lo - 1 < lo
      BY <1>5
    <3>2. f[lo - 1] = start
      BY <1>3, <3>1 DEF Loop
    <3> QED
      BY <3>1, <3>2
  <2>2. ASSUME NEW i \in lo .. hi, i - 1 \in T PROVE i \in T
    <3>1. i \in lo - 1 .. hi /\ i - 1 \in lo - 1 .. hi /\ ~(i < lo) /\ f[i - 1] \in Stage[i - 1] /\ i \in Int
      BY <2>2
    <3>2. body[<<f[i - 1], i>>] \in Stage[i] /\ Stage[i] \subseteq S /\ f[i - 1] \in S
      BY <3>1
    <3>3. f[i] = step[<<f[i - 1], i>>]
      BY <1>3, <3>1 DEF Loop
    <3>4. f[i] = body[<<f[i - 1], i>>]
      BY <1>2, <3>1, <3>2, <3>3
    <3> QED
      BY <3>1, <3>2, <3>4
  <2>3. lo - 1 .. hi \subseteq T
    <3> HIDE DEF T
    <3> QED
      BY <2>1, <2>2, UpInduct
  <2>4. \A i \in lo - 1 .. hi : f[i] \in Stage[i] /\ f[i] = IF i < lo THEN start ELSE body[<<f[i - 1], i>>]
    BY <2>3
  <2> HIDE DEF T
  <2>5. f = [i \in lo - 1 .. hi |-> IF i < lo THEN start ELSE body[<<f[i - 1], i>>]]
    BY <2>4
  <2> QED
    BY <2>4, <2>5
<1> QED
  BY <1>4, <1>5

\* What leads from one stage to the next passes them all.
LEMMA StagesHold ==
  ASSUME NEW lo \in Int, NEW hi \in Int, NEW f, NEW Stage,
         f[lo - 1] \in Stage[lo - 1],
         \A i \in lo .. hi : f[i - 1] \in Stage[i - 1] => f[i] \in Stage[i]
  PROVE  \A i \in lo - 1 .. hi : f[i] \in Stage[i]
<1> DEFINE T == {i \in Int : f[i] \in Stage[i]}
<1>1. lo - 1 \in T
  OBVIOUS
<1>2. \A i \in lo .. hi : i - 1 \in T => i \in T
  OBVIOUS
<1> HIDE DEF T
<1>3. lo - 1 .. hi \subseteq T
  BY <1>1, <1>2, UpInduct
<1> QED
  BY <1>3 DEF T

-----------------------------------------------------------------------------
(* Sums. s holds the partial sums of v[lo], v[lo + 1], ...                  *)

Sums(s, v, lo, hi) ==
  \A i \in lo - 1 .. hi : s[i] = IF i < lo THEN Zero ELSE Add(s[i - 1], v[i])

\* Partial sums of fractions exist.
LEMMA SumsExist ==
  ASSUME NEW lo \in Int, NEW hi \in Int, NEW v \in [lo .. hi -> Fraction]
  PROVE  \E s \in [lo - 1 .. hi -> Fraction] : Sums(s, v, lo, hi)
<1> DEFINE step == [q \in Fraction \X Int |->
                      IF q[2] \in lo .. hi THEN Add(q[1], v[q[2]]) ELSE Zero]
<1>1. step \in [Fraction \X Int -> Fraction]
  BY Closed, ZeroIsNeutral
<1>2. \A p \in Fraction, i \in lo .. hi : step[<<p, i>>] = Add(p, v[i])
  OBVIOUS
<1> HIDE DEF step
<1>3. PICK s \in [lo - 1 .. hi -> Fraction] : Loop(s, Zero, step, lo, hi)
  BY <1>1, ZeroIsNeutral, LoopExists
<1>4. ASSUME NEW i \in lo - 1 .. hi
      PROVE  s[i] = IF i < lo THEN Zero ELSE Add(s[i - 1], v[i])
  <2>1. CASE i < lo
    BY <1>3, <2>1 DEF Loop
  <2>2. CASE ~(i < lo)
    <3>1. i \in lo .. hi /\ i - 1 \in lo - 1 .. hi
      BY <2>2
    <3>2. s[i] = step[<<s[i - 1], i>>]
      BY <1>3, <2>2 DEF Loop
    <3> QED
      BY <1>2, <2>2, <3>1, <3>2
  <2> QED
    BY <2>1, <2>2
<1> QED
  BY <1>4 DEF Sums

\* Sums of the same terms are the same, as far as both go.
LEMMA SumsAgree ==
  ASSUME NEW lo \in Int, NEW hi \in Int, NEW v, NEW w, NEW s, NEW t,
         Sums(s, v, lo, hi), Sums(t, w, lo, hi), \A i \in lo .. hi : v[i] = w[i]
  PROVE  \A i \in lo - 1 .. hi : s[i] = t[i]
<1> DEFINE T == {k \in Nat : lo - 1 + k <= hi => s[lo - 1 + k] = t[lo - 1 + k]}
<1>1. 0 \in T
  <2> SUFFICES ASSUME lo - 1 <= hi PROVE s[lo - 1] = t[lo - 1]
    OBVIOUS
  <2>1. lo - 1 \in lo - 1 .. hi /\ lo - 1 < lo
    OBVIOUS
  <2>2. s[lo - 1] = Zero /\ t[lo - 1] = Zero
    BY <2>1 DEF Sums
  <2> QED
    BY <2>2
<1>2. ASSUME NEW k \in T PROVE k + 1 \in T
  <2> DEFINE i == lo + k
  <2> SUFFICES ASSUME i <= hi PROVE s[i] = t[i]
    BY <1>2
  <2>1. i \in lo - 1 .. hi /\ i \in lo .. hi /\ ~(i < lo) /\ i - 1 = lo - 1 + k /\ i - 1 <= hi
    OBVIOUS
  <2>2. s[i - 1] = t[i - 1] /\ v[i] = w[i]
    BY <1>2, <2>1
  <2>3. s[i] = Add(s[i - 1], v[i]) /\ t[i] = Add(t[i - 1], w[i])
    BY <2>1 DEF Sums
  <2> QED
    BY <2>2, <2>3
<1> HIDE DEF T
<1>3. Nat \subseteq T
  BY <1>1, <1>2, Induct DEF T
<1> TAKE i \in lo - 1 .. hi
<1>4. i - (lo - 1) \in Nat /\ lo - 1 + (i - (lo - 1)) = i /\ i <= hi
  OBVIOUS
<1>5. i - (lo - 1) \in T
  BY <1>3, <1>4
<1> QED
  BY <1>4, <1>5 DEF T

-----------------------------------------------------------------------------
(* Sums of numbers, as values: v[lo] + ... + v[hi].                         *)

Total(v, lo, hi) == (CHOOSE s : s \in [lo - 1 .. hi -> Number] /\ Sums(s, v, lo, hi))[hi]

Numbers(v, lo, hi) == \A k \in lo .. hi : v[k] \in Number

\* Those of numbers are numbers.
LEMMA NumberSumsExist ==
  ASSUME NEW lo \in Int, NEW hi \in Int, NEW v, Numbers(v, lo, hi)
  PROVE  \E s \in [lo - 1 .. hi -> Number] : Sums(s, v, lo, hi)
<1> DEFINE step == [q \in Number \X Int |->
                      IF q[2] \in lo .. hi THEN Add(q[1], v[q[2]]) ELSE Zero]
<1>1. step \in [Number \X Int -> Number]
  BY NumbersClosed DEF Numbers
<1>2. \A p \in Number, i \in lo .. hi : step[<<p, i>>] = Add(p, v[i])
  OBVIOUS
<1> HIDE DEF step
<1>3. PICK s \in [lo - 1 .. hi -> Number] : Loop(s, Zero, step, lo, hi)
  BY <1>1, NumbersClosed, LoopExists
<1>4. ASSUME NEW i \in lo - 1 .. hi
      PROVE  s[i] = IF i < lo THEN Zero ELSE Add(s[i - 1], v[i])
  <2>1. CASE i < lo
    BY <1>3, <2>1 DEF Loop
  <2>2. CASE ~(i < lo)
    <3>1. i \in lo .. hi /\ i - 1 \in lo - 1 .. hi
      BY <2>2
    <3>2. s[i] = step[<<s[i - 1], i>>]
      BY <1>3, <2>2 DEF Loop
    <3> QED
      BY <1>2, <2>2, <3>1, <3>2
  <2> QED
    BY <2>1, <2>2
<1> QED
  BY <1>4 DEF Sums

\* Partial sums are totals, whoever computes them.
LEMMA TotalIs ==
  ASSUME NEW lo \in Int, NEW hi \in Int, lo - 1 <= hi, NEW v, Numbers(v, lo, hi),
         NEW s, Sums(s, v, lo, hi)
  PROVE  /\ Total(v, lo, hi) = s[hi] /\ s[hi] \in Number
         /\ \A j \in lo - 1 .. hi : Total(v, lo, j) = s[j] /\ s[j] \in Number
<1> SUFFICES ASSUME NEW j \in lo - 1 .. hi
             PROVE  Total(v, lo, j) = s[j] /\ s[j] \in Number
  OBVIOUS
<1> DEFINE P(t) == t \in [lo - 1 .. j -> Number] /\ Sums(t, v, lo, j)
           t0 == CHOOSE t : P(t)
<1>1. j \in Int /\ j \in lo - 1 .. j /\ \A k \in lo .. j : k \in lo .. hi
  OBVIOUS
<1>2. \E t : P(t)
  BY <1>1, NumberSumsExist DEF Numbers
<1>3. Total(v, lo, j) = t0[j]
  BY DEF Total
<1> HIDE DEF P
<1>4. P(t0)
  BY <1>2
<1> HIDE DEF t0
<1>5. t0 \in [lo - 1 .. j -> Number] /\ Sums(t0, v, lo, j)
  BY <1>4 DEF P
<1>6. Sums(s, v, lo, j)
  BY DEF Sums
<1>7. t0[j] = s[j]
  BY <1>1, <1>5, <1>6, SumsAgree
<1> QED
  BY <1>1, <1>3, <1>5, <1>7

\* A sum of numbers is a number.
LEMMA TotalType ==
  ASSUME NEW lo \in Int, NEW hi \in Int, lo - 1 <= hi, NEW v, Numbers(v, lo, hi)
  PROVE  Total(v, lo, hi) \in Number
BY NumberSumsExist, TotalIs

\* The empty sum is zero.
LEMMA TotalEmpty ==
  ASSUME NEW lo \in Int, NEW hi \in Int, hi = lo - 1, NEW v
  PROVE  Total(v, lo, hi) = Zero
<1>1. Numbers(v, lo, hi)
  BY DEF Numbers
<1>2. PICK s \in [lo - 1 .. hi -> Number] : Sums(s, v, lo, hi)
  BY <1>1, NumberSumsExist
<1>3. hi \in lo - 1 .. hi /\ hi < lo
  OBVIOUS
<1>4. s[hi] = Zero
  BY <1>2, <1>3 DEF Sums
<1> QED
  BY <1>1, <1>2, <1>4, TotalIs

\* The last term apart.
LEMMA TotalLast ==
  ASSUME NEW lo \in Int, NEW hi \in Int, lo <= hi, NEW v, Numbers(v, lo, hi)
  PROVE  Total(v, lo, hi) = Add(Total(v, lo, hi - 1), v[hi])
<1>1. PICK s \in [lo - 1 .. hi -> Number] : Sums(s, v, lo, hi)
  BY NumberSumsExist
<1>2. hi \in lo - 1 .. hi /\ hi - 1 \in lo - 1 .. hi /\ ~(hi < lo)
  OBVIOUS
<1>3. s[hi] = Add(s[hi - 1], v[hi])
  BY <1>1, <1>2 DEF Sums
<1> QED
  BY <1>1, <1>2, <1>3, TotalIs

\* Equal terms have equal sums.
LEMMA TotalAgree ==
  ASSUME NEW lo \in Int, NEW hi \in Int, lo - 1 <= hi, NEW v, NEW w, Numbers(v, lo, hi),
         \A k \in lo .. hi : v[k] = w[k]
  PROVE  Total(v, lo, hi) = Total(w, lo, hi)
<1>1. Numbers(w, lo, hi)
  BY DEF Numbers
<1>2. PICK s \in [lo - 1 .. hi -> Number] : Sums(s, v, lo, hi)
  BY NumberSumsExist
<1>3. PICK t \in [lo - 1 .. hi -> Number] : Sums(t, w, lo, hi)
  BY <1>1, NumberSumsExist
<1>4. s[hi] = t[hi]
  BY <1>2, <1>3, SumsAgree
<1> QED
  BY <1>1, <1>2, <1>3, <1>4, TotalIs

\* The first term apart.
LEMMA TotalFirst ==
  ASSUME NEW lo \in Int, NEW hi \in Int, lo <= hi, NEW v, Numbers(v, lo, hi)
  PROVE  Total(v, lo, hi) = Add(v[lo], Total(v, lo + 1, hi))
<1> DEFINE s == [j \in lo - 1 .. hi |-> IF j < lo THEN Zero ELSE Add(v[lo], Total(v, lo + 1, j))]
<1>1. lo \in lo .. hi /\ lo + 1 \in Int /\ v[lo] \in Number /\ v[lo] \in Fraction
  BY DEF Numbers, Number
<1>2. ASSUME NEW i \in lo - 1 .. hi
      PROVE  s[i] = IF i < lo THEN Zero ELSE Add(s[i - 1], v[i])
  <2>1. CASE i < lo
    BY <2>1
  <2>2. CASE i = lo
    <3>1. i - 1 \in lo - 1 .. hi /\ i - 1 < lo /\ i \in Int /\ i = (lo + 1) - 1
      BY <2>2
    <3>2. s[i - 1] = Zero
      BY <3>1
    <3>3. Total(v, lo + 1, i) = Zero
      BY <1>1, <3>1, TotalEmpty
    <3>4. s[i] = Add(v[lo], Zero)
      BY <2>2, <3>3
    <3> QED
      BY <1>1, <2>2, <3>2, <3>4, OneIsNeutral
  <2>3. CASE lo < i
    <3>1. /\ i - 1 \in lo - 1 .. hi /\ ~(i - 1 < lo) /\ lo + 1 <= i /\ i \in Int /\ i - 1 \in Int
          /\ (lo + 1) - 1 <= i - 1
          /\ Numbers(v, lo + 1, i) /\ Numbers(v, lo + 1, i - 1)
          /\ v[i] \in Number
      BY <2>3 DEF Numbers
    <3>2. s[i] = Add(v[lo], Total(v, lo + 1, i)) /\ s[i - 1] = Add(v[lo], Total(v, lo + 1, i - 1))
      BY <2>3, <3>1
    <3>3. Total(v, lo + 1, i) = Add(Total(v, lo + 1, i - 1), v[i])
      BY <1>1, <3>1, TotalLast
    <3>4. Total(v, lo + 1, i - 1) \in Fraction /\ v[i] \in Fraction
      BY <1>1, <3>1, TotalType DEF Number
    <3>5. Add(v[lo], Add(Total(v, lo + 1, i - 1), v[i])) = Add(Add(v[lo], Total(v, lo + 1, i - 1)), v[i])
      BY <1>1, <3>4, AddAssociative
    <3> HIDE DEF s
    <3> QED
      BY <2>3, <3>2, <3>3, <3>5
  <2> QED
    BY <2>1, <2>2, <2>3
<1>3. s[hi] = Add(v[lo], Total(v, lo + 1, hi))
  OBVIOUS
<1> HIDE DEF s
<1>4. Sums(s, v, lo, hi)
  BY <1>2 DEF Sums
<1>5. Total(v, lo, hi) = s[hi]
  BY <1>4, TotalIs
<1> QED
  BY <1>3, <1>5

\* Sums are linear.
LEMMA TotalLinear ==
  ASSUME NEW lo \in Int, NEW hi \in Int, lo - 1 <= hi, NEW u, NEW v, NEW w, NEW c \in Number,
         Numbers(v, lo, hi), Numbers(w, lo, hi),
         \A k \in lo .. hi : u[k] = Add(v[k], Mul(c, w[k]))
  PROVE  Total(u, lo, hi) = Add(Total(v, lo, hi), Mul(c, Total(w, lo, hi)))
<1>1. Numbers(u, lo, hi)
  BY NumbersClosed DEF Numbers
<1>2. PICK s \in [lo - 1 .. hi -> Number] : Sums(s, v, lo, hi)
  BY NumberSumsExist
<1>3. PICK t \in [lo - 1 .. hi -> Number] : Sums(t, w, lo, hi)
  BY NumberSumsExist
<1> DEFINE r == [j \in lo - 1 .. hi |-> Add(s[j], Mul(c, t[j]))]
<1>4. ASSUME NEW i \in lo - 1 .. hi
      PROVE  r[i] = IF i < lo THEN Zero ELSE Add(r[i - 1], u[i])
  <2>1. CASE i < lo
    <3>1. s[i] = Zero /\ t[i] = Zero
      BY <1>2, <1>3, <2>1 DEF Sums
    <3>2. r[i] = Add(Zero, Mul(c, Zero))
      BY <3>1
    <3> QED
      BY <2>1, <3>2, NumbersClosed, OneIsNeutral
  <2>2. CASE ~(i < lo)
    <3>1. i \in lo .. hi /\ i - 1 \in lo - 1 .. hi
      BY <2>2
    <3> DEFINE a == s[i - 1]
               b == t[i - 1]
               d == v[i]
               e == w[i]
    <3>2. s[i] = Add(a, d) /\ t[i] = Add(b, e)
      BY <1>2, <1>3, <2>2 DEF Sums
    <3>3. r[i] = Add(Add(a, d), Mul(c, Add(b, e))) /\ r[i - 1] = Add(a, Mul(c, b)) /\ u[i] = Add(d, Mul(c, e))
      BY <3>1, <3>2
    <3>4. a \in Number /\ b \in Number /\ d \in Number /\ e \in Number
      BY <3>1 DEF Numbers
    <3> HIDE DEF a, b, d, e, r
    <3> DEFINE f == Mul(c, b)
               g == Mul(c, e)
    <3>5. f \in Number /\ g \in Number
      BY <3>4, NumbersClosed
    <3>6. Mul(c, Add(b, e)) = Add(f, g)
      BY <3>4, Distributes DEF Number
    <3> HIDE DEF f, g
    <3>7. a \in Fraction /\ d \in Fraction /\ f \in Fraction /\ g \in Fraction
      BY <3>4, <3>5 DEF Number
    <3>8. Add(Add(a, d), Add(f, g)) = Add(Add(a, f), Add(d, g))
      <4>1. Add(d, g) \in Fraction /\ Add(f, g) \in Fraction
        BY <3>7, Closed
      <4>2. Add(Add(a, d), Add(f, g)) = Add(a, Add(d, Add(f, g)))
        BY <3>7, <4>1, AddAssociative
      <4>3. Add(d, Add(f, g)) = Add(Add(d, f), g) /\ Add(d, f) = Add(f, d)
        BY <3>7, AddAssociative, AddCommutes
      <4>4. Add(Add(f, d), g) = Add(f, Add(d, g))
        BY <3>7, AddAssociative
      <4>5. Add(a, Add(f, Add(d, g))) = Add(Add(a, f), Add(d, g))
        BY <3>7, <4>1, AddAssociative
      <4> QED
        BY <4>2, <4>3, <4>4, <4>5
    <3>9. r[i - 1] = Add(a, f) /\ u[i] = Add(d, g)
      BY <3>3 DEF f, g
    <3> QED
      BY <2>2, <3>3, <3>6, <3>8, <3>9
  <2> QED
    BY <2>1, <2>2
<1>5. r[hi] = Add(s[hi], Mul(c, t[hi]))
  OBVIOUS
<1> HIDE DEF r
<1>6. Sums(r, u, lo, hi)
  BY <1>4 DEF Sums
<1>7. Total(u, lo, hi) = r[hi] /\ Total(v, lo, hi) = s[hi] /\ Total(w, lo, hi) = t[hi]
  BY <1>1, <1>2, <1>3, <1>6, TotalIs
<1> QED
  BY <1>5, <1>7

\* Zeros at the front do not count.
LEMMA TotalDropsZeros ==
  ASSUME NEW lo \in Int, NEW mid \in Int, NEW hi \in Int, lo <= mid, mid <= hi + 1,
         NEW v, Numbers(v, lo, hi), \A k \in lo .. mid - 1 : v[k] = Zero
  PROVE  Total(v, lo, hi) = Total(v, mid, hi)
<1> DEFINE T == {k \in Nat : lo + k <= mid => Total(v, lo, hi) = Total(v, lo + k, hi)}
<1>1. 0 \in T
  OBVIOUS
<1>2. ASSUME NEW k \in T PROVE k + 1 \in T
  <2> SUFFICES ASSUME lo + (k + 1) <= mid
               PROVE  Total(v, lo, hi) = Total(v, lo + (k + 1), hi)
    OBVIOUS
  <2> DEFINE i == lo + k
  <2>1. /\ i \in Int /\ i <= hi /\ i \in lo .. mid - 1 /\ i + 1 = lo + (k + 1) /\ i <= mid
        /\ lo <= i /\ (i + 1) - 1 <= hi /\ i + 1 \in Int
    OBVIOUS
  <2>2. Total(v, lo, hi) = Total(v, i, hi)
    OBVIOUS
  <2> HIDE DEF i
  <2>3. Numbers(v, i, hi) /\ Numbers(v, i + 1, hi)
    BY <2>1 DEF Numbers
  <2>4. Total(v, i, hi) = Add(v[i], Total(v, i + 1, hi)) /\ v[i] = Zero
    BY <2>1, <2>3, TotalFirst
  <2>5. Total(v, i + 1, hi) \in Number
    BY <2>1, <2>3, TotalType
  <2> QED
    BY <2>1, <2>2, <2>4, <2>5, OneIsNeutral
<1> HIDE DEF T
<1>3. Nat \subseteq T
  BY <1>1, <1>2, Induct DEF T
<1>4. mid - lo \in Nat /\ lo + (mid - lo) = mid
  OBVIOUS
<1>5. mid - lo \in T
  BY <1>3, <1>4
<1> QED
  BY <1>4, <1>5 DEF T

\* Nor do zeros at the end.
LEMMA TotalStops ==
  ASSUME NEW lo \in Int, NEW mid \in Int, NEW hi \in Int, lo - 1 <= mid, mid <= hi,
         NEW v, Numbers(v, lo, hi), \A k \in mid + 1 .. hi : v[k] = Zero
  PROVE  Total(v, lo, hi) = Total(v, lo, mid)
<1> DEFINE T == {k \in Nat : mid + k <= hi => Total(v, lo, mid + k) = Total(v, lo, mid)}
<1>1. 0 \in T
  OBVIOUS
<1>2. ASSUME NEW k \in T PROVE k + 1 \in T
  <2> SUFFICES ASSUME mid + (k + 1) <= hi
               PROVE  Total(v, lo, mid + (k + 1)) = Total(v, lo, mid)
    OBVIOUS
  <2> DEFINE i == mid + (k + 1)
  <2>1. /\ i \in Int /\ i \in mid + 1 .. hi /\ i - 1 = mid + k /\ i - 1 <= hi /\ lo <= i
        /\ i - 1 \in Int /\ lo - 1 <= i - 1
    OBVIOUS
  <2>2. Total(v, lo, i - 1) = Total(v, lo, mid)
    BY <2>1
  <2> HIDE DEF i
  <2>3. Numbers(v, lo, i) /\ Numbers(v, lo, i - 1)
    BY <2>1 DEF Numbers
  <2>4. Total(v, lo, i) = Add(Total(v, lo, i - 1), v[i]) /\ v[i] = Zero
    BY <2>1, <2>3, TotalLast
  <2>5. Total(v, lo, i - 1) \in Number
    BY <2>1, <2>3, TotalType
  <2>6. Total(v, lo, i) = Total(v, lo, mid)
    BY <2>2, <2>4, <2>5, OneIsNeutral
  <2> QED
    BY <2>6 DEF i
<1> HIDE DEF T
<1>3. Nat \subseteq T
  BY <1>1, <1>2, Induct DEF T
<1>4. hi - mid \in Nat /\ mid + (hi - mid) = hi
  OBVIOUS
<1>5. hi - mid \in T
  BY <1>3, <1>4
<1> QED
  BY <1>4, <1>5 DEF T

\* A product is zero only if a factor is.
LEMMA MulZero ==
  ASSUME NEW p \in Number, NEW q \in Number, p # Zero, Mul(p, q) = Zero
  PROVE  q = Zero
<1>1. Div(One, p) \in Number /\ Mul(Div(One, p), p) = One
  BY NumbersClosed, DivUndoes
<1> DEFINE r == Div(One, p)
<1>2. Mul(Mul(r, p), q) = Mul(r, Mul(p, q))
  BY <1>1, MulAssociative
<1> HIDE DEF r
<1>3. Mul(One, q) = Mul(r, Zero)
  BY <1>1, <1>2 DEF r
<1> QED
  BY <1>1, <1>3, OneIsNeutral DEF r

\* The sum of zeros is zero.
LEMMA TotalOfZeros ==
  ASSUME NEW lo \in Int, NEW hi \in Int, lo - 1 <= hi, NEW v, \A k \in lo .. hi : v[k] = Zero
  PROVE  Total(v, lo, hi) = Zero
<1>1. Numbers(v, lo, hi)
  BY NumbersClosed DEF Numbers
<1>2. Total(v, lo, hi) = Total(v, lo, lo - 1)
  <2>1. lo - 1 \in Int /\ lo - 1 <= lo - 1 /\ \A k \in (lo - 1) + 1 .. hi : v[k] = Zero
    OBVIOUS
  <2> QED
    BY <1>1, <2>1, TotalStops
<1>3. Total(v, lo, lo - 1) = Zero
  BY TotalEmpty
<1> QED
  BY <1>2, <1>3

\* A common factor comes out of the sum.
LEMMA TotalScaled ==
  ASSUME NEW lo \in Int, NEW hi \in Int, lo - 1 <= hi, NEW u, NEW w, NEW c \in Number,
         Numbers(w, lo, hi), \A k \in lo .. hi : u[k] = Mul(c, w[k])
  PROVE  Total(u, lo, hi) = Mul(c, Total(w, lo, hi))
<1> DEFINE v == [k \in lo .. hi |-> Zero]
<1>1. \A k \in lo .. hi : v[k] = Zero /\ Mul(c, w[k]) \in Number
  BY NumbersClosed DEF Numbers
<1>2. Numbers(v, lo, hi)
  BY <1>1, NumbersClosed DEF Numbers
<1> HIDE DEF v
<1>3. \A k \in lo .. hi : u[k] = Add(v[k], Mul(c, w[k]))
  BY <1>1, OneIsNeutral
<1>4. Total(u, lo, hi) = Add(Total(v, lo, hi), Mul(c, Total(w, lo, hi)))
  BY <1>2, <1>3, TotalLinear
<1>5. Total(v, lo, hi) = Zero
  BY <1>1, TotalOfZeros
<1>6. Mul(c, Total(w, lo, hi)) \in Number
  BY TotalType, NumbersClosed
<1> QED
  BY <1>4, <1>5, <1>6, OneIsNeutral

\* The sum of sums.
LEMMA TotalAdds ==
  ASSUME NEW lo \in Int, NEW hi \in Int, lo - 1 <= hi, NEW u, NEW v, NEW w,
         Numbers(v, lo, hi), Numbers(w, lo, hi), \A k \in lo .. hi : u[k] = Add(v[k], w[k])
  PROVE  Total(u, lo, hi) = Add(Total(v, lo, hi), Total(w, lo, hi))
<1>1. \A k \in lo .. hi : u[k] = Add(v[k], Mul(One, w[k]))
  BY OneIsNeutral DEF Numbers
<1>2. Total(u, lo, hi) = Add(Total(v, lo, hi), Mul(One, Total(w, lo, hi)))
  BY <1>1, NumbersClosed, TotalLinear
<1> QED
  BY <1>2, TotalType, OneIsNeutral

\* One term that is not zero.
LEMMA TotalSingle ==
  ASSUME NEW lo \in Int, NEW hi \in Int, NEW j \in lo .. hi, NEW v, v[j] \in Number,
         \A k \in lo .. hi : k # j => v[k] = Zero
  PROVE  Total(v, lo, hi) = v[j]
<1>1. Numbers(v, lo, hi) /\ Numbers(v, j, hi)
  BY NumbersClosed DEF Numbers
<1>2. Total(v, lo, hi) = Total(v, j, hi)
  <2>1. j \in Int /\ lo <= j /\ j <= hi + 1 /\ \A k \in lo .. j - 1 : v[k] = Zero
    OBVIOUS
  <2> QED
    BY <1>1, <2>1, TotalDropsZeros
<1>3. Total(v, j, hi) = Add(v[j], Total(v, j + 1, hi))
  <2>1. j \in Int /\ j <= hi
    OBVIOUS
  <2> QED
    BY <1>1, <2>1, TotalFirst
<1>4. Total(v, j + 1, hi) = Zero
  <2>1. j + 1 \in Int /\ (j + 1) - 1 <= hi /\ \A k \in j + 1 .. hi : v[k] = Zero
    OBVIOUS
  <2> QED
    BY <2>1, TotalOfZeros
<1> QED
  BY <1>2, <1>3, <1>4, OneIsNeutral

\* The sum over rows and columns is the sum over columns and rows.
AlongRow(e, h, r) == [i \in 0 .. h - 1 |-> e[<<r, i>>]]
AlongColumn(e, w, i) == [r \in 0 .. w - 1 |-> e[<<r, i>>]]

\* They are the same.
LEMMA TotalSwap ==
  ASSUME NEW h \in Nat, NEW w \in Nat, NEW e, \A r \in 0 .. w - 1, i \in 0 .. h - 1 : e[<<r, i>>] \in Number
  PROVE  Total([r \in 0 .. w - 1 |-> Total(AlongRow(e, h, r), 0, h - 1)], 0, w - 1) =
           Total([i \in 0 .. h - 1 |-> Total(AlongColumn(e, w, i), 0, w - 1)], 0, h - 1)
<1> DEFINE rows == [r \in 0 .. w - 1 |-> Total(AlongRow(e, h, r), 0, h - 1)]
           part(k) == [i \in 0 .. h - 1 |-> Total(AlongColumn(e, w, i), 0, k - 1)]
           T == {k \in Nat : k <= w => Total(rows, 0, k - 1) = Total(part(k), 0, h - 1)}
<1>1. 0 \in Int /\ h - 1 \in Int /\ 0 - 1 <= h - 1 /\ w - 1 \in Int /\ 0 - 1 <= w - 1
  OBVIOUS
<1>2. \A r \in 0 .. w - 1 : Numbers(AlongRow(e, h, r), 0, h - 1) /\ \A i \in 0 .. h - 1 : AlongRow(e, h, r)[i] = e[<<r, i>>]
  BY DEF Numbers, AlongRow
<1>3. \A i \in 0 .. h - 1 : /\ Numbers(AlongColumn(e, w, i), 0, w - 1)
                             /\ \A r \in 0 .. w - 1 : AlongColumn(e, w, i)[r] = e[<<r, i>>]
  BY DEF Numbers, AlongColumn
<1>4. \A r \in 0 .. w - 1 : rows[r] = Total(AlongRow(e, h, r), 0, h - 1)
  OBVIOUS
<1>5. Numbers(rows, 0, w - 1)
  <2>1. \A r \in 0 .. w - 1 : Total(AlongRow(e, h, r), 0, h - 1) \in Number
    BY <1>1, <1>2, TotalType
  <2> QED
    BY <1>4, <2>1 DEF Numbers
<1>6. \A k : \A i \in 0 .. h - 1 : part(k)[i] = Total(AlongColumn(e, w, i), 0, k - 1)
  OBVIOUS
<1> HIDE DEF rows, part
<1>7. 0 \in T
  <2>1. Total(rows, 0, 0 - 1) = Zero
    BY <1>1, TotalEmpty
  <2>2. \A i \in 0 .. h - 1 : part(0)[i] = Zero
    BY <1>1, <1>6, TotalEmpty
  <2>3. Total(part(0), 0, h - 1) = Zero
    BY <1>1, <2>2, TotalOfZeros
  <2> QED
    BY <2>1, <2>3
<1>8. ASSUME NEW k \in T PROVE k + 1 \in T
  <2> SUFFICES ASSUME k + 1 <= w
               PROVE  Total(rows, 0, (k + 1) - 1) = Total(part(k + 1), 0, h - 1)
    OBVIOUS
  <2>1. k \in Nat /\ k \in 0 .. w - 1 /\ (k + 1) - 1 = k /\ k - 1 \in Int /\ 0 - 1 <= k - 1 /\ k <= w /\ 0 <= k /\ k \in Int
    OBVIOUS
  <2>2. Total(rows, 0, k - 1) = Total(part(k), 0, h - 1)
    BY <2>1
  <2> HIDE DEF T
  <2>3. Total(rows, 0, k) = Add(Total(rows, 0, k - 1), Total(AlongRow(e, h, k), 0, h - 1))
    <3>1. Numbers(rows, 0, k)
      BY <1>5, <2>1 DEF Numbers
    <3> QED
      BY <1>1, <1>4, <2>1, <3>1, TotalLast
  <2>4. ASSUME NEW i \in 0 .. h - 1
        PROVE  part(k)[i] \in Number /\ part(k + 1)[i] = Add(part(k)[i], AlongRow(e, h, k)[i])
    <3>1. Numbers(AlongColumn(e, w, i), 0, k) /\ Numbers(AlongColumn(e, w, i), 0, k - 1)
      BY <1>3, <2>1 DEF Numbers
    <3>2. Total(AlongColumn(e, w, i), 0, k) = Add(Total(AlongColumn(e, w, i), 0, k - 1), e[<<k, i>>])
      BY <1>1, <1>3, <2>1, <3>1, TotalLast
    <3>3. Total(AlongColumn(e, w, i), 0, k - 1) \in Number
      BY <1>1, <2>1, <3>1, TotalType
    <3> QED
      BY <1>2, <1>6, <2>1, <3>2, <3>3
  <2>5. Numbers(part(k), 0, h - 1)
    BY <2>4 DEF Numbers
  <2>6. Total(part(k + 1), 0, h - 1) = Add(Total(part(k), 0, h - 1), Total(AlongRow(e, h, k), 0, h - 1))
    BY <1>1, <1>2, <2>1, <2>4, <2>5, TotalAdds
  <2> QED
    BY <2>1, <2>2, <2>3, <2>6
<1> HIDE DEF T
<1>9. w \in T
  BY <1>7, <1>8, Induct DEF T
<1> QED
  BY <1>9 DEF T, rows, part

-----------------------------------------------------------------------------
(* Signs.                                                                   *)

NonNegative == {p \in Number : p[1] >= 0}
Positive == {p \in Number : p[1] > 0}

\* A quotient has the sign of its numerator.
LEMMA StandsSign ==
  ASSUME NEW p, NEW k \in Int, NEW d \in Int, d > 0, Stands(p, k, d)
  PROVE  (k >= 0 => p \in NonNegative) /\ (k > 0 => p \in Positive)
<1> DEFINE a == p[1]
           b == p[2]
<1>1. p \in Number
  BY DEF Stands, Number
<1>2. a \in Int /\ b \in Int /\ b > 0 /\ a * d = k * b
  <2>1. a \in Int /\ b \in Nat /\ b # 0
    BY <1>1, NumberParts
  <2> QED
    BY <2>1 DEF Stands
<1> HIDE DEF a, b
<1>3. ASSUME k >= 0 PROVE a >= 0
  <2> SUFFICES ASSUME a <= -1 PROVE FALSE
    BY <1>2
  <2>1. a * d < 0
    BY <1>2
  <2>2. k * b >= 0
    BY <1>2, <1>3
  <2> QED
    BY <1>2, <2>1, <2>2
<1>4. ASSUME k > 0 PROVE a > 0
  <2> SUFFICES ASSUME a <= 0 PROVE FALSE
    BY <1>2
  <2>1. a * d <= 0
    BY <1>2
  <2>2. k * b > 0
    BY <1>2, <1>4
  <2> QED
    BY <1>2, <2>1, <2>2
<1> QED
  BY <1>1, <1>3, <1>4 DEF NonNegative, Positive, a

\* A sum of numbers that are not negative, and a positive one.
LEMMA SignAdd ==
  ASSUME NEW p \in NonNegative, NEW q \in NonNegative
  PROVE  /\ Add(p, q) \in NonNegative
         /\ (p \in Positive \/ q \in Positive => Add(p, q) \in Positive)
<1> DEFINE a == p[1]
           b == p[2]
           c == q[1]
           d == q[2]
<1>1. /\ a \in Int /\ b \in Int /\ b > 0 /\ a >= 0 /\ Stands(p, a, b)
      /\ c \in Int /\ d \in Int /\ d > 0 /\ c >= 0 /\ Stands(q, c, d)
      /\ (p \in Positive => a > 0) /\ (q \in Positive => c > 0)
  BY NumberParts DEF NonNegative, Positive
<1> HIDE DEF a, b, c, d
<1>2. Stands(Add(p, q), a * d + c * b, b * d)
  BY <1>1, AddStands
<1>3. b * d > 0 /\ a * d >= 0 /\ c * b >= 0 /\ (a > 0 => a * d > 0) /\ (c > 0 => c * b > 0) /\ b * d \in Int
  BY <1>1
<1>4. a * d + c * b >= 0 /\ (p \in Positive \/ q \in Positive => a * d + c * b > 0) /\ a * d + c * b \in Int
  BY <1>1, <1>3
<1> QED
  BY <1>2, <1>3, <1>4, StandsSign

\* Squares are not negative, and products of positive numbers positive.
LEMMA SignMul ==
  ASSUME NEW p \in Number, NEW q \in NonNegative
  PROVE  /\ Mul(p, p) \in NonNegative /\ (p # Zero => Mul(p, p) \in Positive)
         /\ (p \in Positive => Mul(p, q) \in NonNegative)
         /\ (p \in Positive /\ q \in Positive => Mul(p, q) \in Positive)
<1> DEFINE a == p[1]
           b == p[2]
           c == q[1]
           d == q[2]
<1>1. /\ a \in Int /\ b \in Int /\ b > 0 /\ Stands(p, a, b) /\ (p # Zero => a # 0)
      /\ c \in Int /\ d \in Int /\ d > 0 /\ c >= 0 /\ Stands(q, c, d)
      /\ (p \in Positive => a > 0) /\ (q \in Positive => c > 0)
  BY NumberParts, ZeroIsZero DEF NonNegative, Positive
<1> HIDE DEF a, b, c, d
<1>2. Stands(Mul(p, p), a * a, b * b) /\ Stands(Mul(p, q), a * c, b * d)
  BY <1>1, MulStands
<1>3. /\ b * b > 0 /\ b * d > 0 /\ a * a >= 0 /\ (a # 0 => a * a > 0)
      /\ (a > 0 => a * c >= 0) /\ (a > 0 /\ c > 0 => a * c > 0)
      /\ b * b \in Int /\ b * d \in Int /\ a * a \in Int /\ a * c \in Int
  BY <1>1
<1>4. Mul(p, p) \in NonNegative /\ (p # Zero => Mul(p, p) \in Positive)
  BY <1>1, <1>2, <1>3, StandsSign
<1>5. (p \in Positive => Mul(p, q) \in NonNegative) /\ (p \in Positive /\ q \in Positive => Mul(p, q) \in Positive)
  BY <1>1, <1>2, <1>3, StandsSign
<1> QED
  BY <1>4, <1>5

\* A sum without negative terms; one that is positive makes it so.
LEMMA TotalSign ==
  ASSUME NEW h \in Nat, NEW v, \A k \in 0 .. h - 1 : v[k] \in NonNegative
  PROVE  /\ Total(v, 0, h - 1) \in NonNegative
         /\ ((\E k \in 0 .. h - 1 : v[k] \in Positive) => Total(v, 0, h - 1) \in Positive)
<1> DEFINE S(k) == Total(v, 0, k - 1)
           T == {k \in Nat : k <= h => /\ S(k) \in NonNegative
                                      /\ ((\E i \in 0 .. k - 1 : v[i] \in Positive) => S(k) \in Positive)}
<1>1. 0 \in T
  <2>1. S(0) = Zero
    BY TotalEmpty
  <2>2. Zero \in NonNegative
    BY NumbersClosed DEF NonNegative, Zero, Whole
  <2> HIDE DEF S
  <2> QED
    BY <2>1, <2>2
<1>2. ASSUME NEW k \in T PROVE k + 1 \in T
  <2> SUFFICES ASSUME k + 1 <= h
               PROVE  /\ S(k + 1) \in NonNegative
                      /\ ((\E i \in 0 .. (k + 1) - 1 : v[i] \in Positive) => S(k + 1) \in Positive)
    OBVIOUS
  <2>1. k \in Nat /\ k \in 0 .. h - 1 /\ (k + 1) - 1 = k /\ k <= h /\ 0 \in Int /\ k \in Int /\ 0 <= k
        /\ \A i \in 0 .. k : i \in 0 .. k - 1 \/ i = k
    OBVIOUS
  <2>2. S(k) \in NonNegative /\ ((\E i \in 0 .. k - 1 : v[i] \in Positive) => S(k) \in Positive)
    BY <2>1
  <2>3. Total(v, 0, k) = Add(Total(v, 0, k - 1), v[k])
    <3>1. Numbers(v, 0, k)
      BY <2>1 DEF Numbers, NonNegative
    <3> QED
      BY <2>1, <3>1, TotalLast
  <2>4. S(k + 1) = Add(S(k), v[k])
    BY <2>1, <2>3
  <2> HIDE DEF S, T
  <2>5. Add(S(k), v[k]) \in NonNegative /\ (S(k) \in Positive \/ v[k] \in Positive => Add(S(k), v[k]) \in Positive)
    BY <2>1, <2>2, SignAdd
  <2> QED
    BY <2>1, <2>2, <2>4, <2>5
<1> HIDE DEF T
<1>3. h \in T
  BY <1>1, <1>2, Induct DEF T
<1> QED
  BY <1>3 DEF T

-----------------------------------------------------------------------------
(* Cells: row r, column k of an array of rows of width w is cell w * r + k. *)

\* Quotient and remainder of an index by the width of a row.
LEMMA DivMod ==
  ASSUME NEW c \in Int, NEW w \in Nat, w # 0
  PROVE  /\ c \div w \in Int /\ c % w \in 0 .. w - 1
         /\ c = w * (c \div w) + (c % w)
OBVIOUS

\* Row and column of an index are determined.
LEMMA DivModUnique ==
  ASSUME NEW w \in Nat, NEW r \in Int, NEW k \in 0 .. w - 1
  PROVE  (w * r + k) \div w = r /\ (w * r + k) % w = k
<1> DEFINE c == w * r + k
           q == c \div w
           s == c % w
<1>1. w # 0 /\ c \in Int
  OBVIOUS
<1>2. q \in Int /\ s \in 0 .. w - 1 /\ c = w * q + s
  BY <1>1, DivMod
<1>3. w * r + k = w * q + s
  BY <1>2
<1> HIDE DEF q, s, c
<1>4. w * (q - r) = k - s
  BY <1>2, <1>3
<1>5. q - r = 0
  <2>1. CASE q - r >= 1
    <3>1. w * (q - r) >= w
      BY <1>1, <1>2, <2>1
    <3> QED
      BY <1>2, <1>4, <3>1
  <2>2. CASE q - r <= -1
    <3>1. w * (q - r) <= -w
      BY <1>1, <1>2, <2>2
    <3> QED
      BY <1>2, <1>4, <3>1
  <2> QED
    BY <1>2, <2>1, <2>2
<1> QED
  BY <1>2, <1>4, <1>5 DEF c, q, s

\* The cell of a row and a column, and back.
LEMMA CellOf ==
  ASSUME NEW h \in Nat, NEW w \in Nat, NEW r \in Cells(h), NEW k \in Cells(w)
  PROVE  /\ w * r + k \in Cells(h * w) /\ w * r + k \in Int
         /\ (w * r + k) \div w = r /\ (w * r + k) % w = k
<1>1. r \in Nat /\ r <= h - 1 /\ k \in Nat /\ k \in 0 .. w - 1
  BY DEF Cells
<1>2. w * r <= w * (h - 1)
  BY <1>1
<1>3. w * (h - 1) = h * w - w
  OBVIOUS
<1>4. w * r \in Nat
  BY <1>1
<1>5. w * r + k <= h * w - 1 /\ w * r + k >= 0 /\ w * r + k \in Int /\ h * w \in Int
  BY <1>1, <1>2, <1>3, <1>4
<1> QED
  BY <1>1, <1>5, DivModUnique DEF Cells

\* Every cell has a row and a column.
LEMMA PartsOf ==
  ASSUME NEW h \in Nat, NEW w \in Nat, NEW c \in Cells(h * w)
  PROVE  /\ c \div w \in Cells(h) /\ c % w \in Cells(w)
         /\ c = w * (c \div w) + (c % w)
<1>1. c \in Int /\ c >= 0 /\ c <= h * w - 1 /\ w # 0 /\ h * w \in Int
  BY DEF Cells
<1> DEFINE q == c \div w
           s == c % w
<1>2. q \in Int /\ s \in 0 .. w - 1 /\ c = w * q + s
  BY <1>1, DivMod
<1> HIDE DEF q, s
<1>3. q >= 0
  <2> SUFFICES ASSUME q <= -1 PROVE FALSE
    BY <1>2
  <2>1. w * q <= -w
    BY <1>1, <1>2
  <2> QED
    BY <1>1, <1>2, <2>1
<1>4. q <= h - 1
  <2> SUFFICES ASSUME q >= h PROVE FALSE
    BY <1>2
  <2>1. w * q >= w * h /\ w * h = h * w
    BY <1>1, <1>2
  <2> QED
    BY <1>1, <1>2, <2>1
<1> QED
  BY <1>2, <1>3, <1>4 DEF Cells, q, s

\* Indexes compare.
LEMMA CellOrder ==
  ASSUME NEW m \in Nat, NEW i \in Cells(m), NEW k \in Cells(m)
  PROVE  i \in Int /\ k \in Int /\ (i < k \/ i = k \/ i > k)
BY DEF Cells

-----------------------------------------------------------------------------
(* Square roots. Root is exact on squares and no number elsewhere.          *)

\* r is the root of the natural number k.
RootOf(r, k) == IF r = 0 THEN k = 0 ELSE k % r = 0 /\ k \div r = r

\* The test of IsRoot is r * r = k.
LEMMA RootOfSquare ==
  ASSUME NEW r \in Nat, NEW k \in Nat
  PROVE  /\ RootOf(r, k) <=> r * r = k
         /\ RootOf(r, r * r) /\ r \in 0 .. r * r
<1>1. ASSUME r # 0, RootOf(r, k) PROVE r * r = k
  <2>1. k % r = 0 /\ k \div r = r
    BY <1>1 DEF RootOf
  <2>2. k = r * (k \div r) + (k % r)
    <3>1. k \in Int /\ r \in Nat /\ r # 0
      BY <1>1
    <3> QED
      BY <3>1, DivMod, Zenon
  <2> QED
    BY <2>1, <2>2
<1>2. ASSUME r # 0 PROVE RootOf(r, r * r)
  <2>1. 0 \in 0 .. r - 1
    BY <1>2
  <2>2. (r * r + 0) \div r = r /\ (r * r + 0) % r = 0
    BY <2>1, DivModUnique
  <2>3. r * r + 0 = r * r
    OBVIOUS
  <2> QED
    BY <1>2, <2>2, <2>3 DEF RootOf
<1>3. r = 0 => r * r = 0
  OBVIOUS
<1>4. RootOf(r, r * r) /\ (RootOf(r, k) => r * r = k)
  <2>1. CASE r = 0
    BY <2>1 DEF RootOf
  <2>2. CASE r # 0
    BY <1>1, <1>2, <2>2
  <2> QED
    BY <2>1, <2>2
<1>5. r \in 0 .. r * r
  <2>1. CASE r = 0
    BY <2>1
  <2>2. CASE r >= 1
    <3>1. r * r >= r
      BY <2>2
    <3> QED
      BY <3>1
  <2> QED
    BY <2>1, <2>2
<1> QED
  BY <1>4, <1>5

\* What the CHOOSE of Root finds in a square.
LEMMA RootChosen ==
  ASSUME NEW r \in Nat
  PROVE  (CHOOSE s \in 0 .. r * r : RootOf(s, r * r)) = r
<1>1. r \in 0 .. r * r /\ RootOf(r, r * r)
  BY RootOfSquare
<1>2. ASSUME NEW s \in 0 .. r * r, RootOf(s, r * r) PROVE s = r
  <2>1. s \in Nat /\ s * s = r * r
    BY <1>2, RootOfSquare
  <2>2. CASE s < r
    <3>1. s * s <= s * r /\ s * r < r * r
      BY <2>1, <2>2
    <3> QED
      BY <2>1, <3>1
  <2>3. CASE r < s
    <3>1. r * r <= r * s /\ r * s < s * s
      BY <2>1, <2>3
    <3> QED
      BY <2>1, <3>1
  <2> QED
    BY <2>1, <2>2, <2>3
<1> QED
  BY <1>1, <1>2

\* The branch of Root that finds a root.
LEMMA RootFound ==
  ASSUME NEW q, IsNumber(q), NEW r \in Nat, NEW s \in Nat, q[1] = r * r, q[2] = s * s
  PROVE  Root(q) = <<r, s>>
<1>1. r \in 0 .. q[1] /\ RootOf(r, q[1]) /\ s \in 0 .. q[2] /\ RootOf(s, q[2])
  BY RootOfSquare
<1>2. (CHOOSE t \in 0 .. q[1] : RootOf(t, q[1])) = r /\ (CHOOSE t \in 0 .. q[2] : RootOf(t, q[2])) = s
  BY RootChosen
<1>3. \A i \in 1 .. 2 : i = 1 \/ i = 2
  OBVIOUS
<1>4. \A i \in 1 .. 2 : \E t \in 0 .. q[i] : RootOf(t, q[i])
  BY <1>1, <1>3
<1>5. Root(q) = IF IsNumber(q) /\ \A i \in 1 .. 2 : \E t \in 0 .. q[i] : RootOf(t, q[i])
                THEN <<CHOOSE t \in 0 .. q[1] : RootOf(t, q[1]), CHOOSE t \in 0 .. q[2] : RootOf(t, q[2])>>
                ELSE NaN
  BY DEF Root, RootOf
<1> QED
  BY <1>2, <1>4, <1>5

\* The root of a square.
LEMMA RootOfSquares ==
  ASSUME NEW r \in NonNegative
  PROVE  Root(Mul(r, r)) = r
<1> DEFINE a == r[1]
           b == r[2]
<1>1. a \in Nat /\ b \in Nat /\ b # 0 /\ Stands(r, a, b) /\ r = <<a, b>> /\ r \in Fraction /\ IsNumber(r)
  BY NumberParts, FractionParts DEF NonNegative, Number
<1>2. PICK u, v \in Int : u * a + v * b = 1
  BY <1>1, Bezout
<1> HIDE DEF a, b
<1> DEFINE c == a * a
           d == b * b
<1>3. c \in Nat /\ d \in Nat /\ d # 0
  BY <1>1
<1>4. (u * (u * u) * a + 3 * (u * u) * v * b) * c + (3 * u * (v * v) * a + v * (v * v) * b) * d = 1
  <2>1. (u * a + v * b) * ((u * a + v * b) * (u * a + v * b)) = 1
    BY <1>1, <1>2
  <2>2. (u * a + v * b) * ((u * a + v * b) * (u * a + v * b)) =
          (u * (u * u) * a + 3 * (u * u) * v * b) * (a * a) + (3 * u * (v * v) * a + v * (v * v) * b) * (b * b)
    BY <1>1, <1>2
  <2> QED
    BY <2>1, <2>2
<1> DEFINE e == u * (u * u) * a + 3 * (u * u) * v * b
           f == 3 * u * (v * v) * a + v * (v * v) * b
           p == <<c, d>>
<1>5. e \in Int /\ f \in Int
  BY <1>1, <1>2
<1>6. Gcd[<<c, d>>] = 1
  <2>1. e * c + f * d = 1
    BY <1>4
  <2> HIDE DEF c, d, e, f
  <2> QED
    BY <1>3, <1>5, <2>1, CoprimeGcd
<1> HIDE DEF c, d, e, f
<1>7. p \in Fraction /\ IsNumber(p) /\ p[1] = c /\ p[2] = d
  <2>1. Magnitude(c) = c
    BY <1>3 DEF Magnitude
  <2>2. p[1] = c /\ p[2] = d /\ p \in Int \X Nat
    BY <1>3
  <2> HIDE DEF p
  <2>3. IsNumber(p)
    BY <1>3, <2>2 DEF IsNumber
  <2> QED
    BY <1>6, <2>1, <2>2, <2>3 DEF Fraction
<1>8. Stands(p, c, d) /\ Stands(Mul(r, r), c, d)
  <2>1. Stands(Mul(r, r), a * a, b * b)
    BY <1>1, MulStands
  <2>2. Stands(p, p[1], p[2])
    BY <1>7, StandsForItself
  <2> QED
    BY <1>7, <2>1, <2>2 DEF c, d
<1>9. Mul(r, r) = p
  BY <1>3, <1>8, StandsUnique
<1>10. Root(p) = <<a, b>>
  BY <1>1, <1>7, RootFound DEF c, d
<1> QED
  BY <1>1, <1>9, <1>10

\* What has no root has none.
LEMMA RootOrNaN ==
  ASSUME NEW q \in Fraction, ~IsNumber(Root(q))
  PROVE  Root(q) = NaN
<1>1. Root(q) = IF IsNumber(q) /\ \A i \in 1 .. 2 : \E t \in 0 .. q[i] : RootOf(t, q[i])
                THEN <<CHOOSE t \in 0 .. q[1] : RootOf(t, q[1]), CHOOSE t \in 0 .. q[2] : RootOf(t, q[2])>>
                ELSE NaN
  BY DEF Root, RootOf
<1>2. ASSUME IsNumber(q), NEW a \in 0 .. q[1], RootOf(a, q[1]), NEW b \in 0 .. q[2], RootOf(b, q[2])
      PROVE  IsNumber(Root(q))
  <2>1. q[1] \in Int /\ q[2] \in Nat /\ q[2] # 0 /\ a \in Nat /\ b \in Nat /\ q[1] \in Nat
    BY <1>2, FractionParts
  <2>2. q[1] = a * a /\ q[2] = b * b
    BY <1>2, <2>1, RootOfSquare
  <2>3. b # 0
    BY <2>1, <2>2
  <2>4. Root(q) = <<a, b>>
    BY <1>2, <2>1, <2>2, RootFound
  <2> QED
    BY <2>3, <2>4 DEF IsNumber
<1>3. 1 \in 1 .. 2 /\ 2 \in 1 .. 2
  OBVIOUS
<1> QED
  BY <1>1, <1>2, <1>3

\* What is returned as a root is one.
LEMMA RootSquared ==
  ASSUME NEW q \in Fraction, IsNumber(Root(q))
  PROVE  q \in Number /\ Root(q) \in NonNegative /\ Mul(Root(q), Root(q)) = q
<1>1. Root(q) = IF IsNumber(q) /\ \A i \in 1 .. 2 : \E t \in 0 .. q[i] : RootOf(t, q[i])
                THEN <<CHOOSE t \in 0 .. q[1] : RootOf(t, q[1]), CHOOSE t \in 0 .. q[2] : RootOf(t, q[2])>>
                ELSE NaN
  BY DEF Root, RootOf
<1>2. IsNumber(q) /\ \A i \in 1 .. 2 : \E t \in 0 .. q[i] : RootOf(t, q[i])
  BY <1>1, NanIsFraction
<1>3. PICK a \in 0 .. q[1] : RootOf(a, q[1])
  BY <1>2
<1>4. PICK b \in 0 .. q[2] : RootOf(b, q[2])
  BY <1>2
<1>5. q[1] \in Int /\ q[2] \in Nat /\ q[2] # 0 /\ a \in Nat /\ b \in Nat /\ q[1] \in Nat
  BY <1>2, <1>3, <1>4, FractionParts
<1>6. q[1] = a * a /\ q[2] = b * b /\ b # 0
  <2>1. q[1] = a * a /\ q[2] = b * b
    BY <1>3, <1>4, <1>5, RootOfSquare
  <2> QED
    BY <1>5, <2>1
<1>7. Root(q) = <<a, b>>
  BY <1>2, <1>5, <1>6, RootFound
<1>8. PICK u, v \in Int : u * q[1] + v * q[2] = 1
  BY <1>2, Bezout
<1>9. Gcd[<<a, b>>] = 1
  <2>1. (u * a) * a + (v * b) * b = 1 /\ u * a \in Int /\ v * b \in Int
    BY <1>5, <1>6, <1>8
  <2> QED
    BY <1>5, <2>1, CoprimeGcd
<1> DEFINE r == <<a, b>>
<1>10. r \in NonNegative /\ Stands(r, a, b)
  <2>1. Magnitude(a) = a
    BY <1>5 DEF Magnitude
  <2>2. r[1] = a /\ r[2] = b /\ r \in Int \X Nat
    BY <1>5
  <2> HIDE DEF r
  <2>3. IsNumber(r)
    BY <1>6, <2>2 DEF IsNumber
  <2>4. r \in Fraction
    BY <1>9, <2>1, <2>2, <2>3, <1>5 DEF Fraction, r
  <2> QED
    BY <1>5, <2>2, <2>3, <2>4, StandsForItself DEF NonNegative, Number
<1>11. Stands(Mul(r, r), a * a, b * b)
  BY <1>5, <1>10, MulStands
<1>12. Stands(q, a * a, b * b)
  BY <1>2, <1>6, StandsForItself
<1>13. Mul(r, r) = q
  <2>1. a * a \in Int /\ b * b \in Int /\ b * b # 0
    BY <1>5, <1>6
  <2> HIDE DEF r
  <2> QED
    BY <1>11, <1>12, <2>1, StandsUnique
<1> QED
  BY <1>2, <1>7, <1>10, <1>13 DEF Number

\* Root stays among the fractions, whatever it is given.
LEMMA RootIsFraction ==
  ASSUME NEW q \in Fraction
  PROVE  Root(q) \in Fraction
<1>1. CASE IsNumber(Root(q))
  BY <1>1, RootSquared DEF NonNegative, Number
<1>2. CASE ~IsNumber(Root(q))
  <2>1. Root(q) = NaN
    BY <1>2, RootOrNaN
  <2> QED
    BY <2>1, NanIsFraction
<1> QED
  BY <1>1, <1>2

\* Less than zero, and not.
LEMMA PositiveIs ==
  ASSUME NEW p \in Fraction
  PROVE  /\ Less(Zero, p) <=> p \in Positive
         /\ IsNumber(p) /\ ~LessEq(p, Zero) => p \in Positive
         /\ p \in Positive => p # Zero
<1>1. p[1] \in Int /\ p[2] \in Nat /\ (IsNumber(p) <=> p[2] # 0) /\ p = <<p[1], p[2]>>
  BY FractionParts
<1>2. Zero[1] = 0 /\ Zero[2] = 1 /\ IsNumber(Zero) /\ Zero = <<0, 1>>
  BY DEF Zero, Whole, IsNumber
<1>3. Less(Zero, p) <=> IsNumber(p) /\ 0 < p[1]
  BY <1>1, <1>2 DEF Less
<1>4. Less(p, Zero) <=> IsNumber(p) /\ p[1] < 0
  BY <1>1, <1>2 DEF Less
<1>5. ASSUME IsNumber(p), p[1] = 0 PROVE p = Zero
  <2>1. p[1] * Zero[2] = Zero[1] * p[2]
    BY <1>1, <1>2, <1>5
  <2> QED
    BY <1>2, <1>5, <2>1, FractionUnique, ZeroIsNeutral
<1>6. LessEq(p, Zero) <=> Less(p, Zero) \/ (p = Zero /\ IsNumber(p))
  BY DEF LessEq
<1>7. p \in Positive <=> IsNumber(p) /\ p[1] > 0
  BY DEF Positive, Number
<1> QED
  BY <1>1, <1>2, <1>3, <1>4, <1>5, <1>6, <1>7

\* Two numbers that are not smaller than zero and have one square.
LEMMA RootPositive ==
  ASSUME NEW r \in NonNegative, Mul(r, r) # Zero
  PROVE  r \in Positive
<1>1. r \in Number /\ r # Zero
  <2>1. Mul(Zero, Zero) = Zero
    BY OneIsNeutral, NumbersClosed
  <2> QED
    BY <2>1 DEF NonNegative
<1> QED
  BY <1>1, ZeroIsZero, NumberParts DEF NonNegative, Positive

-----------------------------------------------------------------------------
(* Several numbers over one denominator: identities between them are those of whole*)
(* numbers.                                                                        *)

\* Both parts of a quotient multiplied.
LEMMA Widened ==
  ASSUME NEW p, NEW a \in Int, NEW d \in Int, NEW e \in Int, d # 0, e # 0, Stands(p, a, d)
  PROVE  Stands(p, a * e, d * e) /\ Stands(p, e * a, e * d)
<1>1. d * (a * e) = a * (d * e) /\ d * (e * a) = a * (e * d) /\ a * e \in Int /\ d * e \in Int /\ e * a \in Int /\ e * d \in Int
  OBVIOUS
<1>2. Stands(p, a * e, d * e)
  BY <1>1, SameValue
<1>3. Stands(p, e * a, e * d)
  BY <1>1, SameValue
<1> QED
  BY <1>2, <1>3

\* p and q over the denominator d.
LEMMA CommonDenominator ==
  ASSUME NEW p \in Number, NEW q \in Number, NEW r \in Number
  PROVE  \E d \in Int, a, b, c \in Int : d # 0 /\ Stands(p, a, d) /\ Stands(q, b, d) /\ Stands(r, c, d)
<1> DEFINE i == p[1]
           j == p[2]
           k == q[1]
           l == q[2]
           m == r[1]
           o == r[2]
<1>1. /\ i \in Int /\ j \in Int /\ k \in Int /\ l \in Int /\ m \in Int /\ o \in Int
      /\ j # 0 /\ l # 0 /\ o # 0
      /\ Stands(p, i, j) /\ Stands(q, k, l) /\ Stands(r, m, o)
  BY NumberParts
<1> HIDE DEF i, j, k, l, m, o
<1>2. l * o \in Int /\ l * o # 0 /\ j * l \in Int /\ j * l # 0
  BY <1>1
<1>3. i * (l * o) \in Int /\ k * o \in Int /\ j * (k * o) \in Int /\ (j * l) * m \in Int
  BY <1>1
<1>4. Stands(p, i * (l * o), j * (l * o))
  BY <1>1, <1>2, Widened
<1>5. Stands(q, j * (k * o), j * (l * o))
  <2>1. Stands(q, k * o, l * o)
    BY <1>1, Widened
  <2> QED
    BY <1>1, <1>2, <1>3, <2>1, Widened
<1>6. Stands(r, (j * l) * m, (j * l) * o)
  BY <1>1, <1>2, Widened
<1>7. (j * l) * o = j * (l * o) /\ j * (l * o) \in Int /\ j * (l * o) # 0
  BY <1>1
<1> QED
  BY <1>3, <1>4, <1>5, <1>7, <1>6

\* A whole number of parts 1 / d.
OnGrid(p, d) == \E a \in Int : Stands(p, a, d)

\* Six numbers over one denominator.
LEMMA CommonDenominators ==
  ASSUME NEW p \in Number, NEW q \in Number, NEW r \in Number, NEW s \in Number, NEW t \in Number, NEW u \in Number
  PROVE  \E d \in Int : /\ d # 0 /\ OnGrid(p, d) /\ OnGrid(q, d) /\ OnGrid(r, d)
                        /\ OnGrid(s, d) /\ OnGrid(t, d) /\ OnGrid(u, d)
<1>1. PICK h \in Int, i, j, k \in Int : h # 0 /\ Stands(p, i, h) /\ Stands(q, j, h) /\ Stands(r, k, h)
  BY CommonDenominator
<1>2. PICK l \in Int, m, n1, o \in Int : l # 0 /\ Stands(s, m, l) /\ Stands(t, n1, l) /\ Stands(u, o, l)
  BY CommonDenominator
<1>3. Stands(p, i * l, h * l) /\ Stands(q, j * l, h * l) /\ Stands(r, k * l, h * l)
  BY <1>1, <1>2, Widened
<1>4. Stands(s, h * m, h * l) /\ Stands(t, h * n1, h * l) /\ Stands(u, h * o, h * l)
  BY <1>1, <1>2, Widened
<1>5. h * l \in Int /\ h * l # 0 /\ i * l \in Int /\ j * l \in Int /\ k * l \in Int
      /\ h * m \in Int /\ h * n1 \in Int /\ h * o \in Int
  BY <1>1, <1>2
<1>6. /\ OnGrid(p, h * l) /\ OnGrid(q, h * l) /\ OnGrid(r, h * l)
      /\ OnGrid(s, h * l) /\ OnGrid(t, h * l) /\ OnGrid(u, h * l)
  BY <1>3, <1>4, <1>5 DEF OnGrid
<1> QED
  BY <1>5, <1>6

\* A number over a denominator has one numerator.
LEMMA OneNumerator ==
  ASSUME NEW p, NEW a \in Int, NEW b \in Int, NEW d \in Int, d # 0, Stands(p, a, d), Stands(p, b, d)
  PROVE  a = b
<1>1. p[1] * d = a * p[2] /\ p[1] * d = b * p[2] /\ p[2] \in Int /\ p[2] # 0
  BY FractionParts DEF Stands
<1> DEFINE k == p[2]
           l == p[1]
<1>2. l * d = a * k /\ l * d = b * k /\ k \in Int /\ k # 0
  BY <1>1
<1> HIDE DEF k, l
<1>3. (a - b) * k = 0
  BY <1>2
<1> QED
  BY <1>2, <1>3

\* Sums and differences over one denominator.
LEMMA SumsOver ==
  ASSUME NEW p, NEW q, NEW a \in Int, NEW b \in Int, NEW d \in Int, d # 0, Stands(p, a, d), Stands(q, b, d)
  PROVE  Stands(Add(p, q), a + b, d) /\ Stands(Sub(p, q), a - b, d)
<1>1. Stands(Add(p, q), a * d + b * d, d * d)
  BY AddStands
<1>2. Stands(Add(p, Neg(q)), a * d + (-b) * d, d * d)
  <2>1. Stands(Neg(q), -b, d) /\ -b \in Int
    BY NegStands
  <2> QED
    BY <2>1, AddStands
<1>3. /\ (d * d) * (a + b) = (a * d + b * d) * d /\ (d * d) * (a - b) = (a * d + (-b) * d) * d /\ d * d # 0
      /\ a * d + b * d \in Int /\ a * d + (-b) * d \in Int /\ d * d \in Int /\ a + b \in Int /\ a - b \in Int
  OBVIOUS
<1>4. Stands(Add(p, q), a + b, d)
  BY <1>1, <1>3, SameValue
<1>5. Stands(Add(p, Neg(q)), a - b, d)
  BY <1>2, <1>3, SameValue
<1> QED
  BY <1>4, <1>5 DEF Sub

\* Products of two over one denominator.
LEMMA ProductOver ==
  ASSUME NEW p, NEW q, NEW a \in Int, NEW b \in Int, NEW d \in Int, NEW e \in Int, d # 0, e # 0, Stands(p, a, d), Stands(q, b, e)
  PROVE  Stands(Mul(p, q), a * b, d * e) /\ a * b \in Int /\ d * e \in Int /\ d * e # 0
<1>1. Stands(Mul(p, q), a * b, d * e)
  BY MulStands
<1> QED
  BY <1>1

\* One and minus one.
Signs == {One, Neg(One)}

\* A sign multiplies numerators by 1 or -1.
LEMMA SignStands ==
  ASSUME NEW sg \in Signs
  PROVE  sg \in Number /\ \E s \in {1, -1} : \A p, a, d : a \in Int /\ d \in Int /\ Stands(p, a, d) => Stands(Mul(sg, p), s * a, d)
<1>1. One \in Number /\ Stands(One, 1, 1) /\ Stands(Neg(One), -1, 1) /\ Neg(One) \in Number
  BY NumbersClosed, WholeStands, NegStands DEF One
<1>2. ASSUME NEW s \in {1, -1}, Stands(sg, s, 1), NEW p, NEW a \in Int, NEW d \in Int, Stands(p, a, d)
      PROVE  Stands(Mul(sg, p), s * a, d)
  <2>1. s \in Int /\ 1 * d = d
    OBVIOUS
  <2>2. Stands(Mul(sg, p), s * a, 1 * d)
    BY <1>2, <2>1, MulStands
  <2> QED
    BY <2>1, <2>2
<1> QED
  BY <1>1, <1>2 DEF Signs

\* The whole numbers of TurnKeeps.
LEMMA TurnOfIntegers ==
  ASSUME NEW c \in Int, NEW t \in Int, NEW a \in Int, NEW b \in Int, NEW p \in Int, NEW q \in Int, NEW d \in Int,
         NEW s \in {1, -1}, c * c = d * d + s * (t * t)
  PROVE  (d * d) * (a * b) + s * ((c * p - t * a) * (c * q - t * b)) =
           (c * a - s * (t * p)) * (c * b - s * (t * q)) + (d * d) * (s * (p * q))
<1>1. CASE s = 1
  <2> DEFINE e == c * c - d * d - t * t
  <2>1. e = 0
    BY <1>1
  <2>2. (c * a - t * p) * (c * b - t * q) + (d * d) * (p * q) =
          (d * d) * (a * b) + (c * p - t * a) * (c * q - t * b) + e * (a * b) - e * (p * q)
    OBVIOUS
  <2>3. e * (a * b) = 0 /\ e * (p * q) = 0
    BY <2>1
  <2> HIDE DEF e
  <2> QED
    BY <1>1, <2>2, <2>3
<1>2. CASE s = -1
  <2> DEFINE e == c * c - d * d + t * t
  <2>1. e = 0
    BY <1>2
  <2>2. (c * a + t * p) * (c * b + t * q) - (d * d) * (p * q) =
          (d * d) * (a * b) - (c * p - t * a) * (c * q - t * b) + e * (a * b) + e * (p * q)
    OBVIOUS
  <2>3. e * (a * b) = 0 /\ e * (p * q) = 0
    BY <2>1
  <2> HIDE DEF e
  <2> QED
    BY <1>2, <2>2, <2>3
<1> QED
  BY <1>1, <1>2

\* A turn (a, p) -> (c a - sg t p, c p - t a) keeps a b + sg p q.
TurnKept(c, t, a, b, p, q, sg) ==
  Add(Mul(a, b), Mul(sg, Mul(Sub(Mul(c, p), Mul(t, a)), Sub(Mul(c, q), Mul(t, b))))) =
    Add(Mul(Sub(Mul(c, a), Mul(sg, Mul(t, p))), Sub(Mul(c, b), Mul(sg, Mul(t, q)))), Mul(sg, Mul(p, q)))

\* A turn of two columns, c * c - sg * t * t = 1: what leaves the product of one
\* comes to that of the other.
LEMMA TurnKeeps ==
  ASSUME NEW c \in Number, NEW t \in Number, NEW a \in Number, NEW b \in Number, NEW p \in Number, NEW q \in Number,
         NEW sg \in Signs, Mul(c, c) = Add(One, Mul(sg, Mul(t, t)))
  PROVE  TurnKept(c, t, a, b, p, q, sg)
<1>1. PICK d \in Int : d # 0 /\ OnGrid(c, d) /\ OnGrid(t, d) /\ OnGrid(a, d) /\ OnGrid(b, d) /\ OnGrid(p, d) /\ OnGrid(q, d)
  BY CommonDenominators
<1>2. PICK ci \in Int, ti \in Int : Stands(c, ci, d) /\ Stands(t, ti, d)
  BY <1>1 DEF OnGrid
<1>3. PICK ai \in Int, bi \in Int : Stands(a, ai, d) /\ Stands(b, bi, d)
  BY <1>1 DEF OnGrid
<1>4. PICK pj \in Int, qj \in Int : Stands(p, pj, d) /\ Stands(q, qj, d)
  BY <1>1 DEF OnGrid
<1>5. PICK s \in {1, -1} : \A x, i, e : i \in Int /\ e \in Int /\ Stands(x, i, e) => Stands(Mul(sg, x), s * i, e)
  BY SignStands
<1> DEFINE w == d * d
           cc == ci * ci
           tt == ti * ti
           ab == ai * bi
           pq == pj * qj
           cp == ci * pj
           ta == ti * ai
           cq == ci * qj
           tb == ti * bi
           ca == ci * ai
           tp == ti * pj
           cb == ci * bi
           tq == ti * qj
<1>6. /\ Stands(Mul(c, c), cc, w) /\ Stands(Mul(t, t), tt, w) /\ Stands(Mul(a, b), ab, w) /\ Stands(Mul(p, q), pq, w)
      /\ Stands(Mul(c, p), cp, w) /\ Stands(Mul(t, a), ta, w) /\ Stands(Mul(c, q), cq, w) /\ Stands(Mul(t, b), tb, w)
      /\ Stands(Mul(c, a), ca, w) /\ Stands(Mul(t, p), tp, w) /\ Stands(Mul(c, b), cb, w) /\ Stands(Mul(t, q), tq, w)
  BY <1>1, <1>2, <1>3, <1>4, MulStands
<1>7. w \in Int /\ w # 0 /\ cc \in Int /\ tt \in Int /\ ab \in Int /\ pq \in Int /\ cp \in Int /\ ta \in Int /\ cq \in Int /\ tb \in Int
      /\ ca \in Int /\ tp \in Int /\ cb \in Int /\ tq \in Int /\ s \in Int
  BY <1>1
<1> HIDE DEF w, cc, tt, ab, pq, cp, ta, cq, tb, ca, tp, cb, tq
<1> DEFINE st == s * tt
           sp == s * pq
           stp == s * tp
           stq == s * tq
<1>8. /\ Stands(Mul(sg, Mul(t, t)), st, w) /\ Stands(Mul(sg, Mul(p, q)), sp, w)
      /\ Stands(Mul(sg, Mul(t, p)), stp, w) /\ Stands(Mul(sg, Mul(t, q)), stq, w)
  BY <1>5, <1>6, <1>7
<1>9. st \in Int /\ sp \in Int /\ stp \in Int /\ stq \in Int
  BY <1>7
<1> HIDE DEF st, sp, stp, stq
<1>10. cc = w + st
  <2>1. Stands(One, w, w)
    <3>1. Stands(One, 1, 1) /\ 1 * w = 1 * w
      BY <1>7, WholeStands DEF One
    <3> QED
      BY <1>7, <3>1, SameValue
  <2>2. Stands(Add(One, Mul(sg, Mul(t, t))), w + st, w)
    BY <1>7, <1>8, <1>9, <2>1, SumsOver
  <2>3. Stands(Mul(c, c), w + st, w) /\ Stands(Mul(c, c), cc, w)
    BY <1>6, <2>2
  <2>4. Mul(c, c)[1] * w = cc * Mul(c, c)[2] /\ Mul(c, c)[1] * w = (w + st) * Mul(c, c)[2]
    BY <2>3 DEF Stands
  <2>5. Mul(c, c)[2] \in Int /\ Mul(c, c)[2] # 0
    BY <2>3, FractionParts DEF Stands
  <2> QED
    BY <1>7, <1>9, <2>4, <2>5
<1> DEFINE v == w * w
<1>11. v \in Int /\ v # 0
  BY <1>7
<1>12. Stands(Mul(a, b), w * ab, v) /\ Stands(Mul(sg, Mul(p, q)), w * sp, v) /\ w * ab \in Int /\ w * sp \in Int
  BY <1>6, <1>7, <1>8, <1>9, Widened
<1>13. /\ Stands(Sub(Mul(c, p), Mul(t, a)), cp - ta, w) /\ Stands(Sub(Mul(c, q), Mul(t, b)), cq - tb, w)
       /\ Stands(Sub(Mul(c, a), Mul(sg, Mul(t, p))), ca - stp, w) /\ Stands(Sub(Mul(c, b), Mul(sg, Mul(t, q))), cb - stq, w)
  BY <1>6, <1>7, <1>8, <1>9, SumsOver
<1> DEFINE x == (cp - ta) * (cq - tb)
           y == (ca - stp) * (cb - stq)
<1>14. /\ Stands(Mul(Sub(Mul(c, p), Mul(t, a)), Sub(Mul(c, q), Mul(t, b))), x, v)
       /\ Stands(Mul(Sub(Mul(c, a), Mul(sg, Mul(t, p))), Sub(Mul(c, b), Mul(sg, Mul(t, q)))), y, v)
       /\ x \in Int /\ y \in Int
  <2>1. cp - ta \in Int /\ cq - tb \in Int /\ ca - stp \in Int /\ cb - stq \in Int
    BY <1>7, <1>9
  <2>2. Stands(Mul(Sub(Mul(c, p), Mul(t, a)), Sub(Mul(c, q), Mul(t, b))), x, v)
    BY <1>7, <1>13, <2>1, MulStands
  <2>3. Stands(Mul(Sub(Mul(c, a), Mul(sg, Mul(t, p))), Sub(Mul(c, b), Mul(sg, Mul(t, q)))), y, v)
    BY <1>7, <1>13, <2>1, MulStands
  <2>4. x \in Int /\ y \in Int
    BY <2>1
  <2> QED
    BY <2>2, <2>3, <2>4
<1> HIDE DEF v, x, y
<1>15. Stands(Mul(sg, Mul(Sub(Mul(c, p), Mul(t, a)), Sub(Mul(c, q), Mul(t, b)))), s * x, v) /\ s * x \in Int
  <2>1. s * x \in Int
    BY <1>7, <1>14
  <2> QED
    BY <1>5, <1>11, <1>14, <2>1
<1> DEFINE l == Add(Mul(a, b), Mul(sg, Mul(Sub(Mul(c, p), Mul(t, a)), Sub(Mul(c, q), Mul(t, b)))))
           r == Add(Mul(Sub(Mul(c, a), Mul(sg, Mul(t, p))), Sub(Mul(c, b), Mul(sg, Mul(t, q)))), Mul(sg, Mul(p, q)))
<1>16. Stands(l, w * ab + s * x, v)
  BY <1>11, <1>12, <1>15, SumsOver
<1>17. Stands(r, y + w * sp, v)
  BY <1>11, <1>12, <1>14, SumsOver
<1>18. w * ab + s * x = y + w * sp
  <2>1. ci * ci = d * d + s * (ti * ti)
    BY <1>10 DEF cc, w, st, tt
  <2>2. (d * d) * (ai * bi) + s * ((ci * pj - ti * ai) * (ci * qj - ti * bi)) =
           (ci * ai - s * (ti * pj)) * (ci * bi - s * (ti * qj)) + (d * d) * (s * (pj * qj))
    BY <1>1, <2>1, TurnOfIntegers
  <2> QED
    BY <2>2 DEF w, ab, x, y, sp, cp, ta, cq, tb, ca, stp, tp, cb, stq, tq, pq
<1> HIDE DEF l, r
<1>19. l = r
  <2>1. w * ab + s * x \in Int
    BY <1>12, <1>15
  <2> QED
    BY <1>11, <1>16, <1>17, <1>18, <2>1, StandsUnique
<1> QED
  BY <1>19 DEF l, r, TurnKept

-----------------------------------------------------------------------------
(* Factors and terms.                                                       *)

\* A factor that is not zero is cancelled.
LEMMA MulCancels ==
  ASSUME NEW a \in Number, NEW b \in Number, NEW p \in Number, a # Zero, Mul(a, b) = Mul(a, p)
  PROVE  b = p
<1> DEFINE d == Sub(b, p)
<1>1. d \in Number /\ Add(d, p) = b
  BY NumbersClosed, SubUndoes
<1> HIDE DEF d
<1>2. Mul(a, d) \in Number /\ Mul(a, p) \in Number
  BY <1>1, NumbersClosed
<1>3. Mul(a, b) = Add(Mul(a, d), Mul(a, p))
  BY <1>1, Distributes DEF Number
<1>4. Sub(Add(Mul(a, d), Mul(a, p)), Mul(a, p)) = Mul(a, d) /\ Sub(Mul(a, p), Mul(a, p)) = Zero
  BY <1>2, SubUndoes
<1>5. d = Zero
  BY <1>1, <1>3, <1>4, MulZero
<1> QED
  BY <1>1, <1>5, OneIsNeutral

\* A quotient is a number only of numbers, and not by zero.
LEMMA DivNumber ==
  ASSUME NEW p \in Fraction, NEW q \in Fraction, IsNumber(Div(p, q))
  PROVE  p \in Number /\ q \in Number /\ q # Zero
<1>1. IsNumber(p) /\ IsNumber(q)
  BY NanIsFraction DEF Div
<1>2. ASSUME q = Zero PROVE FALSE
  <2>1. p[2] \in Nat /\ q[1] = 0
    BY <1>2, FractionParts DEF Zero, Whole
  <2>2. p[2] * q[1] = 0
    BY <2>1
  <2>3. Div(p, q) = NaN
    BY <1>1, <2>2 DEF Div, Quotient
  <2> QED
    BY <2>3, NanIsFraction
<1> QED
  BY <1>1, <1>2 DEF Number

\* A quotient is the multiple of the reciprocal.
LEMMA DivIsMul ==
  ASSUME NEW p \in Number, NEW q \in Number, q # Zero
  PROVE  Div(One, q) \in Number /\ Mul(Div(One, q), q) = One /\ Div(p, q) = Mul(Div(One, q), p) /\ Div(p, q) \in Number
<1>1. One \in Number
  BY NumbersClosed
<1>2. Div(One, q) \in Number /\ Mul(q, Div(One, q)) = One /\ Mul(Div(One, q), q) = One
  BY <1>1, DivUndoes
<1>3. Div(p, q) \in Number /\ Mul(q, Div(p, q)) = p
  BY DivUndoes
<1>4. Mul(Div(One, q), p) \in Number
  BY <1>2, NumbersClosed
<1>5. Mul(q, Mul(Div(One, q), p)) = p
  <2>1. Mul(Mul(q, Div(One, q)), p) = Mul(q, Mul(Div(One, q), p))
    BY <1>2, MulAssociative
  <2> QED
    BY <1>2, <2>1, OneIsNeutral
<1> QED
  BY <1>2, <1>3, <1>4, <1>5, MulCancels

\* Two numbers that cancel in the equation of one unknown.
LEMMA Cancelled ==
  ASSUME NEW p \in Number, NEW q \in Number
  PROVE  /\ Add(Mul(Neg(p), q), Mul(p, q)) = Zero
         /\ Add(Mul(Add(Neg(p), One), q), Mul(p, q)) = q
<1>1. Neg(p) \in Number /\ One \in Number /\ p \in Fraction /\ q \in Fraction /\ Neg(p) \in Fraction /\ One \in Fraction
  BY NumbersClosed DEF Number
<1>2. Add(Neg(p), p) = Zero
  <2>1. Add(p, Neg(p)) = Zero
    BY SubUndoes DEF Sub
  <2> QED
    BY <1>1, <2>1, AddCommutes
<1>3. ASSUME NEW r \in Number
      PROVE  Add(Mul(r, q), Mul(p, q)) = Mul(Add(r, p), q)
  <2>1. r \in Fraction /\ Add(r, p) \in Fraction
    BY NumbersClosed DEF Number
  <2>2. Mul(r, q) = Mul(q, r) /\ Mul(p, q) = Mul(q, p) /\ Mul(Add(r, p), q) = Mul(q, Add(r, p))
    BY <1>1, <2>1, AddCommutes
  <2>3. Mul(q, Add(r, p)) = Add(Mul(q, r), Mul(q, p))
    BY <1>1, <2>1, Distributes
  <2> QED
    BY <2>2, <2>3
<1>4. Add(Neg(p), One) \in Number
  BY <1>1, NumbersClosed
<1>5. Add(Add(Neg(p), One), p) = One
  <2>1. Add(Neg(p), One) = Add(One, Neg(p))
    BY <1>1, AddCommutes
  <2>2. Add(Add(One, Neg(p)), p) = Add(One, Add(Neg(p), p))
    BY <1>1, AddAssociative
  <2>3. Add(One, Zero) = One
    BY <1>1, OneIsNeutral
  <2> QED
    BY <1>2, <2>1, <2>2, <2>3
<1>6. Mul(Zero, q) = Zero /\ Mul(One, q) = q
  BY OneIsNeutral
<1> QED
  BY <1>1, <1>2, <1>3, <1>4, <1>5, <1>6

\* What is added to both sides goes out.
LEMMA SumsExchanged ==
  ASSUME NEW g \in Number, NEW h \in Number, NEW a \in Number, NEW b \in Number, NEW p \in Number, NEW q \in Number,
         Add(g, a) = Add(h, b), Add(b, p) = Add(a, q)
  PROVE  Add(g, p) = Add(h, q)
<1>1. PICK e \in Int : e # 0 /\ OnGrid(g, e) /\ OnGrid(h, e) /\ OnGrid(a, e) /\ OnGrid(b, e) /\ OnGrid(p, e) /\ OnGrid(q, e)
  BY CommonDenominators
<1>2. PICK gi \in Int, hi \in Int : Stands(g, gi, e) /\ Stands(h, hi, e)
  BY <1>1 DEF OnGrid
<1>3. PICK ai \in Int, bi \in Int : Stands(a, ai, e) /\ Stands(b, bi, e)
  BY <1>1 DEF OnGrid
<1>4. PICK pj \in Int, qj \in Int : Stands(p, pj, e) /\ Stands(q, qj, e)
  BY <1>1 DEF OnGrid
<1>5. /\ Stands(Add(g, a), gi + ai, e) /\ Stands(Add(h, b), hi + bi, e)
      /\ Stands(Add(b, p), bi + pj, e) /\ Stands(Add(a, q), ai + qj, e)
      /\ Stands(Add(g, p), gi + pj, e) /\ Stands(Add(h, q), hi + qj, e)
  BY <1>1, <1>2, <1>3, <1>4, SumsOver
<1>6. gi + ai = hi + bi /\ bi + pj = ai + qj
  BY <1>1, <1>5, OneNumerator
<1>7. gi + pj = hi + qj /\ gi + pj \in Int
  BY <1>6
<1> QED
  BY <1>1, <1>5, <1>7, StandsUnique

\* A factor taken into a product of three.
LEMMA SignInside ==
  ASSUME NEW l \in Number, NEW g \in Number, NEW t \in Number, NEW p \in Number
  PROVE  Mul(l, Mul(g, Mul(t, p))) = Mul(g, Mul(Mul(l, t), p))
<1>1. Mul(t, p) \in Number /\ Mul(l, g) \in Number /\ Mul(g, l) = Mul(l, g)
  BY NumbersClosed, AddCommutes DEF Number
<1>2. Mul(Mul(l, g), Mul(t, p)) = Mul(l, Mul(g, Mul(t, p))) /\ Mul(Mul(g, l), Mul(t, p)) = Mul(g, Mul(l, Mul(t, p)))
  BY <1>1, MulAssociative
<1>3. Mul(Mul(l, t), p) = Mul(l, Mul(t, p))
  BY MulAssociative
<1> QED
  BY <1>1, <1>2, <1>3

\* Products of four, paired another way.
LEMMA PairsSwap ==
  ASSUME NEW a \in Number, NEW b \in Number
  PROVE  Mul(Mul(a, a), Mul(b, b)) = Mul(Mul(a, b), Mul(a, b)) /\ Mul(Mul(a, b), Mul(a, b)) = Mul(Mul(b, a), Mul(b, a))
<1>1. Mul(a, a) \in Number /\ Mul(b, b) \in Number /\ Mul(a, b) \in Number /\ Mul(a, b) = Mul(b, a)
  BY NumbersClosed, AddCommutes DEF Number
<1>2. Mul(Mul(a, a), Mul(b, b)) = Mul(a, Mul(a, Mul(b, b))) /\ Mul(Mul(a, b), b) = Mul(a, Mul(b, b))
  BY <1>1, MulAssociative
<1>3. Mul(a, Mul(b, Mul(a, b))) = Mul(Mul(a, b), Mul(a, b))
  BY <1>1, MulAssociative
<1>4. Mul(b, Mul(a, b)) = Mul(Mul(a, b), b)
  BY <1>1, AddCommutes DEF Number
<1> QED
  BY <1>1, <1>2, <1>3, <1>4

\* Two, and minus two.
LEMMA Twos ==
  /\ Whole(2) \in Number /\ Whole(-2) \in Number
  /\ Stands(Whole(2), 2, 1) /\ Stands(Whole(-2), -2, 1)
BY WholeStands, FractionParts DEF Stands, Number

\* The lengths a reflection takes: of v, and of the column along v.
LEMMA ReflectedLengths ==
  ASSUME NEW a \in Number, NEW s \in Number, NEW vv \in Number, NEW va \in Number, NEW b, b = Add(a, s),
         Add(vv, Mul(a, a)) = Add(Mul(s, s), Mul(b, b)),
         Add(va, Mul(a, a)) = Add(Mul(s, s), Mul(b, a))
  PROVE  vv = Mul(Whole(2), Mul(s, b)) /\ Mul(Whole(2), va) = Mul(Whole(2), Mul(s, b))
<1>1. PICK d \in Int, i, j \in Int : d # 0 /\ Stands(a, i, d) /\ Stands(s, j, d)
  <2>1. PICK d \in Int, i, j, k \in Int : d # 0 /\ Stands(a, i, d) /\ Stands(s, j, d) /\ Stands(s, k, d)
    BY CommonDenominator
  <2> QED
    BY <2>1
<1>2. Stands(b, i + j, d) /\ i + j \in Int
  BY <1>1, SumsOver
<1> DEFINE dd == d * d
           ii == i * i
           jj == j * j
           bb == (i + j) * (i + j)
           bi == (i + j) * i
           jb == j * (i + j)
<1>3. dd \in Int /\ dd # 0 /\ ii \in Int /\ jj \in Int /\ bb \in Int /\ bi \in Int /\ jb \in Int
  BY <1>1
<1>4. Stands(Mul(a, a), ii, dd) /\ Stands(Mul(s, s), jj, dd) /\ Stands(Mul(b, b), bb, dd) /\ Stands(Mul(b, a), bi, dd)
      /\ Stands(Mul(s, b), jb, dd)
  BY <1>1, <1>2, MulStands
<1>5. jj + bb - ii = 2 * jb /\ 2 * (jj + bi - ii) = 2 * jb /\ jj + bi - ii \in Int /\ jj + bb \in Int /\ jj + bi \in Int
      /\ 1 * dd = dd /\ 2 * jb \in Int /\ jj + bb - ii \in Int
  BY <1>1
<1> HIDE DEF dd, ii, jj, bb, bi, jb
<1>6. Stands(Add(Mul(s, s), Mul(b, b)), jj + bb, dd) /\ Stands(Add(Mul(s, s), Mul(b, a)), jj + bi, dd)
  BY <1>3, <1>4, SumsOver
<1>7. /\ vv = Sub(Add(Mul(s, s), Mul(b, b)), Mul(a, a))
      /\ va = Sub(Add(Mul(s, s), Mul(b, a)), Mul(a, a))
  <2>1. Mul(a, a) \in Number
    BY NumbersClosed
  <2>2. Sub(Add(vv, Mul(a, a)), Mul(a, a)) = vv /\ Sub(Add(va, Mul(a, a)), Mul(a, a)) = va
    BY <2>1, SubUndoes
  <2> QED
    BY <2>2
<1>8. Stands(vv, jj + bb - ii, dd) /\ Stands(va, jj + bi - ii, dd)
  BY <1>3, <1>4, <1>5, <1>6, <1>7, SumsOver
<1>9. Stands(Mul(Whole(2), Mul(s, b)), 2 * jb, 1 * dd) /\ Stands(Mul(Whole(2), va), 2 * (jj + bi - ii), 1 * dd)
  BY <1>3, <1>4, <1>5, <1>8, Twos, MulStands
<1> QED
  BY <1>3, <1>5, <1>8, <1>9, StandsUnique

\* Minus two of a number and the number.
LEMMA TwiceAway ==
  ASSUME NEW b \in Number, NEW x \in Number, NEW y \in Number, NEW vv \in Number, Mul(b, vv) = Whole(-2)
  PROVE  Add(Mul(Mul(b, x), Add(Mul(Mul(b, y), vv), y)), Mul(b, Mul(x, y))) = Zero
<1>1. Mul(b, y) \in Number /\ Mul(b, x) \in Number /\ Mul(x, y) \in Number /\ Neg(y) \in Number
  BY NumbersClosed
<1>2. \A z \in Number : z \in Fraction
  BY DEF Number
<1>3. Mul(Mul(b, y), vv) = Mul(Whole(-2), y)
  <2>1. Mul(b, y) = Mul(y, b) /\ Mul(Whole(-2), y) = Mul(y, Whole(-2))
    BY <1>2, Twos, AddCommutes
  <2>2. Mul(Mul(y, b), vv) = Mul(y, Mul(b, vv))
    BY MulAssociative
  <2> QED
    BY <2>1, <2>2
<1>4. Add(Mul(Whole(-2), y), y) = Neg(y)
  <2>1. PICK d \in Int, i \in Int : d # 0 /\ Stands(y, i, d)
    BY CommonDenominator
  <2>2. Stands(Mul(Whole(-2), y), -2 * i, 1 * d) /\ Stands(Neg(y), -i, d)
    BY <2>1, Twos, MulStands, NegStands
  <2>3. 1 * d = d /\ -2 * i \in Int /\ -2 * i + i = -i /\ -i \in Int
    BY <2>1
  <2>4. Stands(Add(Mul(Whole(-2), y), y), -2 * i + i, d)
    BY <2>1, <2>2, <2>3, SumsOver
  <2> QED
    BY <2>1, <2>2, <2>3, <2>4, StandsUnique
<1>5. Mul(Mul(b, x), Neg(y)) = Mul(b, Mul(x, Neg(y)))
  BY <1>1, MulAssociative
<1>6. Add(Mul(b, Mul(x, Neg(y))), Mul(b, Mul(x, y))) = Mul(b, Mul(x, Add(Neg(y), y)))
  <2>1. Mul(x, Add(Neg(y), y)) = Add(Mul(x, Neg(y)), Mul(x, y))
    BY <1>1, <1>2, Distributes
  <2>2. Mul(x, Neg(y)) \in Number
    BY <1>1, NumbersClosed
  <2>3. Mul(b, Add(Mul(x, Neg(y)), Mul(x, y))) = Add(Mul(b, Mul(x, Neg(y))), Mul(b, Mul(x, y)))
    BY <1>1, <1>2, <2>2, Distributes
  <2> QED
    BY <2>1, <2>3
<1>7. Add(Neg(y), y) = Zero
  <2>1. Add(y, Neg(y)) = Zero
    BY SubUndoes DEF Sub
  <2> QED
    BY <1>1, <1>2, <2>1, AddCommutes
<1>8. Mul(x, Zero) = Zero /\ Mul(b, Zero) = Zero
  BY OneIsNeutral
<1> QED
  BY <1>3, <1>4, <1>5, <1>6, <1>7, <1>8

-----------------------------------------------------------------------------
(* Products. Terms are what a cell of a product adds up.                    *)

\* What cell c of the product of M and B adds up.
Terms(M, B, w, p, c) == [k \in 0 .. w - 1 |-> Mul(M[(c \div p) * w + k], B[(c % p) + k * p])]

\* smls_mat_mul adds up the terms of each cell.
LEMMA MatMulCell ==
  ASSUME NEW h \in Nat, NEW w \in Nat, NEW p \in Nat,
         NEW M, NEW B, NEW c \in Cells(h * p), Numbers(Terms(M, B, w, p, c), 0, w - 1)
  PROVE  MatMul(M, B, h, w, p)[c] = Total(Terms(M, B, w, p, c), 0, w - 1)
<1> DEFINE hi == w - 1
           lo == 0
           e(k) == Mul(M[(c \div p) * w + k], B[(c % p) + k * p])
           v == Terms(M, B, w, p, c)
           P(f) == f = [k \in lo - 1 .. hi |-> IF k < lo THEN Zero ELSE Add(f[k - 1], e(k))]
           z == CHOOSE f : P(f)
<1>1. MatMul(M, B, h, w, p)[c] = IF hi < lo THEN Zero ELSE z[hi]
  BY DEF MatMul, SumOver, For
<1>2. /\ lo \in Int /\ hi \in Int /\ lo - 1 <= hi
      /\ \A k \in lo - 1 .. hi : ~(k < lo) => v[k] = e(k)
      /\ Numbers(v, lo, hi)
  BY DEF Terms
<1> HIDE DEF e, lo, v
<1>3. PICK s \in [lo - 1 .. hi -> Number] : Sums(s, v, lo, hi)
  BY <1>2, NumberSumsExist
<1>4. P(s)
  <2>1. \A k \in lo - 1 .. hi : s[k] = IF k < lo THEN Zero ELSE Add(s[k - 1], e(k))
    BY <1>2, <1>3 DEF Sums
  <2> QED
    BY <2>1
<1> HIDE DEF P
<1>5. P(z)
  BY <1>4
<1> HIDE DEF z
<1>6. Sums(z, v, lo, hi)
  BY <1>2, <1>5 DEF P, Sums
<1>7. Total(v, lo, hi) = z[hi]
  BY <1>2, <1>6, TotalIs
<1>8. CASE hi < lo
  <2>1. hi = lo - 1
    BY <1>2, <1>8
  <2> QED
    BY <1>1, <1>2, <1>8, <2>1, TotalEmpty DEF lo, v
<1>9. CASE ~(hi < lo)
  BY <1>1, <1>7, <1>9 DEF lo, v
<1> QED
  BY <1>8, <1>9

\* Row r times x.
Along(M, m, r, x) == [k \in Cells(m) |-> Mul(M[m * r + k], x[k])]

\* Its elements are numbers.
LEMMA AlongNumbers ==
  ASSUME NEW m \in Nat, NEW M \in Vector(m * m), NEW r \in Cells(m), NEW x \in Vector(m)
  PROVE  /\ Along(M, m, r, x) \in Vector(m)
         /\ Numbers(Along(M, m, r, x), 0, m - 1)
<1>1. \A k \in Cells(m) : m * r + k \in Cells(m * m)
  BY CellOf
<1>2. \A k \in Cells(m) : Mul(M[m * r + k], x[k]) \in Number
  BY <1>1, NumbersClosed DEF Vector
<1> QED
  BY <1>2 DEF Along, Vector, Numbers, Cells

\* A square matrix times a vector, row by row.
LEMMA MatVecRow ==
  ASSUME NEW m \in Nat, NEW M \in Vector(m * m), NEW x \in Vector(m)
  PROVE  /\ MatMul(M, x, m, m, 1) = [r \in Cells(m) |-> MatMul(M, x, m, m, 1)[r]]
         /\ \A r \in Cells(m) : MatMul(M, x, m, m, 1)[r] = Total(Along(M, m, r, x), 0, m - 1)
<1>1. ASSUME NEW c \in Cells(m * 1)
      PROVE  MatMul(M, x, m, m, 1)[c] = Total(Along(M, m, c, x), 0, m - 1)
  <2>1. m * 1 = m /\ c \in Int /\ c \in Cells(m)
    BY DEF Cells
  <2>2. c \div 1 = c /\ c % 1 = 0
    BY <2>1
  <2>3. \A k \in 0 .. m - 1 : (c \div 1) * m + k = m * c + k /\ (c % 1) + k * 1 = k
    BY <2>1, <2>2
  <2>4. \A k \in 0 .. m - 1 : Terms(M, x, m, 1, c)[k] = Along(M, m, c, x)[k]
    BY <2>3 DEF Terms, Along, Cells
  <2>5. Numbers(Along(M, m, c, x), 0, m - 1)
    BY <2>1, AlongNumbers
  <2>6. Numbers(Terms(M, x, m, 1, c), 0, m - 1)
    BY <2>4, <2>5 DEF Numbers
  <2>7. MatMul(M, x, m, m, 1)[c] = Total(Terms(M, x, m, 1, c), 0, m - 1)
    BY <2>6, MatMulCell
  <2>8. 0 \in Int /\ m - 1 \in Int /\ 0 - 1 <= m - 1
    OBVIOUS
  <2>9. Total(Terms(M, x, m, 1, c), 0, m - 1) = Total(Along(M, m, c, x), 0, m - 1)
    BY <2>4, <2>6, <2>8, TotalAgree
  <2> QED
    BY <2>7, <2>9
<1>2. MatMul(M, x, m, m, 1) = [c \in Cells(m * 1) |-> MatMul(M, x, m, m, 1)[c]]
  BY DEF MatMul
<1>3. m * 1 = m
  OBVIOUS
<1> QED
  BY <1>1, <1>2, <1>3

\* A vector that equals the sums of the rows is the product.
LEMMA MatVec ==
  ASSUME NEW m \in Nat, NEW M \in Vector(m * m), NEW x \in Vector(m), NEW b,
         b = [r \in Cells(m) |-> b[r]],
         \A r \in Cells(m) : Total(Along(M, m, r, x), 0, m - 1) = b[r]
  PROVE  MatMul(M, x, m, m, 1) = b
BY MatVecRow

\* Arrays of fractions, the NaN among them.
FractionCells(w) == [Cells(w) -> Fraction]

-----------------------------------------------------------------------------
(* The algebra of matrices of numbers.                                      *)

\* Matrices of h rows and w columns, filled with numbers, and their elements.
Matrices(h, w) == Vector(h * w)
At(M, w, r, k) == M[w * r + k]

\* The elements of a matrix of numbers.
LEMMA AtNumber ==
  ASSUME NEW h \in Nat, NEW w \in Nat, NEW M \in Matrices(h, w), NEW r \in Cells(h), NEW k \in Cells(w)
  PROVE  At(M, w, r, k) \in Number
<1>1. w * r + k \in Cells(h * w)
  BY CellOf
<1> QED
  BY <1>1 DEF Vector, Matrices, At

\* Two matrices of one shape are equal if their cells are.
LEMMA SameMatrix ==
  ASSUME NEW h \in Nat, NEW w \in Nat, NEW M \in Matrices(h, w), NEW B \in Matrices(h, w),
         \A r \in Cells(h), k \in Cells(w) : At(M, w, r, k) = At(B, w, r, k)
  PROVE  M = B
<1>1. ASSUME NEW c \in Cells(h * w) PROVE M[c] = B[c]
  <2>1. c \div w \in Cells(h) /\ c % w \in Cells(w) /\ c = w * (c \div w) + (c % w)
    BY PartsOf
  <2>2. At(M, w, c \div w, c % w) = At(B, w, c \div w, c % w)
    BY <2>1
  <2> QED
    BY <2>1, <2>2 DEF At
<1> QED
  BY <1>1 DEF Vector, Matrices

\* A matrix whose cells are numbers.
LEMMA MatrixByCells ==
  ASSUME NEW h \in Nat, NEW w \in Nat, NEW M, M = [c \in Cells(h * w) |-> M[c]],
         \A r \in Cells(h), k \in Cells(w) : At(M, w, r, k) \in Number
  PROVE  M \in Matrices(h, w)
<1>1. ASSUME NEW c \in Cells(h * w) PROVE M[c] \in Number
  <2>1. c \div w \in Cells(h) /\ c % w \in Cells(w) /\ c = w * (c \div w) + (c % w)
    BY PartsOf
  <2>2. At(M, w, c \div w, c % w) \in Number
    BY <2>1
  <2> QED
    BY <2>1, <2>2 DEF At
<1> QED
  BY <1>1 DEF Vector, Matrices

\* Row r of M times column k of B.
Pairs(M, B, w, p, r, k) == [i \in Cells(w) |-> Mul(At(M, w, r, i), At(B, p, i, k))]

\* The sums that run over the cells of a vector.
SumOf(v, w) == Total(v, 0, w - 1)

\* Its elements are numbers.
LEMMA PairsAreNumbers ==
  ASSUME NEW h \in Nat, NEW w \in Nat, NEW p \in Nat, NEW M \in Matrices(h, w), NEW B \in Matrices(w, p),
         NEW r \in Cells(h), NEW k \in Cells(p)
  PROVE  /\ Pairs(M, B, w, p, r, k) \in Vector(w)
         /\ \A i \in Cells(w) : Pairs(M, B, w, p, r, k)[i] = Mul(At(M, w, r, i), At(B, p, i, k))
<1>1. ASSUME NEW i \in Cells(w)
      PROVE  Mul(At(M, w, r, i), At(B, p, i, k)) \in Number
  <2>1. At(M, w, r, i) \in Number /\ At(B, p, i, k) \in Number
    BY AtNumber
  <2> QED
    BY <2>1, NumbersClosed
<1> QED
  BY <1>1 DEF Pairs, Vector

\* Sums of vectors: what the lemmas about totals say of them.
LEMMA SumOfNumbers ==
  ASSUME NEW w \in Nat, NEW v \in Vector(w)
  PROVE  SumOf(v, w) \in Number /\ Numbers(v, 0, w - 1) /\ \A i \in Cells(w) : v[i] \in Number
<1>1. \A i \in Cells(w) : v[i] \in Number
  BY DEF Vector
<1>2. Numbers(v, 0, w - 1) /\ 0 \in Int /\ w - 1 \in Int /\ 0 - 1 <= w - 1
  BY <1>1 DEF Numbers, Cells
<1> QED
  BY <1>1, <1>2, TotalType DEF SumOf

\* Vectors with equal elements have equal sums.
LEMMA SumsOfEqual ==
  ASSUME NEW w \in Nat, NEW v \in Vector(w), NEW u, \A i \in Cells(w) : u[i] = v[i]
  PROVE  SumOf(u, w) = SumOf(v, w)
<1>1. Numbers(v, 0, w - 1) /\ 0 \in Int /\ w - 1 \in Int /\ 0 - 1 <= w - 1
  BY SumOfNumbers
<1>2. \A i \in 0 .. w - 1 : v[i] = u[i]
  BY DEF Cells
<1> QED
  BY <1>1, <1>2, TotalAgree DEF SumOf

\* A common factor.
LEMMA SumScaled ==
  ASSUME NEW w \in Nat, NEW v \in Vector(w), NEW c \in Number, NEW u, \A i \in Cells(w) : u[i] = Mul(c, v[i])
  PROVE  SumOf(u, w) = Mul(c, SumOf(v, w))
<1>1. Numbers(v, 0, w - 1) /\ 0 \in Int /\ w - 1 \in Int /\ 0 - 1 <= w - 1
  BY SumOfNumbers
<1>2. \A i \in 0 .. w - 1 : u[i] = Mul(c, v[i])
  BY DEF Cells
<1> QED
  BY <1>1, <1>2, TotalScaled DEF SumOf

\* Sums of sums.
LEMMA SumAdded ==
  ASSUME NEW w \in Nat, NEW v \in Vector(w), NEW x \in Vector(w), NEW u, \A i \in Cells(w) : u[i] = Add(v[i], x[i])
  PROVE  SumOf(u, w) = Add(SumOf(v, w), SumOf(x, w))
<1>1. Numbers(v, 0, w - 1) /\ Numbers(x, 0, w - 1) /\ 0 \in Int /\ w - 1 \in Int /\ 0 - 1 <= w - 1
  BY SumOfNumbers
<1>2. \A i \in 0 .. w - 1 : u[i] = Add(v[i], x[i])
  BY DEF Cells
<1> QED
  BY <1>1, <1>2, TotalAdds DEF SumOf

\* Only one element is not zero.
LEMMA SumOfOne ==
  ASSUME NEW w \in Nat, NEW j \in Cells(w), NEW v, v[j] \in Number, \A i \in Cells(w) : i # j => v[i] = Zero
  PROVE  SumOf(v, w) = v[j]
<1>1. 0 \in Int /\ w - 1 \in Int /\ j \in 0 .. w - 1 /\ \A i \in 0 .. w - 1 : i # j => v[i] = Zero
  BY DEF Cells
<1> QED
  BY <1>1, TotalSingle DEF SumOf

\* A cell of a product adds up a row times a column.
LEMMA ProductCell ==
  ASSUME NEW h \in Nat, NEW w \in Nat, NEW p \in Nat, NEW M \in Matrices(h, w), NEW B \in Matrices(w, p),
         NEW r \in Cells(h), NEW k \in Cells(p)
  PROVE  At(MatMul(M, B, h, w, p), p, r, k) = SumOf(Pairs(M, B, w, p, r, k), w)
<1> DEFINE c == p * r + k
           t == Terms(M, B, w, p, c)
           v == Pairs(M, B, w, p, r, k)
<1>1. c \in Cells(h * p) /\ c \div p = r /\ c % p = k
  BY CellOf
<1>2. \A i \in 0 .. w - 1 : t[i] = Mul(M[(c \div p) * w + i], B[(c % p) + i * p])
  BY DEF Terms
<1>3. v \in Vector(w) /\ \A i \in Cells(w) : v[i] = Mul(M[w * r + i], B[p * i + k])
  BY PairsAreNumbers DEF At
<1> HIDE DEF c, t, v
<1>4. ASSUME NEW i \in 0 .. w - 1
      PROVE  t[i] = v[i]
  <2>1. r \in Int /\ k \in Int /\ i \in Cells(w)
    BY DEF Cells
  <2>2. r * w + i = w * r + i /\ k + i * p = p * i + k
    BY <2>1
  <2>3. t[i] = Mul(M[r * w + i], B[k + i * p])
    BY <1>1, <1>2
  <2> QED
    BY <1>3, <2>1, <2>2, <2>3
<1>5. Numbers(v, 0, w - 1)
  BY <1>3, SumOfNumbers
<1>6. Numbers(t, 0, w - 1)
  BY <1>4, <1>5 DEF Numbers
<1>7. MatMul(M, B, h, w, p)[c] = Total(t, 0, w - 1)
  BY <1>1, <1>6, MatMulCell DEF t
<1>8. \A i \in Cells(w) : t[i] = v[i]
  BY <1>4 DEF Cells
<1>9. SumOf(t, w) = SumOf(v, w)
  BY <1>3, <1>8, SumsOfEqual
<1> QED
  BY <1>7, <1>9 DEF c, v, SumOf, At

\* The product is a matrix of numbers.
LEMMA ProductType ==
  ASSUME NEW h \in Nat, NEW w \in Nat, NEW p \in Nat, NEW M \in Matrices(h, w), NEW B \in Matrices(w, p)
  PROVE  MatMul(M, B, h, w, p) \in Matrices(h, p)
<1> DEFINE Z == MatMul(M, B, h, w, p)
<1>1. Z = [c \in Cells(h * p) |-> Z[c]]
  BY DEF MatMul
<1>2. ASSUME NEW r \in Cells(h), NEW k \in Cells(p) PROVE At(Z, p, r, k) \in Number
  <2>1. Pairs(M, B, w, p, r, k) \in Vector(w)
    BY PairsAreNumbers
  <2> QED
    BY <2>1, ProductCell, SumOfNumbers
<1> HIDE DEF Z
<1>3. Z \in Matrices(h, p)
  BY <1>1, <1>2, MatrixByCells
<1> QED
  BY <1>3 DEF Z

\* The product is what its cells say.
LEMMA ProductIs ==
  ASSUME NEW h \in Nat, NEW w \in Nat, NEW p \in Nat, NEW M \in Matrices(h, w), NEW B \in Matrices(w, p),
         NEW Z \in Matrices(h, p),
         \A r \in Cells(h), k \in Cells(p) : At(Z, p, r, k) = SumOf(Pairs(M, B, w, p, r, k), w)
  PROVE  MatMul(M, B, h, w, p) = Z
<1> DEFINE Y == MatMul(M, B, h, w, p)
<1>1. Y \in Matrices(h, p)
  BY ProductType
<1>2. ASSUME NEW r \in Cells(h), NEW k \in Cells(p) PROVE At(Y, p, r, k) = At(Z, p, r, k)
  BY ProductCell
<1> HIDE DEF Y
<1>3. Y = Z
  BY <1>1, <1>2, SameMatrix
<1> QED
  BY <1>3 DEF Y

\* R holds the sums over the rows of E, C those over its columns.
Margins(E, R, C, w, h) ==
  /\ \A i \in Cells(w), j \in Cells(h) : E[<<i, j>>] \in Number
  /\ \A i \in Cells(w) : R[i] = SumOf(AlongRow(E, h, i), h)
  /\ \A j \in Cells(h) : C[j] = SumOf(AlongColumn(E, w, j), w)

\* Both add up to the same.
LEMMA SumSwap ==
  ASSUME NEW h \in Nat, NEW w \in Nat, NEW E, NEW R, NEW C, Margins(E, R, C, w, h)
  PROVE  SumOf(R, w) = SumOf(C, h)
<1>1. /\ \A i \in Cells(w), j \in Cells(h) : E[<<i, j>>] \in Number
      /\ \A i \in Cells(w) : R[i] = SumOf(AlongRow(E, h, i), h)
      /\ \A j \in Cells(h) : C[j] = SumOf(AlongColumn(E, w, j), w)
  BY DEF Margins
<1>2. 0 \in Int /\ w - 1 \in Int /\ h - 1 \in Int /\ 0 - 1 <= w - 1 /\ 0 - 1 <= h - 1
      /\ Cells(w) = 0 .. w - 1 /\ Cells(h) = 0 .. h - 1
  BY DEF Cells
<1> DEFINE rows == [i \in 0 .. w - 1 |-> Total(AlongRow(E, h, i), 0, h - 1)]
           columns == [j \in 0 .. h - 1 |-> Total(AlongColumn(E, w, j), 0, w - 1)]
<1>3. Total(rows, 0, w - 1) = Total(columns, 0, h - 1)
  <2>1. \A i \in 0 .. w - 1, j \in 0 .. h - 1 : E[<<i, j>>] \in Number
    BY <1>1, <1>2
  <2> QED
    BY <2>1, TotalSwap
<1>4. ASSUME NEW i \in Cells(w) PROVE rows[i] = R[i] /\ R[i] \in Number
  <2>1. AlongRow(E, h, i) = [j \in Cells(h) |-> E[<<i, j>>]]
    BY <1>2 DEF AlongRow
  <2>2. AlongRow(E, h, i) \in Vector(h)
    BY <1>1, <2>1 DEF Vector
  <2>3. R[i] = SumOf(AlongRow(E, h, i), h) /\ SumOf(AlongRow(E, h, i), h) \in Number
    BY <1>1, <2>1, <2>2, SumOfNumbers
  <2>4. rows[i] = Total(AlongRow(E, h, i), 0, h - 1)
    BY <1>2
  <2> QED
    BY <2>3, <2>4 DEF SumOf
<1>5. ASSUME NEW j \in Cells(h) PROVE columns[j] = C[j] /\ C[j] \in Number
  <2>1. AlongColumn(E, w, j) = [i \in Cells(w) |-> E[<<i, j>>]]
    BY <1>2 DEF AlongColumn
  <2>2. AlongColumn(E, w, j) \in Vector(w)
    BY <1>1, <2>1 DEF Vector
  <2>3. C[j] = SumOf(AlongColumn(E, w, j), w) /\ SumOf(AlongColumn(E, w, j), w) \in Number
    BY <1>1, <2>1, <2>2, SumOfNumbers
  <2>4. columns[j] = Total(AlongColumn(E, w, j), 0, w - 1)
    BY <1>2
  <2> QED
    BY <2>3, <2>4 DEF SumOf
<1>6. rows \in Vector(w) /\ columns \in Vector(h)
  <2>1. /\ rows = [i \in Cells(w) |-> rows[i]] /\ columns = [j \in Cells(h) |-> columns[j]]
    BY <1>2
  <2> HIDE DEF rows, columns
  <2> QED
    BY <1>4, <1>5, <2>1 DEF Vector
<1> HIDE DEF rows, columns
<1>7. SumOf(R, w) = SumOf(rows, w)
  BY <1>4, <1>6, SumsOfEqual
<1>8. SumOf(C, h) = SumOf(columns, h)
  BY <1>5, <1>6, SumsOfEqual
<1> QED
  BY <1>3, <1>7, <1>8 DEF SumOf

\* (M B) C = M (B C)
LEMMA ProductAssociative ==
  ASSUME NEW h \in Nat, NEW w \in Nat, NEW p \in Nat, NEW q \in Nat,
         NEW M \in Matrices(h, w), NEW B \in Matrices(w, p), NEW C \in Matrices(p, q)
  PROVE  MatMul(MatMul(M, B, h, w, p), C, h, p, q) = MatMul(M, MatMul(B, C, w, p, q), h, w, q)
<1> DEFINE MB == MatMul(M, B, h, w, p)
           BC == MatMul(B, C, w, p, q)
<1>1. MB \in Matrices(h, p) /\ BC \in Matrices(w, q)
  BY ProductType
<1>2. \A r \in Cells(h), j \in Cells(p) : At(MB, p, r, j) = SumOf(Pairs(M, B, w, p, r, j), w)
  BY ProductCell
<1>3. \A i \in Cells(w), k \in Cells(q) : At(BC, q, i, k) = SumOf(Pairs(B, C, p, q, i, k), p)
  BY ProductCell
<1> HIDE DEF MB, BC
<1> DEFINE Z == MatMul(M, BC, h, w, q)
<1>4. Z \in Matrices(h, q)
  BY <1>1, ProductType
<1>5. \A r \in Cells(h), k \in Cells(q) : At(Z, q, r, k) = SumOf(Pairs(M, BC, w, q, r, k), w)
  BY <1>1, ProductCell
<1> HIDE DEF Z
<1>6. ASSUME NEW r \in Cells(h), NEW k \in Cells(q)
      PROVE  At(Z, q, r, k) = SumOf(Pairs(MB, C, p, q, r, k), p)
  <2> DEFINE a(i) == At(M, w, r, i)
             b(i, j) == At(B, p, i, j)
             c(j) == At(C, q, j, k)
             E == [ij \in Cells(w) \X Cells(p) |-> Mul(a(ij[1]), Mul(b(ij[1], ij[2]), c(ij[2])))]
             R == Pairs(M, BC, w, q, r, k)
             S == Pairs(MB, C, p, q, r, k)
  <2>1. \A i \in Cells(w), j \in Cells(p) : E[<<i, j>>] = Mul(a(i), Mul(b(i, j), c(j)))
    OBVIOUS
  <2>2. \A i \in Cells(w), j \in Cells(p) : b(i, j) \in Number
    BY AtNumber
  <2>3. \A i \in Cells(w) : a(i) \in Number
    BY AtNumber
  <2>4. \A j \in Cells(p) : c(j) \in Number
    BY AtNumber
  <2>5. ASSUME NEW i \in Cells(w), NEW j \in Cells(p)
        PROVE  E[<<i, j>>] \in Number /\ E[<<i, j>>] = Mul(c(j), Mul(a(i), b(i, j)))
    <3>1. a(i) \in Number /\ b(i, j) \in Number /\ c(j) \in Number
      BY <2>2, <2>3, <2>4
    <3>2. E[<<i, j>>] = Mul(a(i), Mul(b(i, j), c(j)))
      BY <2>1
    <3> HIDE DEF a, b, c, E
    <3>3. Mul(b(i, j), c(j)) \in Number /\ Mul(a(i), b(i, j)) \in Number
      BY <3>1, NumbersClosed
    <3>4. Mul(a(i), Mul(b(i, j), c(j))) \in Number
      BY <3>1, <3>3, NumbersClosed
    <3>5. Mul(Mul(a(i), b(i, j)), c(j)) = Mul(a(i), Mul(b(i, j), c(j)))
      BY <3>1, MulAssociative
    <3>6. Mul(Mul(a(i), b(i, j)), c(j)) = Mul(c(j), Mul(a(i), b(i, j)))
      BY <3>1, <3>3, AddCommutes DEF Number
    <3> QED
      BY <3>4, <3>5, <3>6, <3>2
  <2>6. ASSUME NEW i \in Cells(w)
        PROVE  R[i] = SumOf(AlongRow(E, p, i), p)
    <3> DEFINE u == AlongRow(E, p, i)
               v == Pairs(B, C, p, q, i, k)
    <3>1. v \in Vector(p) /\ \A j \in Cells(p) : v[j] = Mul(b(i, j), c(j))
      BY PairsAreNumbers
    <3>2. R[i] = Mul(a(i), At(BC, q, i, k))
      BY <1>1, PairsAreNumbers
    <3>3. At(BC, q, i, k) = SumOf(v, p)
      BY <1>3
    <3>4. \A j \in Cells(p) : u[j] = Mul(a(i), v[j])
      BY <2>1, <3>1 DEF AlongRow, Cells
    <3>5. a(i) \in Number
      BY <2>3
    <3> HIDE DEF a, u, v
    <3>6. SumOf(u, p) = Mul(a(i), SumOf(v, p))
      BY <3>1, <3>4, <3>5, SumScaled
    <3> QED
      BY <3>2, <3>3, <3>6 DEF u
  <2>7. ASSUME NEW j \in Cells(p)
        PROVE  S[j] = SumOf(AlongColumn(E, w, j), w)
    <3> DEFINE u == AlongColumn(E, w, j)
               v == Pairs(M, B, w, p, r, j)
    <3>1. v \in Vector(w) /\ \A i \in Cells(w) : v[i] = Mul(a(i), b(i, j))
      BY PairsAreNumbers
    <3>2. S[j] = Mul(At(MB, p, r, j), c(j))
      BY <1>1, PairsAreNumbers
    <3>3. At(MB, p, r, j) = SumOf(v, w)
      BY <1>2
    <3>4. \A i \in Cells(w) : u[i] = Mul(c(j), v[i])
      BY <2>5, <3>1 DEF AlongColumn, Cells
    <3>5. c(j) \in Number
      BY <2>4
    <3> HIDE DEF c, u, v
    <3>6. SumOf(u, w) = Mul(c(j), SumOf(v, w))
      BY <3>1, <3>4, <3>5, SumScaled
    <3>7. SumOf(v, w) \in Number
      BY <3>1, SumOfNumbers
    <3>8. Mul(c(j), SumOf(v, w)) = Mul(SumOf(v, w), c(j))
      BY <3>5, <3>7, AddCommutes DEF Number
    <3> QED
      BY <3>2, <3>3, <3>6, <3>8 DEF u
  <2> HIDE DEF a, b, c, E, R, S
  <2>8. SumOf(R, w) = SumOf(S, p)
    <3>1. Margins(E, R, S, w, p)
      BY <2>5, <2>6, <2>7 DEF Margins
    <3> QED
      BY <3>1, SumSwap
  <2> QED
    BY <1>5, <2>8 DEF R, S
<1>7. MatMul(MB, C, h, p, q) = Z
  BY <1>1, <1>4, <1>6, ProductIs
<1> QED
  BY <1>7 DEF MB, Z, BC

\* Rows become columns.
LEMMA TurnedCell ==
  ASSUME NEW h \in Nat, NEW w \in Nat, NEW M, NEW i \in Cells(h), NEW j \in Cells(w)
  PROVE  Transpose(M, h, w)[j * h + i] = M[i * w + j]
<1>1. h * j + i \in Cells(w * h) /\ (h * j + i) \div h = j /\ (h * j + i) % h = i
  BY CellOf
<1>2. h * j + i = j * h + i /\ w * h = h * w
  BY DEF Cells
<1> QED
  BY <1>1, <1>2 DEF Transpose

\* The transpose.
LEMMA TransposeCells ==
  ASSUME NEW h \in Nat, NEW w \in Nat, NEW M \in Matrices(h, w)
  PROVE  /\ Transpose(M, h, w) \in Matrices(w, h)
         /\ \A i \in Cells(h), j \in Cells(w) : At(Transpose(M, h, w), h, j, i) = At(M, w, i, j)
<1> DEFINE Z == Transpose(M, h, w)
<1>1. h * w = w * h /\ Z = [c \in Cells(h * w) |-> Z[c]]
  BY DEF Transpose
<1>2. ASSUME NEW i \in Cells(h), NEW j \in Cells(w)
      PROVE  At(Z, h, j, i) = At(M, w, i, j) /\ At(M, w, i, j) \in Number
  <2>1. i \in Int /\ j \in Int
    BY DEF Cells
  <2>2. h * j + i = j * h + i /\ w * i + j = i * w + j
    BY <2>1
  <2>3. Z[j * h + i] = M[i * w + j]
    BY TurnedCell
  <2>4. At(M, w, i, j) \in Number
    BY AtNumber
  <2> HIDE DEF Z
  <2> QED
    BY <2>2, <2>3, <2>4 DEF At
<1> HIDE DEF Z
<1>3. Z = [c \in Cells(w * h) |-> Z[c]]
  BY <1>1
<1>4. \A j \in Cells(w), i \in Cells(h) : At(Z, h, j, i) \in Number
  BY <1>2
<1>5. Z \in Matrices(w, h)
  BY <1>3, <1>4, MatrixByCells
<1> QED
  BY <1>2, <1>5 DEF Z

\* Turned twice it is as before.
LEMMA TransposeTwice ==
  ASSUME NEW h \in Nat, NEW w \in Nat, NEW M \in Matrices(h, w)
  PROVE  Transpose(Transpose(M, h, w), w, h) = M
<1> DEFINE T == Transpose(M, h, w)
<1>1. T \in Matrices(w, h) /\ \A i \in Cells(h), j \in Cells(w) : At(T, h, j, i) = At(M, w, i, j)
  BY TransposeCells
<1> HIDE DEF T
<1> DEFINE Z == Transpose(T, w, h)
<1>2. Z \in Matrices(h, w) /\ \A j \in Cells(w), i \in Cells(h) : At(Z, w, i, j) = At(T, h, j, i)
  BY <1>1, TransposeCells
<1> HIDE DEF Z
<1>3. Z = M
  BY <1>1, <1>2, SameMatrix
<1> QED
  BY <1>3 DEF Z, T

\* (M B)' = B' M'
LEMMA TransposeProduct ==
  ASSUME NEW h \in Nat, NEW w \in Nat, NEW p \in Nat, NEW M \in Matrices(h, w), NEW B \in Matrices(w, p)
  PROVE  Transpose(MatMul(M, B, h, w, p), h, p) = MatMul(Transpose(B, w, p), Transpose(M, h, w), p, w, h)
<1> DEFINE MB == MatMul(M, B, h, w, p)
           BT == Transpose(B, w, p)
           MT == Transpose(M, h, w)
<1>1. MB \in Matrices(h, p) /\ \A r \in Cells(h), k \in Cells(p) : At(MB, p, r, k) = SumOf(Pairs(M, B, w, p, r, k), w)
  BY ProductType, ProductCell
<1>2. BT \in Matrices(p, w) /\ \A i \in Cells(w), k \in Cells(p) : At(BT, w, k, i) = At(B, p, i, k)
  BY TransposeCells
<1>3. MT \in Matrices(w, h) /\ \A r \in Cells(h), i \in Cells(w) : At(MT, h, i, r) = At(M, w, r, i)
  BY TransposeCells
<1> HIDE DEF MB, BT, MT
<1> DEFINE Z == Transpose(MB, h, p)
<1>4. Z \in Matrices(p, h) /\ \A r \in Cells(h), k \in Cells(p) : At(Z, h, k, r) = At(MB, p, r, k)
  BY <1>1, TransposeCells
<1> HIDE DEF Z
<1>5. ASSUME NEW k \in Cells(p), NEW r \in Cells(h)
      PROVE  At(Z, h, k, r) = SumOf(Pairs(BT, MT, w, h, k, r), w)
  <2> DEFINE v == Pairs(M, B, w, p, r, k)
             u == Pairs(BT, MT, w, h, k, r)
  <2>1. v \in Vector(w) /\ \A i \in Cells(w) : v[i] = Mul(At(M, w, r, i), At(B, p, i, k))
    BY PairsAreNumbers
  <2>2. \A i \in Cells(w) : u[i] = Mul(At(BT, w, k, i), At(MT, h, i, r))
    BY <1>2, <1>3, PairsAreNumbers
  <2> HIDE DEF u, v
  <2>3. ASSUME NEW i \in Cells(w) PROVE u[i] = v[i]
    <3>1. At(M, w, r, i) \in Number /\ At(B, p, i, k) \in Number
      BY AtNumber
    <3>2. Mul(At(M, w, r, i), At(B, p, i, k)) = Mul(At(B, p, i, k), At(M, w, r, i))
      BY <3>1, AddCommutes DEF Number
    <3> QED
      BY <1>2, <1>3, <2>1, <2>2, <3>2
  <2>4. SumOf(u, w) = SumOf(v, w)
    BY <2>1, <2>3, SumsOfEqual
  <2> QED
    BY <1>1, <1>4, <2>4 DEF u, v
<1>6. MatMul(BT, MT, p, w, h) = Z
  BY <1>2, <1>3, <1>4, <1>5, ProductIs
<1> QED
  BY <1>6 DEF Z, BT, MT, MB

\* The identity.
LEMMA IdentityCells ==
  ASSUME NEW m \in Nat
  PROVE  /\ Identity(m) \in Matrices(m, m)
         /\ \A r, k \in Cells(m) : At(Identity(m), m, r, k) = IF r = k THEN One ELSE Zero
<1> DEFINE Z == Identity(m)
<1>1. ASSUME NEW r \in Cells(m), NEW k \in Cells(m)
      PROVE  At(Z, m, r, k) = IF r = k THEN One ELSE Zero
  <2>1. m * r + k \in Cells(m * m) /\ (m * r + k) \div m = r /\ (m * r + k) % m = k
    BY CellOf
  <2> QED
    BY <2>1 DEF At, Identity
<1>2. Z = [c \in Cells(m * m) |-> Z[c]]
  BY DEF Identity
<1> HIDE DEF Z
<1>3. \A r, k \in Cells(m) : At(Z, m, r, k) \in Number
  BY <1>1, NumbersClosed
<1>4. Z \in Matrices(m, m)
  BY <1>2, <1>3, MatrixByCells
<1> QED
  BY <1>1, <1>4 DEF Z

\* It changes nothing, on the left and on the right.
LEMMA IdentityIsNeutral ==
  ASSUME NEW h \in Nat, NEW w \in Nat, NEW M \in Matrices(h, w)
  PROVE  MatMul(Identity(h), M, h, h, w) = M /\ MatMul(M, Identity(w), h, w, w) = M
<1>1. ASSUME NEW r \in Cells(h), NEW k \in Cells(w)
      PROVE  At(M, w, r, k) = SumOf(Pairs(Identity(h), M, h, w, r, k), h)
  <2> DEFINE v == Pairs(Identity(h), M, h, w, r, k)
  <2>1. Identity(h) \in Matrices(h, h) /\ \A i \in Cells(h) : At(Identity(h), h, r, i) = IF r = i THEN One ELSE Zero
    BY IdentityCells
  <2>2. \A i \in Cells(h) : v[i] = Mul(At(Identity(h), h, r, i), At(M, w, i, k))
    BY <2>1, PairsAreNumbers
  <2> HIDE DEF v
  <2>3. ASSUME NEW i \in Cells(h) PROVE v[i] = IF i = r THEN At(M, w, r, k) ELSE Zero
    <3>1. At(M, w, i, k) \in Number
      BY AtNumber
    <3>2. Mul(One, At(M, w, i, k)) = At(M, w, i, k) /\ Mul(Zero, At(M, w, i, k)) = Zero
      BY <3>1, OneIsNeutral
    <3> QED
      BY <2>1, <2>2, <3>2
  <2>4. v[r] = At(M, w, r, k) /\ v[r] \in Number
    BY <2>3, AtNumber
  <2>5. SumOf(v, h) = v[r]
    BY <2>3, <2>4, SumOfOne
  <2> QED
    BY <2>4, <2>5 DEF v
<1>2. ASSUME NEW r \in Cells(h), NEW k \in Cells(w)
      PROVE  At(M, w, r, k) = SumOf(Pairs(M, Identity(w), w, w, r, k), w)
  <2> DEFINE v == Pairs(M, Identity(w), w, w, r, k)
  <2>1. Identity(w) \in Matrices(w, w) /\ \A i \in Cells(w) : At(Identity(w), w, i, k) = IF i = k THEN One ELSE Zero
    BY IdentityCells
  <2>2. \A i \in Cells(w) : v[i] = Mul(At(M, w, r, i), At(Identity(w), w, i, k))
    BY <2>1, PairsAreNumbers
  <2> HIDE DEF v
  <2>3. ASSUME NEW i \in Cells(w) PROVE v[i] = IF i = k THEN At(M, w, r, k) ELSE Zero
    <3>1. At(M, w, r, i) \in Number
      BY AtNumber
    <3>2. Mul(At(M, w, r, i), One) = At(M, w, r, i) /\ Mul(At(M, w, r, i), Zero) = Zero
      BY <3>1, OneIsNeutral
    <3> QED
      BY <2>1, <2>2, <3>2
  <2>4. v[k] = At(M, w, r, k) /\ v[k] \in Number
    BY <2>3, AtNumber
  <2>5. SumOf(v, w) = v[k]
    BY <2>3, <2>4, SumOfOne
  <2> QED
    BY <2>4, <2>5 DEF v
<1>3. Identity(h) \in Matrices(h, h) /\ Identity(w) \in Matrices(w, w)
  BY IdentityCells
<1>4. MatMul(Identity(h), M, h, h, w) = M
  BY <1>1, <1>3, ProductIs
<1>5. MatMul(M, Identity(w), h, w, w) = M
  BY <1>2, <1>3, ProductIs
<1> QED
  BY <1>4, <1>5

\* Row i of L times row j.
RowsTimes(L, m, i, j) == [k \in Cells(m) |-> Mul(At(L, m, i, k), At(L, m, j, k))]

\* The elementwise product of two rows is a vector.
LEMMA RowsTimesNumbers ==
  ASSUME NEW m \in Nat, NEW L \in Matrices(m, m), NEW i \in Cells(m), NEW j \in Cells(m)
  PROVE  /\ RowsTimes(L, m, i, j) \in Vector(m) /\ SumOf(RowsTimes(L, m, i, j), m) \in Number
         /\ \A k \in Cells(m) : RowsTimes(L, m, i, j)[k] = Mul(At(L, m, i, k), At(L, m, j, k))
<1>1. ASSUME NEW k \in Cells(m)
      PROVE  Mul(At(L, m, i, k), At(L, m, j, k)) \in Number
  <2>1. At(L, m, i, k) \in Number /\ At(L, m, j, k) \in Number
    BY AtNumber
  <2> QED
    BY <2>1, NumbersClosed
<1>2. RowsTimes(L, m, i, j) \in Vector(m)
  BY <1>1 DEF RowsTimes, Vector
<1> QED
  BY <1>2, SumOfNumbers DEF RowsTimes

\* The cells of L * L'.
LEMMA GramCells ==
  ASSUME NEW m \in Nat, NEW L \in Matrices(m, m)
  PROVE  /\ MatMul(L, Transpose(L, m, m), m, m, m) \in Matrices(m, m)
         /\ \A i, j \in Cells(m) : At(MatMul(L, Transpose(L, m, m), m, m, m), m, i, j) = SumOf(RowsTimes(L, m, i, j), m)
<1> DEFINE T == Transpose(L, m, m)
<1>1. T \in Matrices(m, m) /\ \A j, k \in Cells(m) : At(T, m, k, j) = At(L, m, j, k)
  BY TransposeCells
<1> HIDE DEF T
<1> DEFINE Z == MatMul(L, T, m, m, m)
<1>2. Z \in Matrices(m, m) /\ \A i, j \in Cells(m) : At(Z, m, i, j) = SumOf(Pairs(L, T, m, m, i, j), m)
  BY <1>1, ProductType, ProductCell
<1> HIDE DEF Z
<1>3. ASSUME NEW i \in Cells(m), NEW j \in Cells(m)
      PROVE  At(Z, m, i, j) = SumOf(RowsTimes(L, m, i, j), m)
  <2> DEFINE v == RowsTimes(L, m, i, j)
             u == Pairs(L, T, m, m, i, j)
  <2>1. v \in Vector(m) /\ \A k \in Cells(m) : v[k] = Mul(At(L, m, i, k), At(L, m, j, k))
    BY RowsTimesNumbers
  <2>2. \A k \in Cells(m) : u[k] = Mul(At(L, m, i, k), At(T, m, k, j))
    BY <1>1, PairsAreNumbers
  <2>3. At(Z, m, i, j) = SumOf(u, m)
    BY <1>2
  <2> HIDE DEF u, v
  <2>4. \A k \in Cells(m) : u[k] = v[k]
    BY <1>1, <2>1, <2>2
  <2> QED
    BY <2>1, <2>3, <2>4, SumsOfEqual DEF v
<1> QED
  BY <1>2, <1>3 DEF Z, T

\* The cells of a sum with a multiple.
LEMMA AddedCells ==
  ASSUME NEW h \in Nat, NEW w \in Nat, NEW M \in Matrices(h, w), NEW B \in Matrices(h, w), NEW q \in Number
  PROVE  /\ MatAdd(M, Scaled(B, q)) \in Matrices(h, w)
         /\ \A i \in Cells(h), j \in Cells(w) : At(MatAdd(M, Scaled(B, q)), w, i, j) = Add(At(M, w, i, j), Mul(q, At(B, w, i, j)))
<1> DEFINE Z == MatAdd(M, Scaled(B, q))
<1>1. DOMAIN M = Cells(h * w) /\ DOMAIN B = Cells(h * w)
  BY DEF Matrices, Vector
<1>2. Z = [c \in Cells(h * w) |-> Z[c]] /\ \A c \in Cells(h * w) : Z[c] = Add(M[c], Mul(q, B[c]))
  BY <1>1 DEF MatAdd, Scaled
<1> HIDE DEF Z
<1>3. ASSUME NEW i \in Cells(h), NEW j \in Cells(w)
      PROVE  /\ At(Z, w, i, j) = Add(At(M, w, i, j), Mul(q, At(B, w, i, j)))
             /\ At(Z, w, i, j) \in Number
  <2>1. w * i + j \in Cells(h * w)
    BY CellOf
  <2>2. At(Z, w, i, j) = Add(At(M, w, i, j), Mul(q, At(B, w, i, j)))
    BY <1>2, <2>1 DEF At
  <2>3. At(M, w, i, j) \in Number /\ At(B, w, i, j) \in Number
    BY AtNumber
  <2> QED
    BY <2>2, <2>3, NumbersClosed
<1>4. Z \in Matrices(h, w)
  BY <1>2, <1>3, MatrixByCells
<1> QED
  BY <1>3, <1>4 DEF Z

\* The cells of x * x'.
LEMMA OuterCells ==
  ASSUME NEW m \in Nat, NEW x \in Vector(m)
  PROVE  /\ MatMul(x, x, m, 1, m) \in Matrices(m, m)
         /\ \A i, j \in Cells(m) : At(MatMul(x, x, m, 1, m), m, i, j) = Mul(x[i], x[j])
<1>1. m * 1 = m /\ 1 * m = m
  OBVIOUS
<1>2. x \in Matrices(m, 1) /\ x \in Matrices(1, m)
  BY <1>1 DEF Matrices
<1>3. 1 \in Nat /\ 0 \in Cells(1) /\ \A k \in Cells(1) : k = 0
  BY DEF Cells
<1>4. MatMul(x, x, m, 1, m) \in Matrices(m, m)
  BY <1>2, <1>3, ProductType
<1>5. ASSUME NEW i \in Cells(m), NEW j \in Cells(m)
      PROVE  At(MatMul(x, x, m, 1, m), m, i, j) = Mul(x[i], x[j])
  <2> DEFINE v == Pairs(x, x, 1, m, i, j)
  <2>1. v \in Vector(1) /\ v[0] = Mul(At(x, 1, i, 0), At(x, m, 0, j))
    BY <1>2, <1>3, PairsAreNumbers
  <2>2. 1 * i + 0 = i /\ m * 0 + j = j
    BY DEF Cells
  <2>3. v[0] = Mul(x[i], x[j])
    BY <2>1, <2>2 DEF At
  <2>4. At(MatMul(x, x, m, 1, m), m, i, j) = SumOf(v, 1)
    BY <1>2, <1>3, ProductCell
  <2> HIDE DEF v
  <2>5. v[0] \in Number
    BY <1>3, <2>1, SumOfNumbers
  <2>6. SumOf(v, 1) = v[0]
    BY <1>3, <2>5, SumOfOne
  <2> QED
    BY <2>3, <2>4, <2>6
<1> QED
  BY <1>4, <1>5

\* Two sums that differ in one element.
LEMMA SumChanged ==
  ASSUME NEW w \in Nat, NEW u \in Vector(w), NEW v \in Vector(w), NEW j \in Cells(w),
         \A i \in Cells(w) : i # j => u[i] = v[i]
  PROVE  Add(SumOf(u, w), v[j]) = Add(SumOf(v, w), u[j])
<1> DEFINE d == [i \in Cells(w) |-> Sub(u[i], v[i])]
<1>1. SumOf(u, w) \in Number /\ SumOf(v, w) \in Number /\ \A i \in Cells(w) : u[i] \in Number /\ v[i] \in Number
  BY SumOfNumbers
<1>2. d \in Vector(w) /\ \A i \in Cells(w) : d[i] = Sub(u[i], v[i]) /\ d[i] \in Number
  BY <1>1, NumbersClosed DEF Vector
<1> HIDE DEF d
<1>3. \A i \in Cells(w) : i # j => d[i] = Zero
  BY <1>1, <1>2, SubUndoes
<1>4. \A i \in Cells(w) : u[i] = Add(v[i], d[i])
  <2> TAKE i \in Cells(w)
  <2>1. Add(Sub(u[i], v[i]), v[i]) = u[i] /\ Add(d[i], v[i]) = Add(v[i], d[i])
    BY <1>1, <1>2, SubUndoes, AddCommutes DEF Number
  <2> QED
    BY <1>2, <2>1
<1>5. SumOf(u, w) = Add(SumOf(v, w), SumOf(d, w)) /\ SumOf(d, w) = d[j]
  BY <1>2, <1>3, <1>4, SumAdded, SumOfOne
<1>6. Add(Add(SumOf(v, w), d[j]), v[j]) = Add(SumOf(v, w), Add(d[j], v[j]))
  BY <1>1, <1>2, AddAssociative DEF Number
<1>7. Add(d[j], v[j]) = u[j]
  BY <1>1, <1>2, SubUndoes
<1> QED
  BY <1>5, <1>6, <1>7

\* A sum in two parts.
LEMMA TotalJoins ==
  ASSUME NEW o \in Nat, NEW w \in Nat, NEW v, Numbers(v, 0, o + w - 1), NEW u, Numbers(u, 0, w - 1),
         \A q \in 0 .. w - 1 : u[q] = v[o + q]
  PROVE  Total(v, 0, o + w - 1) = Add(Total(v, 0, o - 1), Total(u, 0, w - 1))
<1> DEFINE t == Total(v, 0, o - 1)
           T == {q \in Nat : q <= w => Total(v, 0, o + q - 1) = Add(t, Total(u, 0, q - 1))}
<1>1. t \in Number
  <2>1. Numbers(v, 0, o - 1)
    BY DEF Numbers
  <2> QED
    BY <2>1, TotalType
<1>2. 0 \in T
  <2>1. o + 0 - 1 = o - 1 /\ 0 - 1 \in Int /\ 0 \in Int
    OBVIOUS
  <2>2. Total(u, 0, 0 - 1) = Zero
    BY <2>1, TotalEmpty
  <2>3. Add(t, Zero) = t
    BY <1>1, OneIsNeutral
  <2> QED
    BY <2>1, <2>2, <2>3
<1> HIDE DEF t
<1>3. ASSUME NEW q \in T PROVE q + 1 \in T
  <2> SUFFICES ASSUME q + 1 <= w PROVE Total(v, 0, o + q) = Add(t, Total(u, 0, q))
    <3>1. o + (q + 1) - 1 = o + q /\ (q + 1) - 1 = q
      OBVIOUS
    <3> QED
      BY <3>1
  <2>1. q \in Nat /\ q \in 0 .. w - 1 /\ o + q \in Int /\ 0 <= o + q /\ o + q \in 0 .. o + w - 1
    OBVIOUS
  <2>2. Numbers(v, 0, o + q) /\ Numbers(u, 0, q) /\ Numbers(u, 0, q - 1)
    BY <2>1 DEF Numbers
  <2>3. Total(v, 0, o + q) = Add(Total(v, 0, o + q - 1), v[o + q]) /\ Total(u, 0, q) = Add(Total(u, 0, q - 1), u[q])
    BY <2>1, <2>2, TotalLast
  <2>4. Total(v, 0, o + q - 1) = Add(t, Total(u, 0, q - 1))
    BY <2>1
  <2>5. Total(u, 0, q - 1) \in Number /\ u[q] \in Number /\ u[q] = v[o + q]
    <3>1. 0 - 1 <= q - 1 /\ q - 1 \in Int
      BY <2>1
    <3> QED
      BY <2>1, <2>2, <3>1, TotalType DEF Numbers
  <2>6. Add(Add(t, Total(u, 0, q - 1)), u[q]) = Add(t, Add(Total(u, 0, q - 1), u[q]))
    BY <1>1, <2>5, AddAssociative DEF Number
  <2> QED
    BY <2>3, <2>4, <2>5, <2>6
<1>4. T \subseteq Nat
  OBVIOUS
<1> HIDE DEF T
<1>5. w \in T
  BY <1>2, <1>3, <1>4, Induct
<1> QED
  BY <1>5 DEF T, t

\* Row l of a matrix that is stored as a vector, and the sums of the rows.
RowPart(v, w, l) == [q \in Cells(w) |-> At(v, w, l, q)]
RowSums(v, h, w) == [l \in Cells(h) |-> SumOf(RowPart(v, w, l), w)]

\* The rows of a matrix are vectors, and so are their sums.
LEMMA RowSumsNumbers ==
  ASSUME NEW h \in Nat, NEW w \in Nat, NEW v \in Matrices(h, w)
  PROVE  /\ \A l \in Cells(h) : RowPart(v, w, l) \in Vector(w) /\ RowSums(v, h, w)[l] = SumOf(RowPart(v, w, l), w)
         /\ RowSums(v, h, w) \in Vector(h)
<1>1. ASSUME NEW l \in Cells(h) PROVE RowPart(v, w, l) \in Vector(w)
  <2>1. \A q \in Cells(w) : At(v, w, l, q) \in Number
    BY AtNumber
  <2> QED
    BY <2>1 DEF RowPart, Vector
<1>2. \A l \in Cells(h) : SumOf(RowPart(v, w, l), w) \in Number
  BY <1>1, SumOfNumbers
<1> QED
  BY <1>1, <1>2 DEF RowSums, Vector

\* The sum of a matrix is the sum of the sums of its rows.
LEMMA SumByRows ==
  ASSUME NEW h \in Nat, NEW w \in Nat, NEW v \in Matrices(h, w)
  PROVE  SumOf(v, h * w) = SumOf(RowSums(v, h, w), h)
<1> DEFINE r == RowSums(v, h, w)
           T == {l \in Nat : l <= h => Total(v, 0, w * l - 1) = Total(r, 0, l - 1)}
<1>1. /\ \A l \in Cells(h) : RowPart(v, w, l) \in Vector(w) /\ r[l] = SumOf(RowPart(v, w, l), w)
      /\ r \in Vector(h)
  BY RowSumsNumbers
<1> HIDE DEF r
<1>2. h * w \in Nat /\ v \in Vector(h * w)
  BY DEF Matrices
<1>3. Numbers(v, 0, h * w - 1) /\ Numbers(r, 0, h - 1)
  BY <1>1, <1>2, SumOfNumbers
<1>4. 0 \in T
  <2>1. w * 0 - 1 = 0 - 1 /\ 0 - 1 \in Int /\ 0 \in Int
    OBVIOUS
  <2>2. Total(v, 0, 0 - 1) = Zero /\ Total(r, 0, 0 - 1) = Zero
    BY <2>1, TotalEmpty
  <2> QED
    BY <2>1, <2>2
<1>5. ASSUME NEW l \in T PROVE l + 1 \in T
  <2> DEFINE o == w * l
             u == RowPart(v, w, l)
  <2> SUFFICES ASSUME l + 1 <= h PROVE Total(v, 0, o + w - 1) = Total(r, 0, l)
    <3>1. w * (l + 1) - 1 = o + w - 1 /\ (l + 1) - 1 = l
      OBVIOUS
    <3> QED
      BY <3>1
  <2>1. l \in Nat /\ l <= h /\ l \in Cells(h) /\ l \in 0 .. h - 1
    BY DEF Cells
  <2>2. o \in Nat /\ o + w <= h * w
    <3>1. w * (l + 1) <= w * h
      BY <2>1
    <3> QED
      BY <2>1, <3>1
  <2>3. u \in Vector(w) /\ r[l] = SumOf(u, w) /\ \A q \in Cells(w) : u[q] = v[o + q]
    BY <1>1, <2>1 DEF RowPart, At
  <2>4. Total(v, 0, o - 1) = Total(r, 0, l - 1)
    BY <2>1
  <2> HIDE DEF o, u
  <2>5. Numbers(v, 0, o + w - 1) /\ Numbers(u, 0, w - 1)
    <3>1. \A k \in 0 .. o + w - 1 : k \in 0 .. h * w - 1
      BY <1>2, <2>2
    <3> QED
      BY <1>3, <2>3, <3>1, SumOfNumbers DEF Numbers
  <2>6. Total(v, 0, o + w - 1) = Add(Total(v, 0, o - 1), Total(u, 0, w - 1))
    <3>1. \A q \in 0 .. w - 1 : u[q] = v[o + q]
      BY <2>3 DEF Cells
    <3> QED
      BY <2>2, <2>5, <3>1, TotalJoins
  <2>7. Total(r, 0, l) = Add(Total(r, 0, l - 1), r[l])
    <3>1. Numbers(r, 0, l)
      BY <1>3, <2>1 DEF Numbers
    <3> QED
      BY <2>1, <3>1, TotalLast
  <2> QED
    BY <2>3, <2>4, <2>6, <2>7 DEF SumOf
<1>6. T \subseteq Nat
  OBVIOUS
<1> HIDE DEF T
<1>7. h \in T
  BY <1>4, <1>5, <1>6, Induct
<1>8. w * h = h * w
  OBVIOUS
<1> QED
  BY <1>7, <1>8 DEF T, r, SumOf

\* What column k of M adds up along v.
Dot(v, M, h, w, k) == [j \in Cells(h) |-> Mul(v[j], At(M, w, j, k))]
SquaresOf(v, h) == [j \in Cells(h) |-> Mul(v[j], v[j])]

\* The products with v are numbers.
LEMMA DotNumbers ==
  ASSUME NEW h \in Nat, NEW w \in Nat, NEW v \in Vector(h), NEW M \in Matrices(h, w), NEW k \in Cells(w)
  PROVE  /\ Dot(v, M, h, w, k) \in Vector(h) /\ SumOf(Dot(v, M, h, w, k), h) \in Number
         /\ SquaresOf(v, h) \in Vector(h) /\ SumOf(SquaresOf(v, h), h) \in Number
<1>1. \A j \in Cells(h) : Mul(v[j], At(M, w, j, k)) \in Number /\ Mul(v[j], v[j]) \in Number
  <2> TAKE j \in Cells(h)
  <2>1. v[j] \in Number /\ At(M, w, j, k) \in Number
    BY AtNumber DEF Vector
  <2> QED
    BY <2>1, NumbersClosed
<1>2. Dot(v, M, h, w, k) \in Vector(h) /\ SquaresOf(v, h) \in Vector(h)
  BY <1>1 DEF Dot, SquaresOf, Vector
<1> QED
  BY <1>2, SumOfNumbers

\* Of a product with a matrix of NaNs nothing is a number.
LEMMA ProductFractions ==
  ASSUME NEW h \in Nat, NEW w \in Nat, NEW p \in Nat, NEW M \in FractionCells(h * w), NEW B \in FractionCells(w * p)
  PROVE  /\ MatMul(M, B, h, w, p) \in FractionCells(h * p)
         /\ w # 0 /\ (\A r \in Cells(h), i \in Cells(w) : ~IsNumber(At(M, w, r, i))) =>
              \A r \in Cells(h), k \in Cells(p) : ~IsNumber(At(MatMul(M, B, h, w, p), p, r, k))
<1> DEFINE N == MatMul(M, B, h, w, p)
           Void == \A r \in Cells(h), i \in Cells(w) : ~IsNumber(At(M, w, r, i))
<1>1. ASSUME NEW r \in Cells(h), NEW k \in Cells(p)
      PROVE  At(N, p, r, k) \in Fraction /\ (w # 0 /\ Void => ~IsNumber(At(N, p, r, k)))
  <2> DEFINE c == p * r + k
             hi == w - 1
             lo == 0
             e(i) == Mul(M[(c \div p) * w + i], B[(c % p) + i * p])
             v == [i \in lo .. hi |-> e(i)]
             P(f) == f = [i \in lo - 1 .. hi |-> IF i < lo THEN Zero ELSE Add(f[i - 1], e(i))]
             z == CHOOSE f : P(f)
  <2>1. c \in Cells(h * p) /\ c \div p = r /\ c % p = k
    BY CellOf
  <2>2. N[c] = IF hi < lo THEN Zero ELSE z[hi]
    BY <2>1 DEF MatMul, SumOver, For
  <2>3. /\ lo \in Int /\ hi \in Int
        /\ \A i \in lo - 1 .. hi : ~(i < lo) => v[i] = e(i)
        /\ \A i \in lo .. hi : i \in Cells(w) /\ v[i] = e(i)
    BY DEF Cells
  <2>4. \A i \in lo .. hi : e(i) = Mul(At(M, w, r, i), At(B, p, i, k)) /\ At(M, w, r, i) \in Fraction /\ At(B, p, i, k) \in Fraction
    <3> TAKE i \in lo .. hi
    <3>1. w * r + i \in Cells(h * w) /\ p * i + k \in Cells(w * p)
      BY <2>3, CellOf
    <3>2. r * w + i = w * r + i /\ k + i * p = p * i + k
      BY <2>3 DEF Cells
    <3> QED
      BY <2>1, <3>1, <3>2 DEF At, FractionCells
  <2>5. v \in [lo .. hi -> Fraction]
    <3>1. \A i \in lo .. hi : e(i) \in Fraction
      BY <2>4, Closed
    <3> QED
      BY <3>1
  <2> HIDE DEF e, v, c
  <2>6. PICK s \in [lo - 1 .. hi -> Fraction] : Sums(s, v, lo, hi)
    BY <2>3, <2>5, SumsExist
  <2>7. P(s)
    <3>1. \A i \in lo - 1 .. hi : s[i] = IF i < lo THEN Zero ELSE Add(s[i - 1], e(i))
      BY <2>3, <2>6 DEF Sums
    <3> QED
      BY <3>1
  <2> HIDE DEF P
  <2>8. P(z)
    BY <2>7
  <2> HIDE DEF z
  <2>9. \A i \in lo - 1 .. hi : z[i] = s[i]
    <3>1. Sums(z, v, lo, hi)
      BY <2>3, <2>8 DEF P, Sums
    <3> QED
      BY <2>3, <2>6, <3>1, SumsAgree
  <2>10. ~(hi < lo) => hi \in lo - 1 .. hi /\ hi - 1 \in lo - 1 .. hi /\ hi \in lo .. hi
    BY <2>3
  <2>11. N[c] \in Fraction
    BY <2>2, <2>6, <2>9, <2>10, ZeroIsNeutral
  <2>12. ASSUME w # 0, Void PROVE ~IsNumber(N[c])
    <3>1. ~(hi < lo)
      BY <2>12
    <3>2. N[c] = Add(s[hi - 1], v[hi]) /\ s[hi - 1] \in Fraction /\ v[hi] \in Fraction
      BY <2>2, <2>5, <2>6, <2>9, <2>10, <3>1 DEF Sums
    <3>3. ~IsNumber(v[hi])
      <4>1. v[hi] = Mul(At(M, w, r, hi), At(B, p, hi, k)) /\ At(M, w, r, hi) \in Fraction /\ At(B, p, hi, k) \in Fraction
        BY <2>3, <2>4, <2>10, <3>1
      <4>2. ~IsNumber(At(M, w, r, hi))
        BY <2>3, <2>10, <2>12, <3>1
      <4> QED
        BY <4>1, <4>2, NotANumberStays, NanIsFraction
    <3> QED
      BY <3>2, <3>3, NotANumberStays, NanIsFraction
  <2> QED
    BY <2>11, <2>12 DEF At, c
<1>2. N \in FractionCells(h * p)
  <2>1. N = [e \in Cells(h * p) |-> N[e]]
    BY DEF MatMul
  <2>2. \A e \in Cells(h * p) : N[e] \in Fraction
    <3> TAKE e \in Cells(h * p)
    <3>1. e \div p \in Cells(h) /\ e % p \in Cells(p) /\ e = p * (e \div p) + (e % p)
      BY PartsOf
    <3> QED
      BY <1>1, <3>1 DEF At
  <2> HIDE DEF N
  <2> QED
    BY <2>1, <2>2 DEF FractionCells
<1> QED
  BY <1>1, <1>2

-----------------------------------------------------------------------------
(* Blocks: copies of rows (cut, insert, cat, hankel).                       *)

\* Cell c is in the copy of row q.
Covers(c, to, width, len, q) == to + q * width <= c /\ c < to + q * width + len

\* Rows 0 to i have been copied, to cells that are not touched again, and no other
\* cell has changed.
CopyStage(m, V, dst, to, to_width, src, from, from_width, len, i) ==
  {B \in [Cells(m) -> V] : \A c \in Cells(m) :
     /\ \A q \in 0 .. i : Covers(c, to, to_width, len, q) => B[c] = src[from + q * from_width + (c - (to + q * to_width))]
     /\ (\A q \in 0 .. i : ~Covers(c, to, to_width, len, q)) => B[c] = dst[c]}

\* Rows that are not wider than their distance do not overlap.
LEMMA RowsApart ==
  ASSUME NEW to \in Int, NEW width \in Nat, NEW len \in Nat, len <= width, NEW c \in Int,
         NEW q \in Nat, NEW i \in Nat, q < i, Covers(c, to, width, len, q)
  PROVE  ~Covers(c, to, width, len, i)
<1>1. (q + 1) * width <= i * width
  OBVIOUS
<1>2. (q + 1) * width = q * width + width
  OBVIOUS
<1>3. q * width \in Int /\ i * width \in Int
  OBVIOUS
<1> QED
  BY <1>1, <1>2, <1>3 DEF Covers

\* The memcpy of row i.
LEMMA CopyStep ==
  ASSUME NEW m \in Nat, NEW V, NEW dst, NEW src, NEW to \in Int, NEW to_width \in Nat,
         NEW from \in Int, NEW from_width \in Int, NEW len \in Nat, len <= to_width, NEW i \in Nat,
         \A k \in 0 .. len - 1 : src[from + i * from_width + k] \in V,
         NEW B \in CopyStage(m, V, dst, to, to_width, src, from, from_width, len, i - 1)
  PROVE  Copied(B, to + i * to_width, src, from + i * from_width, len)
           \in CopyStage(m, V, dst, to, to_width, src, from, from_width, len, i)
<1> DEFINE C == Copied(B, to + i * to_width, src, from + i * from_width, len)
           there == to + i * to_width
           here == from + i * from_width
<1>1. there \in Int /\ here \in Int
  OBVIOUS
<1>2. B \in [Cells(m) -> V] /\ DOMAIN B = Cells(m)
  BY DEF CopyStage
<1>3. C = [c \in Cells(m) |-> IF there <= c /\ c < there + len THEN src[here + c - there] ELSE B[c]]
  BY <1>2 DEF Copied
<1> HIDE DEF C
<1>4. ASSUME NEW c \in Cells(m), Covers(c, to, to_width, len, i)
      PROVE  C[c] = src[here + (c - there)] /\ C[c] \in V
  <2>1. c \in Int /\ there <= c /\ c < there + len
    BY <1>4 DEF Covers, Cells
  <2>2. c - there \in 0 .. len - 1 /\ here + c - there = here + (c - there)
    BY <1>1, <2>1
  <2> QED
    BY <1>3, <2>1, <2>2
<1>5. ASSUME NEW c \in Cells(m), ~Covers(c, to, to_width, len, i)
      PROVE  C[c] = B[c]
  BY <1>3, <1>5 DEF Covers
<1>6. C \in [Cells(m) -> V]
  BY <1>2, <1>3, <1>4, <1>5
<1>7. \A q \in 0 .. i : q = i \/ (q \in 0 .. i - 1 /\ q < i /\ q \in Nat)
  OBVIOUS
<1>8. i \in 0 .. i /\ \A q \in 0 .. i - 1 : q \in 0 .. i
  OBVIOUS
<1> HIDE DEF there, here
<1>9. ASSUME NEW c \in Cells(m), NEW q \in 0 .. i, Covers(c, to, to_width, len, q)
      PROVE  C[c] = src[from + q * from_width + (c - (to + q * to_width))]
  <2>1. CASE q = i
    BY <1>4, <1>9, <2>1 DEF there, here
  <2>2. CASE q # i
    <3>1. c \in Int /\ q \in 0 .. i - 1 /\ q < i /\ q \in Nat
      BY <1>7, <2>2 DEF Cells
    <3>2. ~Covers(c, to, to_width, len, i)
      BY <1>9, <3>1, RowsApart
    <3> QED
      BY <1>5, <1>9, <3>1, <3>2 DEF CopyStage
  <2> QED
    BY <2>1, <2>2
<1>10. ASSUME NEW c \in Cells(m), \A q \in 0 .. i : ~Covers(c, to, to_width, len, q)
       PROVE  C[c] = dst[c]
  BY <1>5, <1>8, <1>10 DEF CopyStage
<1> QED
  BY <1>6, <1>9, <1>10 DEF CopyStage, C

\* All rows.
LEMMA CopyRuns ==
  ASSUME NEW m \in Nat, NEW V, NEW dst \in [Cells(m) -> V], NEW src, NEW to \in Int, NEW to_width \in Nat,
         NEW from \in Int, NEW from_width \in Int, NEW len \in Nat, len <= to_width, NEW rows \in Nat,
         \A q \in 0 .. rows - 1, k \in 0 .. len - 1 : src[from + q * from_width + k] \in V
  PROVE  RowsCopied(dst, to, to_width, src, from, from_width, rows, len)
           \in CopyStage(m, V, dst, to, to_width, src, from, from_width, len, rows - 1)
<1> DEFINE lo == 0
           hi == rows - 1
           start == dst
           B(s, i) == Copied(s, to + i * to_width, src, from + i * from_width, len)
           P(f) == f = [i \in lo - 1 .. hi |-> IF i < lo THEN start ELSE B(f[i - 1], i)]
           z == CHOOSE f : P(f)
           body == [q \in [Cells(m) -> V] \X Int |-> B(q[1], q[2])]
           Source(i) == CopyStage(m, V, dst, to, to_width, src, from, from_width, len, i)
           Stage == [i \in lo - 1 .. hi |-> Source(i)]
<1>1. RowsCopied(dst, to, to_width, src, from, from_width, rows, len) = IF hi < lo THEN start ELSE z[hi]
  BY DEF RowsCopied, For
<1>2. lo \in Int /\ hi \in Int /\ lo - 1 \in lo - 1 .. hi /\ hi \in lo - 1 .. hi /\ (hi < lo => hi = lo - 1)
  OBVIOUS
<1>3. start \in [Cells(m) -> V] /\ start \in Source(lo - 1)
  BY DEF CopyStage
<1>4. ASSUME NEW i \in lo .. hi, NEW s \in Source(i - 1)
      PROVE  B(s, i) \in Source(i) /\ body[<<s, i>>] = B(s, i)
  <2>1. i \in Nat /\ i \in 0 .. rows - 1
    OBVIOUS
  <2>2. s \in [Cells(m) -> V]
    BY DEF CopyStage
  <2>3. B(s, i) \in Source(i)
    <3>1. \A k \in 0 .. len - 1 : src[from + i * from_width + k] \in V
      BY <2>1
    <3> QED
      BY <2>1, <3>1, CopyStep
  <2>4. body[<<s, i>>] = B(s, i)
    BY <2>1, <2>2
  <2> QED
    BY <2>3, <2>4
<1>5. \A i \in lo - 1 .. hi : Stage[i] = Source(i) /\ Stage[i] \subseteq [Cells(m) -> V]
  BY DEF CopyStage
<1>6. Stage[hi] = Source(rows - 1)
  BY <1>2, <1>5
<1> HIDE DEF Stage, body, start, lo, hi, B, Source
<1>7. \A i \in lo .. hi : i \in lo - 1 .. hi /\ i - 1 \in lo - 1 .. hi /\ ~(i < lo)
  BY <1>2
<1>8. ASSUME NEW i \in lo .. hi, NEW s \in Stage[i - 1]
      PROVE  B(s, i) \in Stage[i] /\ body[<<s, i>>] = B(s, i)
  BY <1>4, <1>5, <1>7
<1>9. start \in Stage[lo - 1]
  BY <1>2, <1>3, <1>5
<1>10. PICK f : Runs(f, lo, hi, start, body) /\ \A i \in lo - 1 .. hi : f[i] \in Stage[i]
  <2>1. Leads(lo, hi, start, body, Stage)
    BY <1>8, <1>9 DEF Leads
  <2> QED
    BY <1>2, <1>3, <1>5, <2>1, LoopRuns
<1>11. P(f)
  <2>1. \A i \in lo - 1 .. hi : ~(i < lo) => body[<<f[i - 1], i>>] = B(f[i - 1], i)
    BY <1>2, <1>7, <1>8, <1>10
  <2> QED
    BY <1>10, <2>1 DEF Runs
<1> HIDE DEF P
<1>12. P(z)
  BY <1>11
<1> HIDE DEF z
<1>13. \A i \in lo - 1 .. hi : z[i] = IF i < lo THEN start ELSE B(z[i - 1], i)
  BY <1>12 DEF P
<1>14. \A i \in lo - 1 .. hi : z[i] \in Stage[i]
  <2>1. z[lo - 1] \in Stage[lo - 1]
    <3>1. lo - 1 \in lo - 1 .. hi /\ lo - 1 < lo
      BY <1>2
    <3>2. z[lo - 1] = start
      BY <1>13, <3>1
    <3> QED
      BY <1>9, <3>2
  <2>2. \A i \in lo .. hi : z[i - 1] \in Stage[i - 1] => z[i] \in Stage[i]
    BY <1>7, <1>8, <1>13
  <2> QED
    BY <1>2, <2>1, <2>2, StagesHold
<1> QED
  BY <1>1, <1>2, <1>6, <1>9, <1>14 DEF Source

\* hb rows of wb cells, from row i and column j on, in a matrix of h rows of w.
BlockIn(h, w, i, j, hb, wb) ==
  /\ h \in Nat /\ w \in Nat /\ i \in Nat /\ j \in Nat /\ hb \in Nat /\ wb \in Nat
  /\ i + hb <= h /\ j + wb <= w

\* C is that block of M.
BlockOf(C, M, w, i, j, hb, wb) ==
  \A q \in Cells(hb), k \in Cells(wb) : C[wb * q + k] = M[w * (i + q) + (j + k)]

\* What cut cuts out.
LEMMA CutCells ==
  ASSUME NEW h, NEW w, NEW i, NEW j, NEW hb, NEW wb, BlockIn(h, w, i, j, hb, wb),
         NEW V, NEW M \in [Cells(h * w) -> V]
  PROVE  /\ Cut(M, w, i, j, hb, wb) \in [Cells(hb * wb) -> V]
         /\ BlockOf(Cut(M, w, i, j, hb, wb), M, w, i, j, hb, wb)
<1> DEFINE C == Cut(M, w, i, j, hb, wb)
           W == V \cup {Unset}
           D == Filled(hb * wb, Unset)
<1> /\ h \in Nat /\ w \in Nat /\ i \in Nat /\ j \in Nat /\ hb \in Nat /\ wb \in Nat
    /\ i + hb <= h /\ j + wb <= w
  BY DEF BlockIn
<1>1. ASSUME NEW q \in Cells(hb), NEW k \in Cells(wb)
      PROVE  /\ (i * w + j) + q * w + k = w * (i + q) + (j + k)
             /\ M[w * (i + q) + (j + k)] \in V
  <2>1. i + q \in Cells(h) /\ j + k \in Cells(w) /\ q \in Int /\ k \in Int
    BY DEF Cells
  <2>2. w * (i + q) + (j + k) \in Cells(h * w)
    BY <2>1, CellOf
  <2>3. i * w = w * i /\ q * w = w * q /\ w * (i + q) = w * i + w * q /\ w * i \in Int /\ w * q \in Int
    BY <2>1
  <2> QED
    BY <2>1, <2>2, <2>3
<1>2. C \in CopyStage(hb * wb, W, D, 0, wb, M, i * w + j, w, wb, hb - 1)
  <2>1. hb * wb \in Nat /\ i * w + j \in Int /\ D \in [Cells(hb * wb) -> W] /\ 0 \in Int /\ w \in Int /\ wb <= wb
    BY DEF Filled
  <2>2. \A q \in 0 .. hb - 1, k \in 0 .. wb - 1 : M[(i * w + j) + q * w + k] \in W
    BY <1>1 DEF Cells
  <2> HIDE DEF W, D
  <2>3. RowsCopied(D, 0, wb, M, i * w + j, w, hb, wb) \in CopyStage(hb * wb, W, D, 0, wb, M, i * w + j, w, wb, hb - 1)
    BY <2>1, <2>2, CopyRuns, Zenon
  <2> QED
    BY <2>3 DEF Cut, D
<1> HIDE DEF C, D, W
<1>3. C \in [Cells(hb * wb) -> W]
  BY <1>2 DEF CopyStage
<1>4. ASSUME NEW q \in Cells(hb), NEW k \in Cells(wb)
      PROVE  C[wb * q + k] = M[w * (i + q) + (j + k)]
  <2> DEFINE c == wb * q + k
  <2>1. c \in Cells(hb * wb) /\ c \in Int
    BY CellOf
  <2>2. q \in 0 .. hb - 1 /\ q \in Int /\ k \in Int /\ 0 <= k /\ k < wb
    BY DEF Cells
  <2>3. c = q * wb + k /\ q * wb \in Int
    BY <2>2
  <2>4. Covers(c, 0, wb, wb, q) /\ c - (0 + q * wb) = k
    BY <2>2, <2>3 DEF Covers
  <2> HIDE DEF c
  <2>5. C[c] = M[(i * w + j) + q * w + (c - (0 + q * wb))]
    BY <1>2, <2>1, <2>2, <2>4 DEF CopyStage
  <2> QED
    BY <1>1, <2>4, <2>5 DEF c
<1>5. \A c \in Cells(hb * wb) : C[c] \in V
  <2> SUFFICES ASSUME NEW c \in Cells(hb * wb) PROVE C[c] \in V
    OBVIOUS
  <2>1. c \div wb \in Cells(hb) /\ c % wb \in Cells(wb) /\ c = wb * (c \div wb) + (c % wb)
    BY PartsOf
  <2>2. C[wb * (c \div wb) + (c % wb)] \in V
    BY <1>1, <1>4, <2>1
  <2> QED
    BY <2>1, <2>2
<1>6. C \in [Cells(hb * wb) -> V]
  BY <1>3, <1>5
<1> QED
  <2>1. BlockOf(C, M, w, i, j, hb, wb)
    BY <1>4 DEF BlockOf
  <2> QED
    BY <1>6, <2>1 DEF C

\* What insert leaves: the block, and around it what was there.
InsertGives(N, D, C, h, w, i, j, hb, wb) ==
  \A r \in Cells(h), k \in Cells(w) :
    At(N, w, r, k) = IF r \in i .. i + hb - 1 /\ k \in j .. j + wb - 1 THEN At(C, wb, r - i, k - j) ELSE At(D, w, r, k)

\* smls_mat_insert changes the cells of the block, and no other.
LEMMA InsertCells ==
  ASSUME NEW h, NEW w, NEW i, NEW j, NEW hb, NEW wb, BlockIn(h, w, i, j, hb, wb),
         NEW V, NEW D \in [Cells(h * w) -> V], NEW C \in [Cells(hb * wb) -> V]
  PROVE  /\ Insert(D, C, hb, wb, w, i, j) \in [Cells(h * w) -> V]
         /\ InsertGives(Insert(D, C, hb, wb, w, i, j), D, C, h, w, i, j, hb, wb)
<1> DEFINE N == Insert(D, C, hb, wb, w, i, j)
<1> /\ h \in Nat /\ w \in Nat /\ i \in Nat /\ j \in Nat /\ hb \in Nat /\ wb \in Nat
    /\ i + hb <= h /\ j + wb <= w
  BY DEF BlockIn
<1>1. N \in CopyStage(h * w, V, D, i * w + j, w, C, 0, wb, wb, hb - 1)
  <2>1. h * w \in Nat /\ i * w + j \in Int /\ wb <= w /\ 0 \in Int /\ wb \in Int
    OBVIOUS
  <2>2. ASSUME NEW q \in 0 .. hb - 1, NEW l \in 0 .. wb - 1
        PROVE  C[0 + q * wb + l] \in V
    <3>1. q \in Cells(hb) /\ l \in Cells(wb) /\ 0 + q * wb + l = wb * q + l
      BY DEF Cells
    <3>2. wb * q + l \in Cells(hb * wb)
      BY <3>1, CellOf
    <3> QED
      BY <3>1, <3>2
  <2>3. RowsCopied(D, i * w + j, w, C, 0, wb, hb, wb) \in CopyStage(h * w, V, D, i * w + j, w, C, 0, wb, wb, hb - 1)
    BY <2>1, <2>2, CopyRuns, Zenon
  <2> QED
    BY <2>3 DEF Insert
<1>2. N \in [Cells(h * w) -> V]
  BY <1>1 DEF CopyStage
<1>3. ASSUME NEW r \in Cells(h), NEW k \in Cells(w)
      PROVE  At(N, w, r, k) = IF r \in i .. i + hb - 1 /\ k \in j .. j + wb - 1 THEN At(C, wb, r - i, k - j) ELSE At(D, w, r, k)
  <2> DEFINE c == w * r + k
  <2>1. c \in Cells(h * w) /\ c \in Int
    BY CellOf
  <2>2. r \in Int /\ k \in Int /\ 0 <= k /\ k <= w - 1 /\ w * r \in Int
    BY DEF Cells
  <2>3. CASE r \in i .. i + hb - 1 /\ k \in j .. j + wb - 1
    <3> DEFINE q == r - i
               l == k - j
    <3>1. q \in Cells(hb) /\ q \in 0 .. hb - 1 /\ q \in Int /\ l \in Cells(wb) /\ l \in Int /\ 0 <= l /\ l < wb /\ i + q = r /\ j + l = k
      BY <2>2, <2>3 DEF Cells
    <3> HIDE DEF q, l
    <3>2. (i * w + j) + q * w = w * (i + q) + j /\ w * (i + q) \in Int
      BY <3>1
    <3>3. Covers(c, i * w + j, w, wb, q) /\ c - ((i * w + j) + q * w) = l
      BY <2>1, <2>2, <3>1, <3>2 DEF Covers
    <3>4. N[c] = C[0 + q * wb + (c - ((i * w + j) + q * w))]
      BY <1>1, <2>1, <3>1, <3>3 DEF CopyStage
    <3>5. 0 + q * wb + l = wb * q + l
      BY <3>1
    <3>6. N[c] = At(C, wb, q, l)
      BY <3>3, <3>4, <3>5 DEF At
    <3> QED
      BY <2>3, <3>6 DEF q, l, At
  <2>4. CASE ~(r \in i .. i + hb - 1 /\ k \in j .. j + wb - 1)
    <3>1. ASSUME NEW q \in 0 .. hb - 1, Covers(c, i * w + j, w, wb, q)
          PROVE  FALSE
      <4> DEFINE l == c - w * (i + q)
      <4>1. (i * w + j) + q * w = w * (i + q) + j /\ w * (i + q) \in Int /\ i + q \in Int
        OBVIOUS
      <4>2. l \in Int /\ j <= l /\ l < j + wb /\ l \in 0 .. w - 1 /\ c = w * (i + q) + l
        BY <2>1, <3>1, <4>1 DEF Covers
      <4> HIDE DEF l, c
      <4>3. c \div w = i + q /\ c % w = l
        BY <4>1, <4>2, DivModUnique
      <4>4. c \div w = r /\ c % w = k
        BY CellOf DEF c
      <4> QED
        BY <2>2, <2>4, <4>1, <4>2, <4>3, <4>4
    <3>2. N[c] = D[c]
      BY <1>1, <2>1, <3>1 DEF CopyStage
    <3> QED
      BY <2>4, <3>2 DEF At
  <2> QED
    BY <2>3, <2>4
<1> QED
  BY <1>2, <1>3 DEF InsertGives

\* N is that block of M among cells of z.
BlockAmong(N, M, h, w, i, j, hb, wb, z) ==
  \A r \in Cells(h), k \in Cells(w) :
    N[w * r + k] = IF r \in i .. i + hb - 1 /\ k \in j .. j + wb - 1 THEN M[w * r + k] ELSE z

\* A block inserted where it was cut out.
LEMMA InsertedBack ==
  ASSUME NEW h, NEW w, NEW i, NEW j, NEW hb, NEW wb, BlockIn(h, w, i, j, hb, wb),
         NEW V, NEW M \in [Cells(h * w) -> V], NEW z \in V
  PROVE  BlockAmong(Insert(Filled(h * w, z), Cut(M, w, i, j, hb, wb), hb, wb, w, i, j), M, h, w, i, j, hb, wb, z)
<1> DEFINE C == Cut(M, w, i, j, hb, wb)
           D == Filled(h * w, z)
           N == Insert(D, C, hb, wb, w, i, j)
<1>1. /\ h \in Nat /\ w \in Nat /\ i \in Nat /\ j \in Nat /\ hb \in Nat /\ wb \in Nat
      /\ i + hb <= h /\ j + wb <= w
  BY DEF BlockIn
<1>2. C \in [Cells(hb * wb) -> V] /\ BlockOf(C, M, w, i, j, hb, wb)
  BY CutCells
<1>3. D \in [Cells(h * w) -> V] /\ \A c \in Cells(h * w) : D[c] = z
  BY DEF Filled
<1> HIDE DEF C, D
<1>4. InsertGives(N, D, C, h, w, i, j, hb, wb)
  BY <1>2, <1>3, InsertCells
<1> HIDE DEF N
<1>5. ASSUME NEW r \in Cells(h), NEW k \in Cells(w)
      PROVE  N[w * r + k] = IF r \in i .. i + hb - 1 /\ k \in j .. j + wb - 1 THEN M[w * r + k] ELSE z
  <2>1. N[w * r + k] =
          IF r \in i .. i + hb - 1 /\ k \in j .. j + wb - 1 THEN C[wb * (r - i) + (k - j)] ELSE D[w * r + k]
    BY <1>4, <1>5 DEF InsertGives, At
  <2>2. D[w * r + k] = z
    BY <1>1, <1>3, <1>5, CellOf
  <2>3. ASSUME r \in i .. i + hb - 1, k \in j .. j + wb - 1
        PROVE  C[wb * (r - i) + (k - j)] = M[w * r + k]
    <3> DEFINE q == r - i
               l == k - j
    <3>1. q \in Cells(hb) /\ l \in Cells(wb) /\ i + q = r /\ j + l = k
      BY <1>1, <1>5, <2>3 DEF Cells
    <3> HIDE DEF q, l
    <3>2. C[wb * q + l] = M[w * r + k]
      BY <1>2, <3>1 DEF BlockOf
    <3> QED
      BY <3>2 DEF q, l
  <2> QED
    BY <2>1, <2>2, <2>3
<1> QED
  BY <1>5 DEF BlockAmong, N, C, D

\* C is rows of M, whole.
RowsOf(C, M, w, first, count) == \A c \in Cells(count * w) : C[c] = M[first * w + c]

\* Whole rows cut out keep their order.
LEMMA RowsCut ==
  ASSUME NEW h, NEW w, NEW first, NEW count, BlockIn(h, w, first, 0, count, w),
         NEW V, NEW M \in [Cells(h * w) -> V]
  PROVE  RowsOf(Cut(M, w, first, 0, count, w), M, w, first, count)
<1> SUFFICES ASSUME NEW c \in Cells(count * w)
             PROVE  Cut(M, w, first, 0, count, w)[c] = M[first * w + c]
  BY DEF RowsOf
<1> DEFINE C == Cut(M, w, first, 0, count, w)
           q == c \div w
           k == c % w
<1>1. w \in Nat /\ first \in Nat /\ count \in Nat
  BY DEF BlockIn
<1>2. BlockOf(C, M, w, first, 0, count, w)
  BY CutCells
<1>3. q \in Cells(count) /\ k \in Cells(w) /\ c = w * q + k
  BY <1>1, PartsOf
<1> HIDE DEF C, q, k
<1>4. C[w * q + k] = M[w * (first + q) + (0 + k)]
  BY <1>2, <1>3 DEF BlockOf
<1>5. w * (first + q) + (0 + k) = first * w + (w * q + k)
  BY <1>1, <1>3 DEF Cells
<1> QED
  BY <1>3, <1>4, <1>5 DEF C

\* The first row above the others.
LEMMA StackedAgain ==
  ASSUME NEW h \in Nat, h # 0, NEW w \in Nat, NEW V, NEW M \in [Cells(h * w) -> V]
  PROVE  CatVertical(Cut(M, w, 0, 0, 1, w), Cut(M, w, 1, 0, h - 1, w), 1, h - 1, w) = M
<1> DEFINE T == Cut(M, w, 0, 0, 1, w)
           R == Cut(M, w, 1, 0, h - 1, w)
           C == CatVertical(T, R, 1, h - 1, w)
<1>1. RowsOf(T, M, w, 0, 1) /\ RowsOf(R, M, w, 1, h - 1)
  <2>1. BlockIn(h, w, 0, 0, 1, w) /\ BlockIn(h, w, 1, 0, h - 1, w)
    BY DEF BlockIn
  <2> QED
    BY <2>1, RowsCut
<1> HIDE DEF T, R
<1>2. /\ \A c \in Cells(1 * w) : T[c] = M[0 * w + c]
      /\ \A c \in Cells((h - 1) * w) : R[c] = M[1 * w + c]
  BY <1>1 DEF RowsOf
<1>3. (1 + (h - 1)) * w = h * w /\ 1 * w = w /\ 0 * w = 0 /\ (h - 1) * w = h * w - w /\ h * w \in Nat
  OBVIOUS
<1>4. C = [c \in Cells(h * w) |->
             IF w <= c /\ c < w + (h - 1) * w THEN R[0 + c - w]
             ELSE IF 0 <= c /\ c < 0 + w THEN T[0 + c - 0] ELSE Unset]
  BY <1>3 DEF CatVertical, Copied, Filled
<1> HIDE DEF C
<1>5. ASSUME NEW c \in Cells(h * w)
      PROVE  C[c] = M[c]
  <2>1. c \in Int /\ 0 <= c /\ c < h * w
    BY <1>3 DEF Cells
  <2>2. CASE w <= c
    <3>1. c - w \in Cells((h - 1) * w) /\ 0 + c - w = c - w /\ 1 * w + (c - w) = c /\ c < w + (h - 1) * w
      BY <1>3, <2>1, <2>2 DEF Cells
    <3>2. C[c] = R[c - w]
      BY <1>4, <2>2, <3>1
    <3> QED
      BY <1>2, <3>1, <3>2
  <2>3. CASE ~(w <= c)
    <3>1. c \in Cells(1 * w) /\ 0 + c - 0 = c /\ 0 * w + c = c /\ c < 0 + w
      BY <1>3, <2>1, <2>3 DEF Cells
    <3>2. C[c] = T[c]
      BY <1>4, <2>1, <2>3, <3>1
    <3> QED
      BY <1>2, <3>1, <3>2
  <2> QED
    BY <2>2, <2>3
<1> QED
  BY <1>4, <1>5 DEF C, T, R

\* The first column beside the others: the first two rows are whole.
LEMMA JoinedAgain ==
  ASSUME NEW h \in Nat, h >= 2, NEW w \in Nat, w # 0, NEW V, NEW M \in [Cells(h * w) -> V],
         NEW c \in Cells(2 * w)
  PROVE  CatHorizontal(Cut(M, w, 0, 0, h, 1), Cut(M, w, 0, 1, h, w - 1), h, 1, w - 1)[c] = M[c]
<1> DEFINE L == Cut(M, w, 0, 0, h, 1)
           R == Cut(M, w, 0, 1, h, w - 1)
           C == CatHorizontal(L, R, h, 1, w - 1)
<1> SUFFICES C[c] = M[c]
  OBVIOUS
<1>1. BlockOf(L, M, w, 0, 0, h, 1) /\ BlockOf(R, M, w, 0, 1, h, w - 1)
  <2>1. BlockIn(h, w, 0, 0, h, 1) /\ BlockIn(h, w, 0, 1, h, w - 1)
    BY DEF BlockIn
  <2> QED
    BY <2>1, CutCells
<1> HIDE DEF L, R
<1>2. L[0] = M[0] /\ L[1] = M[w]
  <2>1. 0 \in Cells(h) /\ 1 \in Cells(h) /\ 0 \in Cells(1)
    BY DEF Cells
  <2>2. L[1 * 0 + 0] = M[w * (0 + 0) + (0 + 0)] /\ L[1 * 1 + 0] = M[w * (0 + 1) + (0 + 0)]
    BY <1>1, <2>1 DEF BlockOf
  <2> QED
    BY <2>2
<1>3. ASSUME NEW k \in 0 .. w - 2
      PROVE  R[k] = M[1 + k] /\ R[(w - 1) + k] = M[w + 1 + k]
  <2>1. 0 \in Cells(h) /\ 1 \in Cells(h) /\ k \in Cells(w - 1)
    BY DEF Cells
  <2>2. R[(w - 1) * 0 + k] = M[w * (0 + 0) + (1 + k)] /\ R[(w - 1) * 1 + k] = M[w * (0 + 1) + (1 + k)]
    BY <1>1, <2>1 DEF BlockOf
  <2>3. (w - 1) * 0 + k = k /\ (w - 1) * 1 + k = (w - 1) + k /\ w * (0 + 0) + (1 + k) = 1 + k /\ w * (0 + 1) + (1 + k) = w + 1 + k
    OBVIOUS
  <2> QED
    BY <2>2, <2>3
<1>4. 1 + (w - 1) = w
  OBVIOUS
<1>5. C = [k \in Cells(h * w) |->
             IF w + 1 <= k /\ k < w + 1 + (w - 1) THEN R[(w - 1) + k - (w + 1)]
             ELSE IF w <= k /\ k < w + 1 THEN L[1 + k - w]
             ELSE IF 1 <= k /\ k < 1 + (w - 1) THEN R[0 + k - 1]
             ELSE IF 0 <= k /\ k < 0 + 1 THEN L[0 + k - 0] ELSE Unset]
  BY <1>4 DEF CatHorizontal, Copied, Filled
<1> HIDE DEF C
<1>6. c \in Int /\ 0 <= c /\ c < w + w /\ c \in Cells(h * w)
  <2>1. c \in Int /\ 0 <= c /\ c < w + w
    BY DEF Cells
  <2> DEFINE d == h - 2
  <2>2. d \in Nat /\ h = 2 + d
    OBVIOUS
  <2> HIDE DEF d
  <2>3. d * w \in Nat /\ h * w = 2 * w + d * w
    BY <2>2
  <2> QED
    BY <2>1, <2>3 DEF Cells
<1>7. CASE w + 1 <= c
  <2>1. c - (w + 1) \in 0 .. w - 2 /\ (w - 1) + c - (w + 1) = (w - 1) + (c - (w + 1)) /\ w + 1 + (c - (w + 1)) = c
    BY <1>6, <1>7
  <2>2. C[c] = R[(w - 1) + (c - (w + 1))]
    BY <1>5, <1>6, <1>7, <2>1
  <2> QED
    BY <1>3, <2>1, <2>2
<1>8. CASE c = w
  <2>1. C[c] = L[1]
    BY <1>5, <1>6, <1>8
  <2> QED
    BY <1>2, <1>8, <2>1
<1>9. CASE 1 <= c /\ c < w
  <2>1. c - 1 \in 0 .. w - 2 /\ 0 + c - 1 = c - 1 /\ 1 + (c - 1) = c
    BY <1>6, <1>9
  <2>2. C[c] = R[c - 1]
    BY <1>5, <1>6, <1>9, <2>1
  <2> QED
    BY <1>3, <2>1, <2>2
<1>10. CASE c = 0
  <2>1. C[c] = L[0]
    BY <1>5, <1>6, <1>10
  <2> QED
    BY <1>2, <1>10, <2>1
<1> QED
  BY <1>6, <1>7, <1>8, <1>9, <1>10

\* A cell lies in the first len cells of row p.
LEMMA InRow ==
  ASSUME NEW x \in Nat, x # 0, NEW c \in Int, NEW p \in Int, NEW len \in Nat, len <= x
  PROVE  (x * p <= c /\ c < x * p + len) <=> (c \div x = p /\ c % x < len)
<1>1. c \div x \in Int /\ c % x \in 0 .. x - 1 /\ c = x * (c \div x) + (c % x)
  BY DivMod
<1>2. x * p \in Int
  OBVIOUS
<1>3. ASSUME x * p <= c, c < x * p + len
      PROVE  c \div x = p /\ c % x < len
  <2> DEFINE k == c - x * p
  <2>1. k \in 0 .. x - 1 /\ k < len /\ c = x * p + k
    BY <1>2, <1>3
  <2> HIDE DEF k
  <2>2. (x * p + k) \div x = p /\ (x * p + k) % x = k
    BY <2>1, DivModUnique
  <2> QED
    BY <2>1, <2>2
<1>4. ASSUME c \div x = p, c % x < len
      PROVE  x * p <= c /\ c < x * p + len
  <2> DEFINE k == c % x
  <2>1. c = x * p + k /\ k \in 0 .. x - 1 /\ k < len
    BY <1>1, <1>4
  <2> HIDE DEF k
  <2> QED
    BY <1>2, <2>1
<1> QED
  BY <1>3, <1>4

\* The widths and shifts that hankel can do with, for the block rows before block i.
HankelFits(w, x, s, i) ==
  /\ w \in Nat \ {0} /\ i \in Nat /\ s \in Nat /\ i + s <= w + 1
  /\ (x = w /\ s \in {0, 1}) \/ (x = w + 1 /\ s = 0)

\* A row of block i is loaded up to the end of the signal.
LEMMA HankelLoaded ==
  ASSUME NEW v \in Nat, v # 0, NEW w, NEW x, NEW s, NEW i \in Nat, HankelFits(w, x, s, i + 1)
  PROVE  /\ HankelLoad(i, v, w, x, s) = w - i - s
         /\ w - i - s \in Nat /\ w - i - s <= x /\ x \in Nat /\ x # 0
<1>1. w \in Nat /\ s \in Nat /\ w # 0 /\ i + 1 + s <= w + 1
  BY DEF HankelFits
<1>2. (v - 1) * w = v * w - w /\ v * w \in Int
  BY <1>1
<1>3. CASE x = w /\ s = 0
  <2>1. HankelLoad(i, v, w, x, s) = IF v * w - w + i + s + (x - i) > v * w THEN x - i - 1 ELSE x - i
    BY <1>1, <1>2, <1>3 DEF HankelLoad
  <2> QED
    BY <1>1, <1>2, <1>3, <2>1
<1>4. CASE x = w /\ s = 1
  <2>1. HankelLoad(i, v, w, x, s) = IF v * w - w + i + s + (x - i) > v * w THEN x - i - 1 ELSE x - i
    BY <1>1, <1>2, <1>4 DEF HankelLoad
  <2> QED
    BY <1>1, <1>2, <1>4, <2>1
<1>5. CASE x = w + 1 /\ s = 0
  <2>1. HankelLoad(i, v, w, x, s) = IF v * w - w + i + s + (x - i) > v * w THEN x - i - 1 ELSE x - i
    BY <1>1, <1>2, <1>5 DEF HankelLoad
  <2> QED
    BY <1>1, <1>2, <1>5, <2>1
<1> QED
  BY <1>3, <1>4, <1>5 DEF HankelFits

\* What cell c of the finished matrix holds, and its block row.
HankelCell(M, v, w, x, s, c) ==
  LET block == (c \div x) \div v
      series == (c \div x) % v
      time == (c % x) + block + s
  IN  IF time < w THEN M[series * w + time] ELSE Zero
BlockRow(c, v, x) == (c \div x) \div v

\* Block rows up to i are finished, the others zero.
HankelStage(M, v, w, h, x, s, i) ==
  {H \in [Cells(h * x) -> Fraction] : \A c \in Cells(h * x) :
     H[c] = IF BlockRow(c, v, x) <= i THEN HankelCell(M, v, w, x, s, c) ELSE Zero}

\* One block row.
HankelRows(H, M, v, w, x, s, i) ==
  RowsCopied(H, i * v * x, x, M, i + s, w, v, HankelLoad(i, v, w, x, s))

\* It finishes block row i and leaves those before as they are.
LEMMA HankelStep ==
  ASSUME NEW v \in Nat, v # 0, NEW w, NEW x, NEW s, NEW i \in Nat, HankelFits(w, x, s, i + 1),
         NEW h \in Nat, NEW M \in [Cells(v * w) -> Fraction], NEW H \in HankelStage(M, v, w, h, x, s, i - 1)
  PROVE  HankelRows(H, M, v, w, x, s, i) \in HankelStage(M, v, w, h, x, s, i)
<1> DEFINE len == w - i - s
           to == i * v * x
           N == HankelRows(H, M, v, w, x, s, i)
<1>1. w \in Nat /\ s \in Nat /\ w # 0
  BY DEF HankelFits
<1>2. HankelLoad(i, v, w, x, s) = len /\ len \in Nat /\ len <= x /\ x \in Nat /\ x # 0
  BY HankelLoaded
<1>3. H \in [Cells(h * x) -> Fraction]
  BY DEF HankelStage
<1>4. ASSUME NEW q \in 0 .. v - 1, NEW k \in 0 .. len - 1
      PROVE  M[(i + s) + q * w + k] \in Fraction
  <2> DEFINE t == i + s + k
  <2>1. q \in Cells(v) /\ q \in Int /\ t \in Cells(w) /\ t \in Int /\ (i + s) + q * w + k = w * q + t
    BY <1>1, <1>2 DEF Cells
  <2> HIDE DEF t
  <2>2. w * q + t \in Cells(v * w)
    BY <1>1, <2>1, CellOf
  <2> QED
    BY <2>1, <2>2
<1>5. to \in Int /\ h * x \in Nat /\ i + s \in Int /\ w \in Int
  BY <1>1, <1>2
<1>6. N = RowsCopied(H, to, x, M, i + s, w, v, len)
  BY <1>2 DEF HankelRows
<1> HIDE DEF len, to, N
<1>7. N \in CopyStage(h * x, Fraction, H, to, x, M, i + s, w, len, v - 1)
  BY <1>2, <1>3, <1>4, <1>5, <1>6, CopyRuns, Zenon
<1>8. N \in [Cells(h * x) -> Fraction]
  BY <1>7 DEF CopyStage
<1>9. ASSUME NEW c \in Cells(h * x)
      PROVE  N[c] = IF BlockRow(c, v, x) <= i THEN HankelCell(M, v, w, x, s, c) ELSE Zero
  <2> DEFINE R == c \div x
             k == c % x
             block == R \div v
             series == R % v
  <2>1. c \in Int /\ R \in Int /\ k \in 0 .. x - 1 /\ c = x * R + k
    <3>1. c \in Int
      BY <1>5 DEF Cells
    <3> QED
      BY <1>2, <3>1, DivMod
  <2> HIDE DEF R, k
  <2>2. block \in Int /\ series \in 0 .. v - 1 /\ R = v * block + series
    BY <2>1, DivMod
  <2>3. BlockRow(c, v, x) = block
    BY DEF BlockRow, R
  <2>4. HankelCell(M, v, w, x, s, c) = IF k + block + s < w THEN M[series * w + (k + block + s)] ELSE Zero
    BY DEF HankelCell, R, k
  <2> HIDE DEF block, series
  <2>5. H[c] = IF block <= i - 1 THEN HankelCell(M, v, w, x, s, c) ELSE Zero
    BY <2>3 DEF HankelStage
  <2>6. ASSUME NEW q \in 0 .. v - 1
        PROVE  Covers(c, to, x, len, q) <=> (R = i * v + q /\ k < len)
    <3> DEFINE p == i * v + q
    <3>1. p \in Int /\ to + q * x = x * p
      BY <1>2 DEF to
    <3> HIDE DEF p
    <3>2. (x * p <= c /\ c < x * p + len) <=> (c \div x = p /\ c % x < len)
      BY <1>2, <2>1, <3>1, InRow
    <3> QED
      BY <3>1, <3>2 DEF Covers, R, k, p
  <2>7. ASSUME NEW q \in 0 .. v - 1, R = i * v + q
        PROVE  block = i /\ series = q
    <3>1. (v * i + q) \div v = i /\ (v * i + q) % v = q /\ v * i + q = R
      BY <2>7, DivModUnique
    <3> QED
      BY <3>1 DEF block, series
  <2>8. CASE block = i /\ k < len
    <3>1. R = i * v + series
      BY <2>2, <2>8
    <3>2. Covers(c, to, x, len, series)
      BY <2>2, <2>6, <2>8, <3>1
    <3>3. N[c] = M[(i + s) + series * w + (c - (to + series * x))]
      BY <1>7, <2>2, <3>2 DEF CopyStage
    <3>4. to + series * x = x * R
      BY <1>2, <2>2, <3>1 DEF to
    <3>5. c - (to + series * x) = k
      BY <1>2, <2>1, <3>4
    <3>6. (i + s) + series * w + k = series * w + (k + block + s) /\ k + block + s < w
      BY <1>1, <2>1, <2>2, <2>8 DEF len
    <3> QED
      BY <2>3, <2>4, <2>8, <3>3, <3>5, <3>6
  <2>9. CASE ~(block = i /\ k < len)
    <3>1. N[c] = H[c]
      <4>1. \A q \in 0 .. v - 1 : ~Covers(c, to, x, len, q)
        BY <2>6, <2>7, <2>9
      <4> QED
        BY <1>7, <4>1 DEF CopyStage
    <3>2. CASE block = i
      <4>1. ~(k + block + s < w)
        BY <1>1, <2>1, <2>9, <3>2 DEF len
      <4> QED
        BY <2>3, <2>4, <2>5, <3>1, <3>2, <4>1
    <3>3. CASE block # i
      BY <2>2, <2>3, <2>5, <3>1, <3>3
    <3> QED
      BY <3>2, <3>3
  <2> QED
    BY <2>8, <2>9
<1> QED
  BY <1>8, <1>9 DEF HankelStage, N

\* All block rows: row_h is as many times v rows.
LEMMA HankelRuns ==
  ASSUME NEW v \in Nat, v # 0, NEW w, NEW x, NEW s, NEW h \in Nat, h % v = 0, HankelFits(w, x, s, h \div v),
         NEW M \in [Cells(v * w) -> Fraction]
  PROVE  Hankel(M, v, w, h, x, s) \in HankelStage(M, v, w, h, x, s, h \div v - 1)
<1> DEFINE lo == 0
           hi == h \div v - 1
           start == Filled(h * x, Zero)
           B(H, i) == HankelRows(H, M, v, w, x, s, i)
           P(f) == f = [i \in lo - 1 .. hi |-> IF i < lo THEN start ELSE B(f[i - 1], i)]
           z == CHOOSE f : P(f)
           body == [q \in [Cells(h * x) -> Fraction] \X Int |-> B(q[1], q[2])]
           Source(i) == HankelStage(M, v, w, h, x, s, i)
           Stage == [i \in lo - 1 .. hi |-> Source(i)]
<1>1. Hankel(M, v, w, h, x, s) = IF hi < lo THEN start ELSE z[hi]
  BY DEF Hankel, For, HankelRows
<1> DEFINE blocks == h \div v
<1>2. blocks \in Nat
  BY DEF HankelFits
<1> HIDE DEF blocks
<1>3. hi = blocks - 1
  BY DEF blocks
<1>4. lo \in Int /\ hi \in Int /\ lo - 1 \in lo - 1 .. hi /\ hi \in lo - 1 .. hi /\ (hi < lo => hi = lo - 1)
  BY <1>2, <1>3
<1>5. start \in [Cells(h * x) -> Fraction] /\ start \in Source(lo - 1)
  <2>1. w \in Nat /\ x \in Nat /\ x # 0
    BY DEF HankelFits
  <2>2. ASSUME NEW c \in Cells(h * x)
        PROVE  ~(BlockRow(c, v, x) <= -1)
    <3>1. c \div x \in Cells(h)
      BY <2>1, PartsOf
    <3> DEFINE R == c \div x
    <3>2. R \in Int /\ R >= 0
      BY <3>1 DEF Cells
    <3> HIDE DEF R
    <3>3. R \div v \in Int /\ R % v \in 0 .. v - 1 /\ R = v * (R \div v) + (R % v)
      BY <3>2, DivMod
    <3> DEFINE b == R \div v
               r == R % v
    <3>4. b \in Int /\ r \in 0 .. v - 1 /\ v * b + r >= 0
      BY <3>2, <3>3
    <3>5. BlockRow(c, v, x) = b
      BY DEF BlockRow, R
    <3> HIDE DEF b, r
    <3>6. b <= -1 => v * b <= -v
      BY <3>4
    <3> QED
      BY <3>4, <3>5, <3>6
  <2>3. Zero \in Fraction
    BY NumbersClosed DEF Number
  <2> QED
    BY <2>2, <2>3 DEF HankelStage, Filled
<1>6. ASSUME NEW i \in lo .. hi, NEW H \in Source(i - 1)
      PROVE  B(H, i) \in Source(i) /\ body[<<H, i>>] = B(H, i)
  <2>1. i \in Nat /\ i \in Int /\ i + 1 <= blocks
    BY <1>2, <1>3
  <2>2. H \in [Cells(h * x) -> Fraction]
    BY DEF HankelStage
  <2>3. HankelFits(w, x, s, i + 1)
    BY <1>2, <2>1 DEF HankelFits, blocks
  <2>4. B(H, i) \in Source(i)
    BY <2>1, <2>3, HankelStep
  <2>5. body[<<H, i>>] = B(H, i)
    BY <2>1, <2>2
  <2> QED
    BY <2>4, <2>5
<1>7. \A i \in lo - 1 .. hi : Stage[i] = Source(i) /\ Stage[i] \subseteq [Cells(h * x) -> Fraction]
  BY DEF HankelStage
<1>8. Stage[hi] = Source(h \div v - 1)
  BY <1>4, <1>7
<1> HIDE DEF Stage, body, start, lo, hi, B, Source
<1>9. \A i \in lo .. hi : i \in lo - 1 .. hi /\ i - 1 \in lo - 1 .. hi /\ ~(i < lo)
  BY <1>4
<1>10. ASSUME NEW i \in lo .. hi, NEW H \in Stage[i - 1]
       PROVE  B(H, i) \in Stage[i] /\ body[<<H, i>>] = B(H, i)
  BY <1>6, <1>7, <1>9
<1>11. start \in Stage[lo - 1]
  BY <1>4, <1>5, <1>7
<1>12. PICK f : Runs(f, lo, hi, start, body) /\ \A i \in lo - 1 .. hi : f[i] \in Stage[i]
  <2> DEFINE S == [Cells(h * x) -> Fraction]
  <2>1. Leads(lo, hi, start, body, Stage)
    BY <1>10, <1>11 DEF Leads
  <2>2. lo \in Int /\ hi \in Int /\ start \in S /\ \A i \in lo - 1 .. hi : Stage[i] \subseteq S
    BY <1>4, <1>5, <1>7
  <2> HIDE DEF S
  <2> QED
    BY <2>1, <2>2, LoopRuns
<1>13. P(f)
  <2>1. \A i \in lo - 1 .. hi : ~(i < lo) => body[<<f[i - 1], i>>] = B(f[i - 1], i)
    BY <1>4, <1>9, <1>10, <1>12
  <2> QED
    BY <1>12, <2>1 DEF Runs
<1> HIDE DEF P
<1>14. P(z)
  BY <1>13
<1> HIDE DEF z
<1>15. \A i \in lo - 1 .. hi : z[i] = IF i < lo THEN start ELSE B(z[i - 1], i)
  BY <1>14 DEF P
<1>16. \A i \in lo - 1 .. hi : z[i] \in Stage[i]
  <2>1. z[lo - 1] \in Stage[lo - 1]
    <3>1. lo - 1 \in lo - 1 .. hi /\ lo - 1 < lo
      BY <1>4
    <3>2. z[lo - 1] = start
      BY <1>15, <3>1
    <3> QED
      BY <1>11, <3>2
  <2>2. \A i \in lo .. hi : z[i - 1] \in Stage[i - 1] => z[i] \in Stage[i]
    BY <1>9, <1>10, <1>15
  <2> QED
    BY <1>4, <2>1, <2>2, StagesHold
<1> QED
  BY <1>1, <1>4, <1>8, <1>11, <1>16 DEF Source

\* Every cell of a Hankel matrix.
LEMMA HankelCells ==
  ASSUME NEW v \in Nat, v # 0, NEW w, NEW x, NEW s, NEW h \in Nat, h % v = 0, HankelFits(w, x, s, h \div v),
         NEW M \in [Cells(v * w) -> Fraction]
  PROVE  \A c \in DOMAIN Hankel(M, v, w, h, x, s) : Hankel(M, v, w, h, x, s)[c] = HankelCell(M, v, w, x, s, c)
<1> DEFINE H == Hankel(M, v, w, h, x, s)
<1>1. H \in HankelStage(M, v, w, h, x, s, h \div v - 1)
  BY HankelRuns
<1> HIDE DEF H
<1>2. DOMAIN H = Cells(h * x)
  BY <1>1 DEF HankelStage
<1>3. ASSUME NEW c \in Cells(h * x)
      PROVE  BlockRow(c, v, x) <= h \div v - 1
  <2> DEFINE R == c \div x
             b == R \div v
             n1 == h \div v
  <2>1. x \in Nat /\ x # 0
    BY DEF HankelFits
  <2>2. R \in Cells(h)
    BY <2>1, PartsOf
  <2> HIDE DEF R
  <2>3. R \in Int /\ R <= h - 1
    BY <2>2 DEF Cells
  <2>4. b \in Int /\ R % v >= 0 /\ R % v \in Int /\ R = v * b + (R % v)
    <3>1. b \in Int /\ R % v \in 0 .. v - 1 /\ R = v * b + (R % v)
      BY <2>3, DivMod
    <3> QED
      BY <3>1
  <2>5. n1 \in Int /\ h = v * n1
    <3>1. h \in Int
      OBVIOUS
    <3>2. n1 \in Int /\ h = v * n1 + (h % v)
      BY <3>1, DivMod
    <3> HIDE DEF n1
    <3> QED
      BY <3>2
  <2> HIDE DEF b, n1
  <2> DEFINE vb == v * b
             vn == v * n1
             rest == R % v
  <2>6. vb \in Int /\ vn \in Int /\ b >= n1 => vb >= vn
    BY <2>4, <2>5
  <2>7. /\ vb \in Int /\ vn \in Int /\ rest \in Int /\ rest >= 0
        /\ R = vb + rest /\ h = vn /\ R <= h - 1 /\ R \in Int
    BY <2>3, <2>4, <2>5
  <2> HIDE DEF vb, vn, rest
  <2>8. ~(b >= n1)
    BY <2>6, <2>7
  <2>9. b <= n1 - 1
    BY <2>4, <2>5, <2>8
  <2> QED
    BY <2>9 DEF BlockRow, R, b, n1
<1>4. \A c \in Cells(h * x) : H[c] = HankelCell(M, v, w, x, s, c)
  BY <1>1, <1>3 DEF HankelStage
<1> QED
  BY <1>2, <1>4 DEF H

-----------------------------------------------------------------------------
(* Order and signs.                                                         *)

\* Fractions are compared by their numerators over the product of their denominators.
LEMMA LessEqIs ==
  ASSUME NEW p \in Number, NEW q \in Number
  PROVE  /\ LessEq(p, q) <=> p[1] * q[2] <= q[1] * p[2]
         /\ Less(p, q) <=> p[1] * q[2] < q[1] * p[2]
<1>1. /\ p[1] \in Int /\ p[2] \in Nat /\ p[2] # 0 /\ q[1] \in Int /\ q[2] \in Nat /\ q[2] # 0
      /\ IsNumber(p) /\ IsNumber(q) /\ p \in Fraction /\ q \in Fraction
  BY NumberParts DEF Number
<1>2. p[1] * q[2] \in Int /\ q[1] * p[2] \in Int
  BY <1>1
<1>3. p[1] * q[2] = q[1] * p[2] => p = q
  BY <1>1, FractionUnique
<1>4. p = q => p[1] * q[2] = q[1] * p[2]
  OBVIOUS
<1>5. Less(p, q) <=> p[1] * q[2] < q[1] * p[2]
  BY <1>1 DEF Less
<1>6. LessEq(p, q) <=> Less(p, q) \/ p = q
  BY <1>1 DEF LessEq
<1> QED
  BY <1>2, <1>3, <1>4, <1>5, <1>6

\* Numbers are in a total order.
LEMMA TotalOrder ==
  ASSUME NEW p \in Number, NEW q \in Number, NEW r \in Number
  PROVE  /\ LessEq(p, p)
         /\ ~Less(p, q) <=> LessEq(q, p)
         /\ Less(p, q) => LessEq(p, q)
         /\ LessEq(p, q) /\ LessEq(q, r) => LessEq(p, r)
<1> DEFINE a == p[1]
           b == p[2]
           c == q[1]
           d == q[2]
           e == r[1]
           f == r[2]
<1>1. a \in Int /\ b \in Int /\ b > 0 /\ c \in Int /\ d \in Int /\ d > 0 /\ e \in Int /\ f \in Int /\ f > 0
  BY NumberParts
<1>2. /\ LessEq(p, p) <=> a * b <= a * b
      /\ LessEq(q, p) <=> c * b <= a * d
      /\ LessEq(p, q) <=> a * d <= c * b
      /\ Less(p, q) <=> a * d < c * b
      /\ LessEq(q, r) <=> c * f <= e * d
      /\ LessEq(p, r) <=> a * f <= e * b
  BY LessEqIs
<1> HIDE DEF a, b, c, d, e, f
<1>3. a * d \in Int /\ c * b \in Int /\ a * b \in Int
  BY <1>1
<1>4. ASSUME a * d <= c * b, c * f <= e * d
      PROVE  a * f <= e * b
  <2>1. (a * d) * f <= (c * b) * f
    BY <1>1, <1>3, <1>4
  <2>2. (c * f) * b <= (e * d) * b
    BY <1>1, <1>4
  <2>3. (c * b) * f = (c * f) * b /\ (a * d) * f = d * (a * f) /\ (e * d) * b = d * (e * b)
    BY <1>1
  <2>4. d * (a * f) <= d * (e * b)
    BY <1>1, <2>1, <2>2, <2>3
  <2>5. a * f \in Int /\ e * b \in Int
    BY <1>1
  <2>6. \A x, y \in Int : d * x <= d * y => x <= y
    BY <1>1
  <2> QED
    BY <2>4, <2>5, <2>6
<1> QED
  BY <1>2, <1>3, <1>4

\* What is not negative and not positive is zero; what is larger is positive.
LEMMA SignOrder ==
  ASSUME NEW p \in NonNegative, NEW q \in NonNegative
  PROVE  /\ p \notin Positive <=> p = Zero
         /\ Less(p, q) => q \in Positive
         /\ ~Less(p, q) /\ q \in Positive => p \in Positive
         /\ Absolute(p) = p
<1>1. /\ p \in Number /\ p[1] >= 0 /\ q \in Number /\ q[1] >= 0
      /\ p[1] \in Int /\ p[2] \in Int /\ p[2] > 0 /\ q[1] \in Int /\ q[2] \in Int /\ q[2] > 0
  BY NumberParts DEF NonNegative
<1>2. p \notin Positive <=> p = Zero
  <2>1. p # Zero => p[1] # 0
    BY <1>1, ZeroIsZero
  <2>2. Zero \notin Positive
    BY DEF Positive, Zero, Whole
  <2> QED
    BY <1>1, <2>1, <2>2 DEF Positive
<1>3. Less(p, q) <=> p[1] * q[2] < q[1] * p[2]
  BY <1>1, LessEqIs
<1>4. \A a, b \in Int : a >= 0 /\ b > 0 => a * b >= 0 /\ (a > 0 => a * b > 0)
  OBVIOUS
<1>5. /\ p[1] * q[2] \in Int /\ q[1] * p[2] \in Int /\ p[1] * q[2] >= 0 /\ q[1] * p[2] >= 0
      /\ (p[1] > 0 => p[1] * q[2] > 0) /\ (q[1] > 0 => q[1] * p[2] > 0)
  BY <1>1, <1>4
<1>6. (p[1] = 0 => p[1] * q[2] = 0) /\ (q[1] = 0 => q[1] * p[2] = 0)
  BY <1>1
<1>7. Less(p, q) => q \in Positive
  BY <1>1, <1>3, <1>5, <1>6 DEF Positive
<1>8. ~Less(p, q) /\ q \in Positive => p \in Positive
  BY <1>1, <1>3, <1>5, <1>6 DEF Positive
<1>9. Absolute(p) = p
  <2>1. p = <<p[1], p[2]>>
    BY <1>1, FractionParts DEF Number
  <2> QED
    BY <1>1, <2>1 DEF Absolute, Magnitude
<1> QED
  BY <1>2, <1>7, <1>8, <1>9

\* Minus one changes the sign.
LEMMA MinusOne ==
  ASSUME NEW p \in Number
  PROVE  /\ Mul(Neg(One), p) = Neg(p) /\ Neg(Neg(p)) = p /\ Neg(p) \in Number
         /\ \A q \in Number : Sub(q, Neg(p)) = Add(q, p) /\ Add(q, Neg(p)) = Sub(q, p)
<1>1. p[1] \in Int /\ p[2] \in Nat /\ p[2] # 0 /\ Stands(p, p[1], p[2])
  BY NumberParts
<1>2. p = <<p[1], p[2]>>
  BY FractionParts DEF Number
<1>3. Neg(Neg(p)) = p
  BY <1>1, <1>2 DEF Neg
<1>4. Mul(Neg(One), p) = Neg(p)
  <2>1. Stands(One, 1, 1)
    BY WholeStands DEF One
  <2>2. Stands(Neg(One), -1, 1)
    BY <2>1, NegStands
  <2> DEFINE e == -1
             a == p[1]
             d == p[2]
  <2>3. e \in Int /\ a \in Int /\ d \in Int /\ Stands(Neg(One), e, 1) /\ Stands(p, a, d)
    BY <1>1, <2>2
  <2>4. Stands(Neg(p), -a, d) /\ e * a = -a /\ 1 * d = d /\ -a \in Int /\ d # 0
    BY <1>1, NegStands
  <2> HIDE DEF e, a, d
  <2>5. Stands(Mul(Neg(One), p), e * a, 1 * d)
    BY <2>3, MulStands
  <2> QED
    BY <2>3, <2>4, <2>5, StandsUnique
<1> QED
  BY <1>3, <1>4, NumbersClosed DEF Sub

\* A quotient that is a number can be undone.
LEMMA QuotientIsNumber ==
  ASSUME NEW p \in Fraction, NEW q \in Fraction, IsNumber(Div(p, q))
  PROVE  p \in Number /\ q \in Number /\ Mul(Div(p, q), q) = p
<1>1. IsNumber(p) /\ IsNumber(q)
  BY NanIsFraction DEF Div
<1>2. p \in Number /\ q \in Number
  BY <1>1 DEF Number
<1>3. q # Zero
  <2> SUFFICES ASSUME q = Zero PROVE FALSE
    OBVIOUS
  <2>1. p[2] * q[1] = 0
    BY <1>2, NumberParts DEF Zero, Whole
  <2>2. Div(p, q) = NaN
    BY <1>1, <2>1 DEF Div, Quotient
  <2> QED
    BY <2>2, NanIsFraction
<1> QED
  BY <1>2, <1>3, DivUndoes

-----------------------------------------------------------------------------
(* Matrices without negative entries, and factors of products.              *)

\* Matrices without negative entries.
Unsigned(m) == [Cells(m) -> NonNegative]

\* Products of matrices without negative entries have none.
LEMMA ProductUnsigned ==
  ASSUME NEW m \in Nat, NEW M \in Unsigned(m * m), NEW B \in Unsigned(m * m)
  PROVE  MatMul(M, B, m, m, m) \in Unsigned(m * m)
<1>1. M \in Matrices(m, m) /\ B \in Matrices(m, m)
  BY DEF Unsigned, Matrices, Vector, NonNegative
<1>2. ASSUME NEW r \in Cells(m), NEW k \in Cells(m)
      PROVE  At(MatMul(M, B, m, m, m), m, r, k) \in NonNegative
  <2> DEFINE v == Pairs(M, B, m, m, r, k)
  <2>1. ASSUME NEW i \in Cells(m)
        PROVE  v[i] \in NonNegative
    <3> DEFINE a == At(M, m, r, i)
               b == At(B, m, i, k)
    <3>1. v[i] = Mul(a, b)
      BY <1>1, PairsAreNumbers
    <3>2. a \in NonNegative /\ b \in NonNegative
      BY CellOf DEF At, Unsigned
    <3> HIDE DEF a, b, v
    <3>3. a \in Positive \/ a = Zero
      BY <3>2, SignOrder
    <3>4. a \in Number /\ b \in Number
      BY <3>2 DEF NonNegative
    <3>5. a = Zero => Mul(a, b) = Zero
      BY <3>4, OneIsNeutral
    <3>6. Zero \in NonNegative
      BY NumbersClosed DEF NonNegative, Zero, Whole
    <3> QED
      BY <3>1, <3>2, <3>3, <3>4, <3>5, <3>6, SignMul
  <2>2. At(MatMul(M, B, m, m, m), m, r, k) = SumOf(v, m)
    BY <1>1, ProductCell
  <2> HIDE DEF v
  <2>3. Total(v, 0, m - 1) \in NonNegative
    BY <2>1, TotalSign DEF Cells
  <2> QED
    BY <2>2, <2>3 DEF SumOf
<1>3. MatMul(M, B, m, m, m) \in Matrices(m, m)
  BY <1>1, ProductType
<1> DEFINE C == MatMul(M, B, m, m, m)
<1>4. ASSUME NEW c \in Cells(m * m)
      PROVE  C[c] \in NonNegative
  <2>1. c \div m \in Cells(m) /\ c % m \in Cells(m) /\ c = m * (c \div m) + (c % m)
    BY PartsOf
  <2>2. At(C, m, c \div m, c % m) \in NonNegative
    BY <1>2, <2>1
  <2> QED
    BY <2>1, <2>2 DEF At
<1> HIDE DEF C
<1>5. C \in [Cells(m * m) -> Number]
  BY <1>3 DEF C, Matrices, Vector
<1>6. C \in Unsigned(m * m)
  BY <1>4, <1>5 DEF Unsigned
<1> QED
  BY <1>6 DEF C

\* A factor can be taken out of a product.
LEMMA ProductScaled ==
  ASSUME NEW m \in Nat, NEW M \in Matrices(m, m), NEW B \in Matrices(m, m), NEW q \in Number
  PROVE  /\ Scaled(B, q) \in Matrices(m, m)
         /\ MatMul(M, Scaled(B, q), m, m, m) = Scaled(MatMul(M, B, m, m, m), q)
<1> DEFINE C == MatMul(M, B, m, m, m)
           Bq == Scaled(B, q)
           Cq == Scaled(C, q)
<1>1. C \in Matrices(m, m)
  BY ProductType
<1>2. ASSUME NEW N \in Matrices(m, m)
      PROVE  Scaled(N, q) \in Matrices(m, m) /\ \A r, k \in Cells(m) : At(Scaled(N, q), m, r, k) = Mul(q, At(N, m, r, k))
  <2>1. N \in [Cells(m * m) -> Number]
    BY DEF Matrices, Vector
  <2>2. \A c \in Cells(m * m) : Scaled(N, q)[c] = Mul(q, N[c]) /\ Mul(q, N[c]) \in Number
    BY <2>1, NumbersClosed DEF Scaled
  <2>3. Scaled(N, q) \in [Cells(m * m) -> Number]
    BY <2>1, <2>2 DEF Scaled
  <2> QED
    BY <2>2, <2>3, CellOf DEF Matrices, Vector, At
<1>3. ASSUME NEW r \in Cells(m), NEW k \in Cells(m)
      PROVE  At(Cq, m, r, k) = SumOf(Pairs(M, Bq, m, m, r, k), m)
  <2> DEFINE u == Pairs(M, Bq, m, m, r, k)
             v == Pairs(M, B, m, m, r, k)
  <2>1. Bq \in Matrices(m, m) /\ \A i \in Cells(m) : At(Bq, m, i, k) = Mul(q, At(B, m, i, k))
    BY <1>2
  <2>2. v \in Vector(m) /\ \A i \in Cells(m) : v[i] = Mul(At(M, m, r, i), At(B, m, i, k))
    BY PairsAreNumbers
  <2>3. \A i \in Cells(m) : u[i] = Mul(At(M, m, r, i), At(Bq, m, i, k))
    BY <2>1, PairsAreNumbers
  <2>4. At(C, m, r, k) = SumOf(v, m)
    BY ProductCell
  <2>5. At(Cq, m, r, k) = Mul(q, At(C, m, r, k))
    BY <1>1, <1>2
  <2> HIDE DEF u, v, C, Bq, Cq
  <2>6. ASSUME NEW i \in Cells(m)
        PROVE  u[i] = Mul(q, v[i])
    <3> DEFINE a == At(M, m, r, i)
               b == At(B, m, i, k)
    <3>1. u[i] = Mul(a, Mul(q, b)) /\ v[i] = Mul(a, b)
      BY <2>1, <2>2, <2>3
    <3>2. a \in Number /\ b \in Number
      BY AtNumber
    <3> HIDE DEF a, b
    <3>3. Mul(a, Mul(q, b)) = Mul(Mul(a, q), b) /\ Mul(a, q) = Mul(q, a) /\ Mul(Mul(q, a), b) = Mul(q, Mul(a, b))
      BY <3>2, MulAssociative, AddCommutes DEF Number
    <3> QED
      BY <3>1, <3>3
  <2>7. SumOf(u, m) = Mul(q, SumOf(v, m))
    BY <2>2, <2>6, SumScaled
  <2> QED
    BY <2>4, <2>5, <2>7 DEF u
<1>4. Bq \in Matrices(m, m) /\ Cq \in Matrices(m, m)
  BY <1>1, <1>2
<1> HIDE DEF Bq, Cq
<1>5. MatMul(M, Bq, m, m, m) = Cq
  BY <1>3, <1>4, ProductIs
<1> QED
  BY <1>4, <1>5 DEF Bq, Cq, C

\* Sums with the matrix of zeros, and one time a matrix.
LEMMA NeutralMatrices ==
  ASSUME NEW m \in Nat, NEW M \in Matrices(m, m)
  PROVE  /\ MatAdd(Filled(m * m, Zero), M) = M /\ MatAdd(M, Filled(m * m, Zero)) = M /\ Scaled(M, One) = M
         /\ Filled(m * m, Zero) \in Matrices(m, m)
         /\ \A q \in Number : Scaled(Filled(m * m, Zero), q) = Filled(m * m, Zero)
<1>1. M \in [Cells(m * m) -> Number] /\ M = [c \in Cells(m * m) |-> M[c]]
  BY DEF Matrices, Vector
<1>2. \A c \in Cells(m * m) : Add(Zero, M[c]) = M[c] /\ Add(M[c], Zero) = M[c] /\ Mul(One, M[c]) = M[c]
  BY <1>1, OneIsNeutral
<1>3. MatAdd(Filled(m * m, Zero), M) = M /\ MatAdd(M, Filled(m * m, Zero)) = M
  BY <1>1, <1>2 DEF MatAdd, Filled
<1>4. Scaled(M, One) = M
  BY <1>1, <1>2 DEF Scaled
<1>5. Filled(m * m, Zero) \in Matrices(m, m)
  BY NumbersClosed DEF Filled, Matrices, Vector
<1>6. \A q \in Number : Scaled(Filled(m * m, Zero), q) = Filled(m * m, Zero)
  BY OneIsNeutral DEF Scaled, Filled
<1> QED
  BY <1>3, <1>4, <1>5, <1>6

-----------------------------------------------------------------------------
(* The norm of a matrix without negative entries (smls_mat_norm) is positive if an entry is.*)

\* What Norm1 adds up for a column.
ColumnLength(M, m, j) == For(1, m - 1, LAMBDA s, i : Add(s, Absolute(M[i * m + j])), M[j])

\* It is positive if an element is.
LEMMA ColumnLengthIs ==
  ASSUME NEW m \in Nat, m # 0, NEW M \in Unsigned(m * m), NEW j \in Cells(m)
  PROVE  /\ ColumnLength(M, m, j) \in NonNegative
         /\ ColumnLength(M, m, j) \in Positive <=> \E r \in Cells(m) : At(M, m, r, j) \in Positive
<1> DEFINE lo == 1
           hi == m - 1
           start == M[j]
           e(i) == M[i * m + j]
           B(s, i) == Add(s, Absolute(e(i)))
           P(f) == f = [i \in lo - 1 .. hi |-> IF i < lo THEN start ELSE B(f[i - 1], i)]
           z == CHOOSE f : P(f)
           S == NonNegative
           body == [q \in S \X Int |-> B(q[1], q[2])]
           Source(i) == {s \in S : s \in Positive <=> \E r \in 0 .. i : e(r) \in Positive}
           Stage == [i \in lo - 1 .. hi |-> Source(i)]
<1>1. ColumnLength(M, m, j) = IF hi < lo THEN start ELSE z[hi]
  BY DEF ColumnLength, For
<1>2. lo \in Int /\ hi \in Int /\ lo - 1 \in lo - 1 .. hi /\ hi \in lo - 1 .. hi /\ (hi < lo => hi = lo - 1)
  OBVIOUS
<1>3. \A r \in Cells(m) : e(r) \in NonNegative /\ e(r) = At(M, m, r, j)
  <2> SUFFICES ASSUME NEW r \in Cells(m) PROVE e(r) \in NonNegative /\ e(r) = At(M, m, r, j)
    OBVIOUS
  <2>1. m * r + j \in Cells(m * m)
    BY CellOf
  <2>2. r * m + j = m * r + j
    BY DEF Cells
  <2> QED
    BY <2>1, <2>2 DEF At, Unsigned
<1>4. start \in S /\ start \in Source(lo - 1)
  <2>1. e(0) = M[j] /\ 0 \in Cells(m)
    BY DEF Cells
  <2>2. \A r \in 0 .. lo - 1 : r = 0
    OBVIOUS
  <2> QED
    BY <1>3, <2>1, <2>2
<1> HIDE DEF e
<1>5. ASSUME NEW i \in lo .. hi, NEW s \in Source(i - 1)
      PROVE  B(s, i) \in Source(i) /\ body[<<s, i>>] = B(s, i)
  <2>1. i \in Cells(m) /\ i \in Int /\ s \in S
    BY DEF Cells
  <2>2. e(i) \in NonNegative /\ Absolute(e(i)) = e(i)
    BY <1>3, <2>1, SignOrder
  <2>3. B(s, i) \in NonNegative /\ (s \in Positive \/ e(i) \in Positive => B(s, i) \in Positive)
    BY <2>1, <2>2, SignAdd
  <2>4. s \notin Positive /\ e(i) \notin Positive => B(s, i) \notin Positive
    <3> SUFFICES ASSUME s \notin Positive, e(i) \notin Positive PROVE B(s, i) \notin Positive
      OBVIOUS
    <3>1. s = Zero /\ e(i) = Zero
      BY <2>1, <2>2, SignOrder
    <3>2. Add(Zero, Zero) = Zero /\ Zero \in NonNegative
      BY ZeroIsNeutral, NumbersClosed DEF NonNegative, Zero, Whole
    <3> QED
      BY <2>2, <3>1, <3>2, SignOrder
  <2>5. \A r \in 0 .. i : r \in 0 .. i - 1 \/ r = i
    BY <2>1
  <2>6. i \in 0 .. i /\ \A r \in 0 .. i - 1 : r \in 0 .. i
    BY <2>1
  <2> HIDE DEF B
  <2>7. B(s, i) \in Source(i)
    BY <2>3, <2>4, <2>5, <2>6
  <2>8. body[<<s, i>>] = B(s, i)
    BY <2>1
  <2> QED
    BY <2>7, <2>8
<1>6. \A i \in lo - 1 .. hi : Stage[i] = Source(i) /\ Stage[i] \subseteq S
  OBVIOUS
<1>7. Stage[hi] = Source(m - 1)
  BY <1>2, <1>6
<1> HIDE DEF Stage, body, start, lo, hi, B, Source, S
<1>8. \A i \in lo .. hi : i \in lo - 1 .. hi /\ i - 1 \in lo - 1 .. hi /\ ~(i < lo)
  BY <1>2
<1>9. ASSUME NEW i \in lo .. hi, NEW s \in Stage[i - 1]
      PROVE  B(s, i) \in Stage[i] /\ body[<<s, i>>] = B(s, i)
  BY <1>5, <1>6, <1>8
<1>10. start \in Stage[lo - 1]
  BY <1>2, <1>4, <1>6
<1>11. PICK f : Runs(f, lo, hi, start, body) /\ \A i \in lo - 1 .. hi : f[i] \in Stage[i]
  <2>1. Leads(lo, hi, start, body, Stage)
    BY <1>9, <1>10 DEF Leads
  <2> QED
    BY <1>2, <1>4, <1>6, <2>1, LoopRuns
<1>12. P(f)
  <2>1. \A i \in lo - 1 .. hi : ~(i < lo) => body[<<f[i - 1], i>>] = B(f[i - 1], i)
    BY <1>2, <1>8, <1>9, <1>11
  <2> QED
    BY <1>11, <2>1 DEF Runs
<1> HIDE DEF P
<1>13. P(z)
  BY <1>12
<1> HIDE DEF z
<1>14. \A i \in lo - 1 .. hi : z[i] = IF i < lo THEN start ELSE B(z[i - 1], i)
  BY <1>13 DEF P
<1>15. \A i \in lo - 1 .. hi : z[i] \in Stage[i]
  <2>1. z[lo - 1] \in Stage[lo - 1]
    <3>1. lo - 1 \in lo - 1 .. hi /\ lo - 1 < lo
      BY <1>2
    <3>2. z[lo - 1] = start
      BY <1>14, <3>1
    <3> QED
      BY <1>10, <3>2
  <2>2. \A i \in lo .. hi : z[i - 1] \in Stage[i - 1] => z[i] \in Stage[i]
    BY <1>8, <1>9, <1>14
  <2> QED
    BY <1>2, <2>1, <2>2, StagesHold
<1>16. ColumnLength(M, m, j) \in Source(m - 1)
  BY <1>1, <1>2, <1>7, <1>10, <1>15
<1> QED
  BY <1>3, <1>16 DEF Source, S, Cells

\* The largest of them.
Longest(M, m) ==
  For(1, m - 1, LAMBDA best, j : IF Less(best, ColumnLength(M, m, j)) THEN ColumnLength(M, m, j) ELSE best,
      ColumnLength(M, m, 0))

\* It is positive if one is.
LEMMA LongestIs ==
  ASSUME NEW m \in Nat, m # 0, NEW M \in Unsigned(m * m)
  PROVE  /\ Longest(M, m) \in NonNegative
         /\ Longest(M, m) \in Positive <=> \E j \in Cells(m) : ColumnLength(M, m, j) \in Positive
<1> DEFINE lo == 1
           hi == m - 1
           e(j) == ColumnLength(M, m, j)
           start == e(0)
           B(s, i) == IF Less(s, e(i)) THEN e(i) ELSE s
           P(f) == f = [i \in lo - 1 .. hi |-> IF i < lo THEN start ELSE B(f[i - 1], i)]
           z == CHOOSE f : P(f)
           S == NonNegative
           body == [q \in S \X Int |-> B(q[1], q[2])]
           Source(i) == {s \in S : s \in Positive <=> \E r \in 0 .. i : e(r) \in Positive}
           Stage == [i \in lo - 1 .. hi |-> Source(i)]
<1>1. Longest(M, m) = IF hi < lo THEN start ELSE z[hi]
  BY DEF Longest, For
<1>2. lo \in Int /\ hi \in Int /\ lo - 1 \in lo - 1 .. hi /\ hi \in lo - 1 .. hi /\ (hi < lo => hi = lo - 1)
  OBVIOUS
<1>3. \A r \in Cells(m) : e(r) \in NonNegative
  BY ColumnLengthIs
<1> HIDE DEF e
<1>4. start \in S /\ start \in Source(lo - 1)
  <2>1. 0 \in Cells(m) /\ \A r \in 0 .. lo - 1 : r = 0
    BY DEF Cells
  <2> QED
    BY <1>3, <2>1
<1>5. ASSUME NEW i \in lo .. hi, NEW s \in Source(i - 1)
      PROVE  B(s, i) \in Source(i) /\ body[<<s, i>>] = B(s, i)
  <2>1. i \in Cells(m) /\ i \in Int /\ s \in S
    BY DEF Cells
  <2>2. e(i) \in NonNegative
    BY <1>3, <2>1
  <2>3. B(s, i) \in NonNegative /\ (B(s, i) \in Positive <=> s \in Positive \/ e(i) \in Positive)
    BY <2>1, <2>2, SignOrder
  <2>4. \A r \in 0 .. i : r \in 0 .. i - 1 \/ r = i
    BY <2>1
  <2>5. i \in 0 .. i /\ \A r \in 0 .. i - 1 : r \in 0 .. i
    BY <2>1
  <2> HIDE DEF B
  <2>6. B(s, i) \in Source(i)
    BY <2>3, <2>4, <2>5
  <2>7. body[<<s, i>>] = B(s, i)
    BY <2>1
  <2> QED
    BY <2>6, <2>7
<1>6. \A i \in lo - 1 .. hi : Stage[i] = Source(i) /\ Stage[i] \subseteq S
  OBVIOUS
<1>7. Stage[hi] = Source(m - 1)
  BY <1>2, <1>6
<1> HIDE DEF Stage, body, start, lo, hi, B, Source, S
<1>8. \A i \in lo .. hi : i \in lo - 1 .. hi /\ i - 1 \in lo - 1 .. hi /\ ~(i < lo)
  BY <1>2
<1>9. ASSUME NEW i \in lo .. hi, NEW s \in Stage[i - 1]
      PROVE  B(s, i) \in Stage[i] /\ body[<<s, i>>] = B(s, i)
  BY <1>5, <1>6, <1>8
<1>10. start \in Stage[lo - 1]
  BY <1>2, <1>4, <1>6
<1>11. PICK f : Runs(f, lo, hi, start, body) /\ \A i \in lo - 1 .. hi : f[i] \in Stage[i]
  <2>1. Leads(lo, hi, start, body, Stage)
    BY <1>9, <1>10 DEF Leads
  <2> QED
    BY <1>2, <1>4, <1>6, <2>1, LoopRuns
<1>12. P(f)
  <2>1. \A i \in lo - 1 .. hi : ~(i < lo) => body[<<f[i - 1], i>>] = B(f[i - 1], i)
    BY <1>2, <1>8, <1>9, <1>11
  <2> QED
    BY <1>11, <2>1 DEF Runs
<1> HIDE DEF P
<1>13. P(z)
  BY <1>12
<1> HIDE DEF z
<1>14. \A i \in lo - 1 .. hi : z[i] = IF i < lo THEN start ELSE B(z[i - 1], i)
  BY <1>13 DEF P
<1>15. \A i \in lo - 1 .. hi : z[i] \in Stage[i]
  <2>1. z[lo - 1] \in Stage[lo - 1]
    <3>1. lo - 1 \in lo - 1 .. hi /\ lo - 1 < lo
      BY <1>2
    <3>2. z[lo - 1] = start
      BY <1>14, <3>1
    <3> QED
      BY <1>10, <3>2
  <2>2. \A i \in lo .. hi : z[i - 1] \in Stage[i - 1] => z[i] \in Stage[i]
    BY <1>8, <1>9, <1>14
  <2> QED
    BY <1>2, <2>1, <2>2, StagesHold
<1>16. Longest(M, m) \in Source(m - 1)
  BY <1>1, <1>2, <1>7, <1>10, <1>15
<1> QED
  BY <1>16 DEF Source, S, Cells, e

\* The norm of a matrix of one element.
LEMMA NormOfOne ==
  ASSUME NEW M \in Unsigned(1)
  PROVE  Norm1(M, 1, 1) = M[0]
<1> DEFINE e(i) == Absolute(M[i])
           P(f) == f = [i \in 0 - 1 .. 0 |-> IF i < 0 THEN Zero ELSE Add(f[i - 1], e(i))]
           z == CHOOSE f : P(f)
           g == [i \in 0 - 1 .. 0 |-> IF i < 0 THEN Zero ELSE Add(Zero, e(i))]
<1>1. Norm1(M, 1, 1) = z[0]
  BY DEF Norm1, SumOver, For
<1> HIDE DEF e
<1>2. P(g)
  <2>1. \A i \in 0 - 1 .. 0 : g[i] = IF i < 0 THEN Zero ELSE Add(g[i - 1], e(i))
    <3> SUFFICES ASSUME NEW i \in 0 - 1 .. 0 PROVE g[i] = IF i < 0 THEN Zero ELSE Add(g[i - 1], e(i))
      OBVIOUS
    <3>1. i = -1 \/ i = 0
      OBVIOUS
    <3>2. g[-1] = Zero
      OBVIOUS
    <3> QED
      BY <3>1, <3>2
  <2>2. g = [i \in 0 - 1 .. 0 |-> g[i]]
    OBVIOUS
  <2> HIDE DEF g
  <2> QED
    BY <2>1, <2>2
<1> HIDE DEF P
<1>3. P(z)
  BY <1>2
<1> HIDE DEF z
<1>4. z[-1] = Zero /\ z[0] = Add(z[-1], e(0))
  BY <1>3 DEF P
<1>5. M[0] \in NonNegative
  BY DEF Unsigned, Cells
<1>6. e(0) = M[0] /\ M[0] \in Number
  BY <1>5, SignOrder DEF e, NonNegative
<1> QED
  BY <1>1, <1>4, <1>6, OneIsNeutral

\* The norm of a matrix without negative entries is positive if an entry is.
LEMMA NormPositive ==
  ASSUME NEW m \in Nat, m # 0, NEW M \in Unsigned(m * m)
  PROVE  Less(Zero, Norm1(M, m, m)) <=> M # Filled(m * m, Zero)
<1>1. (\E r, j \in Cells(m) : At(M, m, r, j) \in Positive) <=> M # Filled(m * m, Zero)
  <2>1. \A c \in Cells(m * m) : M[c] \in NonNegative /\ (M[c] \notin Positive <=> M[c] = Zero)
    BY SignOrder DEF Unsigned
  <2>2. M = [c \in Cells(m * m) |-> M[c]]
    BY DEF Unsigned
  <2>3. M # Filled(m * m, Zero) <=> \E c \in Cells(m * m) : M[c] # Zero
    BY <2>2 DEF Filled
  <2>4. (\E c \in Cells(m * m) : M[c] \in Positive) => \E r, j \in Cells(m) : At(M, m, r, j) \in Positive
    <3> SUFFICES ASSUME NEW c \in Cells(m * m), M[c] \in Positive PROVE \E r, j \in Cells(m) : At(M, m, r, j) \in Positive
      OBVIOUS
    <3>1. c \div m \in Cells(m) /\ c % m \in Cells(m) /\ c = m * (c \div m) + (c % m)
      BY PartsOf
    <3> QED
      BY <3>1 DEF At
  <2>5. (\E r, j \in Cells(m) : At(M, m, r, j) \in Positive) => \E c \in Cells(m * m) : M[c] \in Positive
    BY CellOf DEF At
  <2> QED
    BY <2>1, <2>3, <2>4, <2>5
<1>2. Norm1(M, m, m) \in NonNegative /\ (Norm1(M, m, m) \in Positive <=> \E r, j \in Cells(m) : At(M, m, r, j) \in Positive)
  <2>1. CASE m = 1
    <3>1. Norm1(M, 1, 1) = M[0] /\ M[0] \in NonNegative
      BY <2>1, NormOfOne DEF Unsigned, Cells
    <3>2. \A r \in Cells(m) : r = 0
      BY <2>1 DEF Cells
    <3>3. 0 \in Cells(m) /\ At(M, m, 0, 0) = M[0]
      BY <2>1 DEF Cells, At
    <3> QED
      BY <2>1, <3>1, <3>2, <3>3
  <2>2. CASE m # 1
    <3>1. Norm1(M, m, m) = Longest(M, m)
      BY <2>2 DEF Norm1, Longest, ColumnLength
    <3> QED
      BY <3>1, LongestIs, ColumnLengthIs
  <2> QED
    BY <2>1, <2>2
<1>3. Less(Zero, Norm1(M, m, m)) <=> Norm1(M, m, m) \in Positive
  BY <1>2, PositiveIs DEF NonNegative, Number
<1> QED
  BY <1>1, <1>2, <1>3

-----------------------------------------------------------------------------
(* A matrix between two vectors: (u' M) x = u' (M x).                       *)

\* The vectors u and column k of M, element by element; M x.
Weighed(u, M, h, w, k) == [i \in Cells(h) |-> Mul(u[i], M[w * i + k])]
Image(M, h, w, x) == [i \in Cells(h) |-> Total(Along(M, w, i, x), 0, w - 1)]
Squares(u, v, h) == [i \in Cells(h) |-> Mul(u[i], v[i])]

\* M x is a vector.
LEMMA ImageType ==
  ASSUME NEW h \in Nat, NEW w \in Nat, NEW M \in Vector(h * w), NEW x \in Vector(w)
  PROVE  /\ Image(M, h, w, x) \in Vector(h)
         /\ \A i \in Cells(h) : Numbers(Along(M, w, i, x), 0, w - 1)
         /\ \A i \in Cells(h), k \in Cells(w) : M[w * i + k] \in Number /\ Along(M, w, i, x)[k] = Mul(M[w * i + k], x[k])
<1>1. \A i \in Cells(h), k \in Cells(w) : M[w * i + k] \in Number /\ x[k] \in Number
  BY CellOf DEF Vector
<1>2. \A i \in Cells(h), k \in Cells(w) : Along(M, w, i, x)[k] = Mul(M[w * i + k], x[k])
  BY DEF Along
<1>3. ASSUME NEW i \in Cells(h)
      PROVE  Numbers(Along(M, w, i, x), 0, w - 1)
  <2>1. \A k \in 0 .. w - 1 : k \in Cells(w)
    BY DEF Cells
  <2>2. \A k \in Cells(w) : Mul(M[w * i + k], x[k]) \in Number
    BY <1>1, NumbersClosed
  <2> QED
    BY <1>2, <2>1, <2>2 DEF Numbers
<1>4. \A i \in Cells(h) : Total(Along(M, w, i, x), 0, w - 1) \in Number
  BY <1>3, TotalType
<1> QED
  BY <1>1, <1>2, <1>3, <1>4 DEF Image, Vector

\* (u' M) x = u' (M x)
LEMMA Adjoint ==
  ASSUME NEW h \in Nat, NEW w \in Nat, NEW M \in Vector(h * w), NEW x \in Vector(w), NEW u \in Vector(h)
  PROVE  /\ \A k \in Cells(w) : Total(Weighed(u, M, h, w, k), 0, h - 1) \in Number
         /\ Total([k \in Cells(w) |-> Mul(Total(Weighed(u, M, h, w, k), 0, h - 1), x[k])], 0, w - 1) =
              Total(Squares(u, Image(M, h, w, x), h), 0, h - 1)
<1> DEFINE y == Image(M, h, w, x)
           e == [q \in Cells(w) \X Cells(h) |-> Mul(u[q[2]], Mul(M[w * q[2] + q[1]], x[q[1]]))]
           over == [k \in Cells(w) |-> Mul(Total(Weighed(u, M, h, w, k), 0, h - 1), x[k])]
           rows == [r \in 0 .. w - 1 |-> Total(AlongRow(e, h, r), 0, h - 1)]
           columns == [i \in 0 .. h - 1 |-> Total(AlongColumn(e, w, i), 0, w - 1)]
<1>1. Cells(w) = 0 .. w - 1 /\ Cells(h) = 0 .. h - 1 /\ 0 \in Int /\ w - 1 \in Int /\ h - 1 \in Int
      /\ 0 - 1 <= w - 1 /\ 0 - 1 <= h - 1
  BY DEF Cells
<1>2. \A i \in Cells(h), k \in Cells(w) : M[w * i + k] \in Number /\ u[i] \in Number /\ x[k] \in Number
  BY CellOf DEF Vector
<1>3. \A k \in Cells(w), i \in Cells(h) : e[<<k, i>>] = Mul(u[i], Mul(M[w * i + k], x[k])) /\ e[<<k, i>>] \in Number
  <2> TAKE k \in Cells(w), i \in Cells(h)
  <2>1. e[<<k, i>>] = Mul(u[i], Mul(M[w * i + k], x[k]))
    OBVIOUS
  <2> HIDE DEF e
  <2>2. Mul(M[w * i + k], x[k]) \in Number
    BY <1>2, NumbersClosed
  <2>3. Mul(u[i], Mul(M[w * i + k], x[k])) \in Number
    BY <1>2, <2>2, NumbersClosed
  <2> QED
    BY <2>1, <2>3
<1> HIDE DEF e
<1>4. \A k \in Cells(w) : \A i \in Cells(h) : AlongRow(e, h, k)[i] = e[<<k, i>>] /\ AlongColumn(e, w, i)[k] = e[<<k, i>>]
  BY <1>1 DEF AlongRow, AlongColumn
<1>5. ASSUME NEW k \in Cells(w)
      PROVE  /\ Numbers(Weighed(u, M, h, w, k), 0, h - 1)
             /\ Total(Weighed(u, M, h, w, k), 0, h - 1) \in Number
             /\ rows[k] = over[k]
  <2>1. \A i \in Cells(h) : Weighed(u, M, h, w, k)[i] = Mul(u[i], M[w * i + k])
    BY DEF Weighed
  <2>2. Numbers(Weighed(u, M, h, w, k), 0, h - 1)
    <3>1. \A i \in Cells(h) : Mul(u[i], M[w * i + k]) \in Number
      BY <1>2, NumbersClosed
    <3> QED
      BY <1>1, <2>1, <3>1 DEF Numbers
  <2>3. Total(Weighed(u, M, h, w, k), 0, h - 1) \in Number
    BY <1>1, <2>2, TotalType
  <2>4. ASSUME NEW i \in Cells(h)
        PROVE  AlongRow(e, h, k)[i] = Mul(x[k], Weighed(u, M, h, w, k)[i])
    <3> DEFINE a == u[i]
               b == M[w * i + k]
               d == x[k]
    <3>1. a \in Number /\ b \in Number /\ d \in Number
      BY <1>2
    <3>2. AlongRow(e, h, k)[i] = Mul(a, Mul(b, d)) /\ Weighed(u, M, h, w, k)[i] = Mul(a, b)
      BY <1>3, <1>4, <2>1
    <3> HIDE DEF a, b, d
    <3>3. Mul(Mul(a, b), d) = Mul(a, Mul(b, d))
      BY <3>1, MulAssociative
    <3>4. Mul(Mul(a, b), d) = Mul(d, Mul(a, b))
      <4>1. Mul(a, b) \in Fraction /\ d \in Fraction
        BY <3>1, NumbersClosed DEF Number
      <4> QED
        BY <4>1, AddCommutes
    <3> QED
      BY <3>2, <3>3, <3>4 DEF d
  <2>5. Total(AlongRow(e, h, k), 0, h - 1) = Mul(x[k], Total(Weighed(u, M, h, w, k), 0, h - 1))
    <3> DEFINE row == AlongRow(e, h, k)
               weighed == Weighed(u, M, h, w, k)
               q == x[k]
    <3>1. q \in Number /\ \A i \in 0 .. h - 1 : row[i] = Mul(q, weighed[i])
      BY <1>1, <2>4 DEF Vector
    <3>2. Numbers(weighed, 0, h - 1)
      BY <2>2
    <3> HIDE DEF row, weighed, q
    <3>3. Total(row, 0, h - 1) = Mul(q, Total(weighed, 0, h - 1))
      BY <1>1, <3>1, <3>2, TotalScaled
    <3> QED
      BY <3>3 DEF row, weighed, q
  <2>6. Mul(x[k], Total(Weighed(u, M, h, w, k), 0, h - 1)) = Mul(Total(Weighed(u, M, h, w, k), 0, h - 1), x[k])
    <3>1. x[k] \in Fraction /\ Total(Weighed(u, M, h, w, k), 0, h - 1) \in Fraction
      BY <2>3 DEF Number, Vector
    <3> QED
      BY <3>1, AddCommutes
  <2>7. k \in 0 .. w - 1
    BY <1>1
  <2> QED
    BY <2>2, <2>3, <2>5, <2>6, <2>7
<1>6. ASSUME NEW i \in Cells(h)
      PROVE  columns[i] = Squares(u, y, h)[i]
  <2>1. Numbers(Along(M, w, i, x), 0, w - 1) /\ \A k \in Cells(w) : Along(M, w, i, x)[k] = Mul(M[w * i + k], x[k])
    BY ImageType
  <2>2. \A k \in 0 .. w - 1 : AlongColumn(e, w, i)[k] = Mul(u[i], Along(M, w, i, x)[k])
    BY <1>1, <1>3, <1>4, <2>1
  <2>3. u[i] \in Number
    BY DEF Vector
  <2>4. Total(AlongColumn(e, w, i), 0, w - 1) = Mul(u[i], Total(Along(M, w, i, x), 0, w - 1))
    BY <1>1, <2>1, <2>2, <2>3, TotalScaled
  <2>5. i \in 0 .. h - 1
    BY <1>1
  <2> QED
    BY <2>4, <2>5 DEF Squares, Image
<1>7. Total(rows, 0, w - 1) = Total(columns, 0, h - 1)
  <2>1. \A r \in 0 .. w - 1, i \in 0 .. h - 1 : e[<<r, i>>] \in Number
    BY <1>1, <1>3
  <2> QED
    BY <2>1, TotalSwap
<1> HIDE DEF rows, columns, y
<1>8. \A k \in 0 .. w - 1 : rows[k] \in Number /\ rows[k] = over[k]
  <2> TAKE k \in 0 .. w - 1
  <2>1. k \in Cells(w) /\ x[k] \in Number
    BY <1>1 DEF Vector
  <2>2. Total(Weighed(u, M, h, w, k), 0, h - 1) \in Number /\ rows[k] = over[k]
    BY <1>5, <2>1
  <2>3. over[k] = Mul(Total(Weighed(u, M, h, w, k), 0, h - 1), x[k])
    BY <2>1
  <2> QED
    BY <2>1, <2>2, <2>3, NumbersClosed
<1>9. Total(rows, 0, w - 1) = Total(over, 0, w - 1)
  <2> HIDE DEF over
  <2>1. Numbers(rows, 0, w - 1)
    BY <1>8 DEF Numbers
  <2> QED
    BY <1>1, <1>8, <2>1, TotalAgree
<1>10. Total(columns, 0, h - 1) = Total(Squares(u, y, h), 0, h - 1)
  <2>1. y \in Vector(h)
    BY ImageType DEF y
  <2>2. \A i \in 0 .. h - 1 : columns[i] = Mul(u[i], y[i]) /\ columns[i] = Squares(u, y, h)[i]
    BY <1>1, <1>6 DEF Squares
  <2>3. Numbers(columns, 0, h - 1)
    <3>1. \A i \in 0 .. h - 1 : u[i] \in Number /\ y[i] \in Number
      BY <1>1, <2>1 DEF Vector
    <3>2. \A i \in 0 .. h - 1 : Mul(u[i], y[i]) \in Number
      BY <3>1, NumbersClosed
    <3> QED
      BY <2>2, <3>2 DEF Numbers
  <2> QED
    BY <1>1, <2>2, <2>3, TotalAgree
<1> QED
  BY <1>5, <1>7, <1>9, <1>10 DEF y

-----------------------------------------------------------------------------
(* Reflections: a column turned by the identity and a multiple of v * v', and turned back.*)

\* P is the identity and beta * v * v'.
Reflects(P, v, beta, h) ==
  /\ P \in Matrices(h, h) /\ v \in Vector(h) /\ beta \in Number
  /\ \A r, c \in Cells(h) : At(P, h, r, c) = Add(Mul(beta, Mul(v[r], v[c])), IF r = c THEN One ELSE Zero)

\* One product of a reflection.
LEMMA ReflectedTerm ==
  ASSUME NEW b \in Number, NEW x \in Number, NEW y \in Number, NEW q \in Number, NEW p \in Number
  PROVE  Mul(Add(Mul(b, Mul(x, y)), q), p) = Add(Mul(Mul(b, x), Mul(y, p)), Mul(q, p))
<1>1. Mul(x, y) \in Number /\ Mul(b, Mul(x, y)) \in Number /\ Mul(b, x) \in Number /\ Mul(y, p) \in Number
  BY NumbersClosed
<1>2. \A z \in Number : z \in Fraction
  BY DEF Number
<1> DEFINE g == Mul(b, Mul(x, y))
<1>3. Mul(Add(g, q), p) = Add(Mul(g, p), Mul(q, p))
  <2>1. Add(g, q) \in Number
    BY <1>1, NumbersClosed
  <2>2. Mul(Add(g, q), p) = Mul(p, Add(g, q)) /\ Mul(g, p) = Mul(p, g) /\ Mul(q, p) = Mul(p, q)
    BY <1>1, <1>2, <2>1, AddCommutes
  <2>3. Mul(p, Add(g, q)) = Add(Mul(p, g), Mul(p, q))
    BY <1>1, <1>2, Distributes
  <2> QED
    BY <2>2, <2>3
<1>4. Mul(g, p) = Mul(Mul(b, x), Mul(y, p))
  <2>1. g = Mul(Mul(b, x), y)
    BY MulAssociative
  <2>2. Mul(Mul(Mul(b, x), y), p) = Mul(Mul(b, x), Mul(y, p))
    BY <1>1, MulAssociative
  <2> QED
    BY <2>1, <2>2
<1> QED
  BY <1>3, <1>4

\* A reflection adds a multiple of v to every column.
LEMMA ReflectedCell ==
  ASSUME NEW h \in Nat, NEW w \in Nat, NEW P, NEW v, NEW beta, Reflects(P, v, beta, h), NEW M \in Matrices(h, w),
         NEW r \in Cells(h), NEW k \in Cells(w)
  PROVE  At(MatMul(P, M, h, h, w), w, r, k) =
           Add(Mul(Mul(beta, v[r]), SumOf(Dot(v, M, h, w, k), h)), At(M, w, r, k))
<1> DEFINE p == Pairs(P, M, h, w, r, k)
           u == Dot(v, M, h, w, k)
           g == Mul(beta, v[r])
           y == [j \in Cells(h) |-> Mul(g, u[j])]
           e == [j \in Cells(h) |-> IF j = r THEN At(M, w, r, k) ELSE Zero]
<1>1. P \in Matrices(h, h) /\ v \in Vector(h) /\ beta \in Number /\ \A j \in Cells(h) : v[j] \in Number /\ At(M, w, j, k) \in Number
  BY AtNumber DEF Reflects, Vector
<1>2. u \in Vector(h) /\ \A j \in Cells(h) : u[j] = Mul(v[j], At(M, w, j, k)) /\ u[j] \in Number
  <2>1. u \in Vector(h)
    BY <1>1, DotNumbers
  <2>2. \A j \in Cells(h) : u[j] = Mul(v[j], At(M, w, j, k))
    BY DEF Dot
  <2>3. \A j \in Cells(h) : u[j] \in Number
    BY <2>1 DEF Vector
  <2> QED
    BY <2>1, <2>2, <2>3
<1>3. p \in Vector(h) /\ \A j \in Cells(h) : p[j] = Mul(At(P, h, r, j), At(M, w, j, k))
  BY <1>1, PairsAreNumbers
<1>4. At(MatMul(P, M, h, h, w), w, r, k) = SumOf(p, h)
  BY <1>1, ProductCell
<1> HIDE DEF p, u
<1>5. g \in Number /\ Zero \in Number /\ One \in Number
  BY <1>1, NumbersClosed
<1>6. \A j \in Cells(h) : Mul(g, u[j]) \in Number
  BY <1>2, <1>5, NumbersClosed
<1>7. y \in Vector(h) /\ SumOf(y, h) = Mul(g, SumOf(u, h))
  <2>1. y \in Vector(h)
    BY <1>6 DEF Vector
  <2> QED
    BY <1>2, <1>5, <2>1, SumScaled
<1>8. e \in Vector(h) /\ SumOf(e, h) = e[r] /\ e[r] = At(M, w, r, k)
  <2>1. e \in Vector(h)
    BY <1>1, <1>5 DEF Vector
  <2>2. e[r] = At(M, w, r, k) /\ e[r] \in Number
    BY <1>1
  <2> QED
    BY <2>1, <2>2, SumOfOne
<1>9. \A j \in Cells(h) : p[j] = Add(y[j], e[j])
  <2> TAKE j \in Cells(h)
  <2> DEFINE q == IF r = j THEN One ELSE Zero
  <2>1. At(P, h, r, j) = Add(Mul(beta, Mul(v[r], v[j])), q) /\ q \in Number
    BY <1>5 DEF Reflects
  <2>2. p[j] = Add(Mul(g, u[j]), Mul(q, At(M, w, j, k)))
    <3> HIDE DEF q
    <3>1. Mul(Add(Mul(beta, Mul(v[r], v[j])), q), At(M, w, j, k)) = Add(Mul(g, Mul(v[j], At(M, w, j, k))), Mul(q, At(M, w, j, k)))
      BY <1>1, <2>1, ReflectedTerm
    <3> QED
      BY <1>2, <1>3, <2>1, <3>1
  <2>3. Mul(q, At(M, w, j, k)) = e[j]
    BY <1>1, OneIsNeutral
  <2> QED
    BY <2>2, <2>3
<1> HIDE DEF y, e, g
<1>10. SumOf(p, h) = Add(SumOf(y, h), SumOf(e, h))
  BY <1>7, <1>8, <1>9, SumAdded
<1> QED
  BY <1>4, <1>7, <1>8, <1>10 DEF g, u

\* A reflection is its own transpose, and its own inverse.
LEMMA ReflectionTwice ==
  ASSUME NEW h \in Nat, NEW P, NEW v, NEW beta, Reflects(P, v, beta, h),
         Mul(beta, SumOf(SquaresOf(v, h), h)) = Whole(-2)
  PROVE  Transpose(P, h, h) = P /\ MatMul(P, P, h, h, h) = Identity(h)
<1> DEFINE vv == SumOf(SquaresOf(v, h), h)
<1>1. P \in Matrices(h, h) /\ v \in Vector(h) /\ beta \in Number /\ \A j \in Cells(h) : v[j] \in Number
  BY DEF Reflects, Vector
<1>2. vv \in Number /\ SquaresOf(v, h) \in Vector(h)
  <2>1. \A j \in Cells(h) : Mul(v[j], v[j]) \in Number
    BY <1>1, NumbersClosed
  <2>2. SquaresOf(v, h) \in Vector(h)
    BY <2>1 DEF SquaresOf, Vector
  <2> QED
    BY <2>2, SumOfNumbers
<1>3. Transpose(P, h, h) = P
  <2>1. Transpose(P, h, h) \in Matrices(h, h) /\ \A i, j \in Cells(h) : At(Transpose(P, h, h), h, j, i) = At(P, h, i, j)
    BY <1>1, TransposeCells
  <2>2. \A i, j \in Cells(h) : At(P, h, i, j) = At(P, h, j, i)
    <3> TAKE i, j \in Cells(h)
    <3>1. Mul(v[i], v[j]) = Mul(v[j], v[i])
      BY <1>1, AddCommutes DEF Number
    <3> QED
      BY <3>1 DEF Reflects
  <2> QED
    BY <1>1, <2>1, <2>2, SameMatrix
<1>4. ASSUME NEW r \in Cells(h), NEW c \in Cells(h)
      PROVE  At(MatMul(P, P, h, h, h), h, r, c) = At(Identity(h), h, r, c)
  <2> DEFINE u == Dot(v, P, h, h, c)
             g == Mul(beta, v[c])
             y == [j \in Cells(h) |-> Mul(g, SquaresOf(v, h)[j])]
             e == [j \in Cells(h) |-> IF j = c THEN v[c] ELSE Zero]
             q == IF r = c THEN One ELSE Zero
             z == Mul(beta, Mul(v[r], v[c]))
  <2>1. At(MatMul(P, P, h, h, h), h, r, c) = Add(Mul(Mul(beta, v[r]), SumOf(u, h)), At(P, h, r, c))
    BY <1>1, ReflectedCell
  <2>2. At(P, h, r, c) = Add(z, q)
    BY DEF Reflects
  <2>3. g \in Number /\ Zero \in Number /\ One \in Number /\ q \in Number
    BY <1>1, NumbersClosed
  <2>4. y \in Vector(h) /\ SumOf(y, h) = Mul(g, vv)
    <3>1. \A j \in Cells(h) : Mul(g, SquaresOf(v, h)[j]) \in Number
      BY <1>2, <2>3, NumbersClosed DEF Vector
    <3>2. y \in Vector(h)
      BY <3>1 DEF Vector
    <3> QED
      BY <1>2, <2>3, <3>2, SumScaled
  <2>5. e \in Vector(h) /\ SumOf(e, h) = v[c]
    <3>1. e \in Vector(h) /\ e[c] = v[c] /\ e[c] \in Number
      BY <1>1, <2>3 DEF Vector
    <3> QED
      BY <3>1, SumOfOne
  <2>6. \A j \in Cells(h) : u[j] = Add(y[j], e[j])
    <3> TAKE j \in Cells(h)
    <3> DEFINE d == IF j = c THEN One ELSE Zero
    <3>1. At(P, h, j, c) = Add(Mul(beta, Mul(v[j], v[c])), d) /\ d \in Number /\ u[j] = Mul(v[j], At(P, h, j, c))
      BY <2>3 DEF Reflects, Dot
    <3>2. Mul(d, v[j]) = e[j]
      BY <1>1, OneIsNeutral
    <3> HIDE DEF d
    <3>3. Mul(v[j], At(P, h, j, c)) = Mul(At(P, h, j, c), v[j])
      BY <1>1, AtNumber, AddCommutes DEF Number
    <3>4. Mul(v[j], v[c]) = Mul(v[c], v[j])
      BY <1>1, AddCommutes DEF Number
    <3>5. Mul(Add(Mul(beta, Mul(v[c], v[j])), d), v[j]) = Add(Mul(g, Mul(v[j], v[j])), Mul(d, v[j]))
      BY <1>1, <3>1, ReflectedTerm
    <3>6. y[j] = Mul(g, Mul(v[j], v[j]))
      BY DEF SquaresOf
    <3> QED
      BY <3>1, <3>2, <3>3, <3>4, <3>5, <3>6
  <2> HIDE DEF u, y, e
  <2>7. SumOf(u, h) = Add(SumOf(y, h), SumOf(e, h))
    BY <2>4, <2>5, <2>6, SumAdded
  <2>8. Add(Mul(Mul(beta, v[r]), Add(Mul(g, vv), v[c])), z) = Zero
    BY <1>1, <1>2, TwiceAway
  <2>9. z \in Number /\ Mul(Mul(beta, v[r]), Add(Mul(g, vv), v[c])) \in Number
    <3>1. Mul(v[r], v[c]) \in Number /\ Mul(beta, v[r]) \in Number /\ Mul(g, vv) \in Number
      BY <1>1, <1>2, <2>3, NumbersClosed
    <3>2. Add(Mul(g, vv), v[c]) \in Number
      BY <1>1, <3>1, NumbersClosed
    <3> QED
      BY <1>1, <3>1, <3>2, NumbersClosed
  <2> DEFINE f == Mul(Mul(beta, v[r]), Add(Mul(g, vv), v[c]))
  <2> HIDE DEF f, z, q, g
  <2>10. Add(f, Add(z, q)) = Add(Add(f, z), q)
    BY <2>3, <2>9, AddAssociative DEF f, Number
  <2>11. Add(Zero, q) = q
    BY <2>3, OneIsNeutral
  <2>12. At(Identity(h), h, r, c) = q
    BY IdentityCells DEF q
  <2>13. At(MatMul(P, P, h, h, h), h, r, c) = Add(f, Add(z, q))
    BY <2>1, <2>2, <2>4, <2>5, <2>7 DEF f
  <2>14. Add(f, Add(z, q)) = q
    BY <2>8, <2>10, <2>11 DEF f
  <2> QED
    BY <2>12, <2>13, <2>14
<1>5. MatMul(P, P, h, h, h) = Identity(h)
  BY <1>1, <1>4, ProductType, IdentityCells, SameMatrix
<1> QED
  BY <1>3, <1>5

-----------------------------------------------------------------------------
(* Two terms of a sum that are turned against each other.                   *)

\* A rotation of the columns i and j keeps what both add to a product.
RotationKept(c, s, a, b, v, w) ==
  Add(Mul(Sub(Mul(c, a), Mul(s, b)), Sub(Mul(c, v), Mul(s, w))),
      Mul(Add(Mul(s, a), Mul(c, b)), Add(Mul(s, v), Mul(c, w)))) = Add(Mul(a, v), Mul(b, w))

\* It does for an angle: cs * cs + sn * sn = 1.
LEMMA RotationKeeps ==
  ASSUME NEW c \in Number, NEW s \in Number, NEW a \in Number, NEW b \in Number, NEW v \in Number, NEW w \in Number,
         Mul(c, c) = Sub(One, Mul(s, s))
  PROVE  RotationKept(c, s, a, b, v, w)
<1> DEFINE sg == Neg(One)
           ca == Mul(c, a)
           sb == Mul(s, b)
           cv == Mul(c, v)
           sw == Mul(s, w)
           sa == Mul(s, a)
           cb == Mul(c, b)
           sv == Mul(s, v)
           cw == Mul(c, w)
           bw == Mul(b, w)
           av == Mul(a, v)
           X == Mul(Sub(ca, sb), Sub(cv, sw))
           Y == Mul(Add(cb, sa), Add(cw, sv))
<1>1. /\ ca \in Number /\ sb \in Number /\ cv \in Number /\ sw \in Number
      /\ sa \in Number /\ cb \in Number /\ sv \in Number /\ cw \in Number /\ bw \in Number /\ av \in Number
      /\ Mul(s, s) \in Number /\ One \in Number /\ sg \in Signs
  BY NumbersClosed DEF Signs
<1>2. X \in Number /\ Y \in Number
  BY <1>1, NumbersClosed
<1>3. Mul(c, c) = Add(One, Mul(sg, Mul(s, s)))
  BY <1>1, MinusOne
<1>4. TurnKept(c, s, b, w, a, v, sg)
  BY <1>1, <1>3, TurnKeeps
<1>5. Add(bw, Mul(sg, X)) = Add(Mul(Sub(cb, Mul(sg, sa)), Sub(cw, Mul(sg, sv))), Mul(sg, av))
  BY <1>4 DEF TurnKept
<1> HIDE DEF X
<1>6. Mul(sg, X) = Neg(X) /\ Mul(sg, sa) = Neg(sa) /\ Mul(sg, sv) = Neg(sv) /\ Mul(sg, av) = Neg(av)
  BY <1>1, <1>2, MinusOne
<1>7. Sub(cb, Neg(sa)) = Add(cb, sa) /\ Sub(cw, Neg(sv)) = Add(cw, sv)
  BY <1>1, MinusOne
<1>8. Add(cb, sa) = Add(sa, cb) /\ Add(cw, sv) = Add(sv, cw)
  BY <1>1, AddCommutes DEF Number
<1>9. Add(bw, Neg(X)) = Add(Y, Neg(av))
  BY <1>5, <1>6, <1>7
<1>10. RotationKept(c, s, a, b, v, w) <=> Add(X, Y) = Add(av, bw)
  BY <1>8 DEF RotationKept, X
<1> HIDE DEF bw, av, Y, sg, ca, sb, cv, sw, sa, cb, sv, cw
<1>11. PICK d \in Int : d # 0 /\ OnGrid(bw, d) /\ OnGrid(X, d) /\ OnGrid(Y, d) /\ OnGrid(av, d)
  BY <1>1, <1>2, CommonDenominators
<1>12. PICK i \in Int, x \in Int : Stands(bw, i, d) /\ Stands(X, x, d)
  BY <1>11 DEF OnGrid
<1>13. PICK j \in Int, y \in Int : Stands(av, j, d) /\ Stands(Y, y, d)
  BY <1>11 DEF OnGrid
<1>14. Stands(Neg(X), -x, d) /\ Stands(Neg(av), -j, d)
  BY <1>11, <1>12, <1>13, NegStands
<1>15. Stands(Add(bw, Neg(X)), i + (-x), d) /\ Stands(Add(Y, Neg(av)), y + (-j), d)
  BY <1>11, <1>12, <1>13, <1>14, SumsOver
<1>16. i + (-x) = y + (-j)
  BY <1>9, <1>11, <1>15, OneNumerator
<1>17. Stands(Add(X, Y), x + y, d) /\ Stands(Add(av, bw), j + i, d)
  BY <1>11, <1>12, <1>13, SumsOver
<1>18. x + y = j + i
  BY <1>16
<1>19. Add(X, Y) = Add(av, bw)
  BY <1>11, <1>17, <1>18, StandsUnique
<1> QED
  BY <1>10, <1>19

\* A sum of which two terms change and keep what they add keeps its value.
LEMMA TwoTermsChanged ==
  ASSUME NEW w \in Nat, NEW u \in Vector(w), NEW v \in Vector(w), NEW i \in Cells(w), NEW j \in Cells(w), i # j,
         \A k \in Cells(w) : k # i /\ k # j => u[k] = v[k],
         Add(u[i], u[j]) = Add(v[i], v[j])
  PROVE  SumOf(u, w) = SumOf(v, w)
<1> DEFINE x == [v EXCEPT ![i] = u[i]]
<1>1. u \in [Cells(w) -> Number] /\ v \in [Cells(w) -> Number]
  BY DEF Vector
<1>2. x \in Vector(w) /\ x[i] = u[i] /\ x[j] = v[j] /\ \A k \in Cells(w) : k # i => x[k] = v[k]
  BY <1>1 DEF Vector
<1> HIDE DEF x
<1>3. \A k \in Cells(w) : k # j => u[k] = x[k]
  BY <1>2
<1>4. Add(SumOf(x, w), v[i]) = Add(SumOf(v, w), u[i])
  BY <1>2, SumChanged
<1>5. Add(SumOf(u, w), v[j]) = Add(SumOf(x, w), u[j])
  BY <1>2, <1>3, SumChanged
<1> DEFINE a == SumOf(u, w)
           b == SumOf(v, w)
           c == SumOf(x, w)
<1>6. a \in Number /\ b \in Number /\ c \in Number /\ u[i] \in Number /\ u[j] \in Number /\ v[i] \in Number /\ v[j] \in Number
  BY <1>1, <1>2, SumOfNumbers
<1> HIDE DEF a, b, c
<1>7. \A p \in Number : p \in Fraction
  BY DEF Number
<1>8. Add(Add(a, v[j]), v[i]) = Add(Add(b, u[i]), u[j])
  <2>1. Add(Add(c, u[j]), v[i]) = Add(Add(c, v[i]), u[j])
    BY <1>6, <1>7, AddAssociative, AddCommutes
  <2> QED
    BY <1>4, <1>5, <2>1 DEF a, b, c
<1>9. Add(a, Add(v[i], v[j])) = Add(b, Add(v[i], v[j]))
  <2>1. Add(Add(a, v[j]), v[i]) = Add(a, Add(v[j], v[i])) /\ Add(v[j], v[i]) = Add(v[i], v[j])
    BY <1>6, <1>7, AddAssociative, AddCommutes
  <2>2. Add(Add(b, u[i]), u[j]) = Add(b, Add(u[i], u[j]))
    BY <1>6, <1>7, AddAssociative
  <2> QED
    BY <1>8, <2>1, <2>2
<1>10. a = b
  <2>1. Add(v[i], v[j]) \in Number
    BY <1>6, NumbersClosed
  <2>2. Sub(Add(a, Add(v[i], v[j])), Add(v[i], v[j])) = a /\ Sub(Add(b, Add(v[i], v[j])), Add(v[i], v[j])) = b
    BY <1>6, <2>1, SubUndoes
  <2> QED
    BY <1>9, <2>2
<1> QED
  BY <1>10 DEF a, b
=============================================================================
