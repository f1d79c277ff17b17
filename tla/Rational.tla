------------------------------ MODULE Rational ------------------------------
(***************************************************************************)
(* The float arithmetic of the library without its rounding: exact         *)
(* fractions. A value is <<n, d>> with d > 0 and no common divisor. What   *)
(* division by zero gives (an infinity or a NaN) is the one value NaN,     *)
(* which every operation on it returns and which compares false.           *)
(***************************************************************************)
EXTENDS Integers

Magnitude(n) == IF n < 0 THEN -n ELSE n

Gcd[p \in Nat \X Nat] == IF p[2] = 0 THEN p[1] ELSE Gcd[<<p[2], p[1] % p[2]>>]

NaN == <<0, 0>>

Quotient(n, d) ==
  IF d = 0 THEN NaN
  ELSE LET g == Gcd[<<Magnitude(n), Magnitude(d)>>]
           s == IF d < 0 THEN -1 ELSE 1
       IN  <<s * (n \div g), Magnitude(d) \div g>>

Whole(n) == <<n, 1>>
Zero == Whole(0)
One == Whole(1)

IsNumber(p) == p[2] # 0

Fraction == {p \in Int \X Nat : p = NaN \/ (IsNumber(p) /\ Gcd[<<Magnitude(p[1]), p[2]>>] = 1)}
Number == {p \in Fraction : IsNumber(p)}

Add(p, q) ==
  IF p[2] = 1 /\ q[2] = 1 THEN Whole(p[1] + q[1])
  ELSE Quotient(p[1] * q[2] + q[1] * p[2], p[2] * q[2])
Neg(p) == <<-p[1], p[2]>>
Sub(p, q) == Add(p, Neg(q))
Mul(p, q) ==
  IF p[2] = 1 /\ q[2] = 1 THEN Whole(p[1] * q[1])
  ELSE Quotient(p[1] * q[1], p[2] * q[2])
Div(p, q) ==
  IF IsNumber(p) /\ IsNumber(q) THEN Quotient(p[1] * q[2], p[2] * q[1]) ELSE NaN

Less(p, q) == IsNumber(p) /\ IsNumber(q) /\ p[1] * q[2] < q[1] * p[2]
LessEq(p, q) == Less(p, q) \/ (p = q /\ IsNumber(p))
Absolute(p) == <<Magnitude(p[1]), p[2]>>

\* sqrtf of a square, otherwise NaN: its callers here take roots of squares only.
Root(q) ==
  LET IsRoot(r, k) == IF r = 0 THEN k = 0 ELSE k % r = 0 /\ k \div r = r   \* r * r = k
      root(k) == CHOOSE r \in 0 .. k : IsRoot(r, k)
  IN  IF IsNumber(q) /\ \A i \in 1 .. 2 : \E r \in 0 .. q[i] : IsRoot(r, q[i])
      THEN <<root(q[1]), root(q[2])>>
      ELSE NaN

\* for (i = lo; i <= hi; i++) state = body(state, i)
For(lo, hi, body(_, _), start) ==
  LET after[i \in lo - 1 .. hi] == IF i < lo THEN start ELSE body(after[i - 1], i)
  IN  IF hi < lo THEN start ELSE after[hi]

\* f(lo) + ... + f(hi), added from the left as the loops do.
SumOver(lo, hi, f(_)) == For(lo, hi, LAMBDA sum, i : Add(sum, f(i)), Zero)

=============================================================================
