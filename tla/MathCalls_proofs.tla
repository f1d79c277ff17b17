---------------------------- MODULE MathCalls_proofs ----------------------------
(***************************************************************************)
(* For every size and every matrix of numbers: smls_mat_inv inverts, the   *)
(* solvers solve, qr and the singular value decomposition factor, a        *)
(* Cholesky factor follows its updates, all wherever no division by zero   *)
(* spoils the answer, and for lup, inv and gauss wherever the matrix is    *)
(* regular; a sort keeps values and columns together, the exponential of a *)
(* nilpotent matrix is its series, smls_nonlinsolve returns the best point *)
(* it met. One section for each elimination, substitution and              *)
(* factorization, with the stage its loop has reached after each pass as   *)
(* the invariant; then what the calls return.                              *)
(***************************************************************************)
EXTENDS MathCalls, Matrix_proofs

-----------------------------------------------------------------------------
(* The triangular solvers.                                                  *)

\* What the inner loop of a triangular solver adds up.
LEMMA RowSumIs ==
  ASSUME NEW m \in Nat, NEW M \in Vector(m * m), NEW r \in Cells(m), NEW x \in Vector(m),
         NEW lo \in Nat, NEW hi \in Int, hi <= m - 1, lo - 1 <= hi
  PROVE  RowSum(M, m, r, x, lo, hi) = Total(Along(M, m, r, x), lo, hi)
<1> DEFINE e(j) == Mul(M[r * m + j], x[j])
           v == Along(M, m, r, x)
           P(f) == f = [k \in lo - 1 .. hi |-> IF k < lo THEN Zero ELSE Add(f[k - 1], e(k))]
           z == CHOOSE f : P(f)
<1>1. RowSum(M, m, r, x, lo, hi) = IF hi < lo THEN Zero ELSE z[hi]
  BY DEF RowSum, SumOver, For
<1>2. \A k \in lo - 1 .. hi : ~(k < lo) => v[k] = e(k)
  <2>1. r * m = m * r
    BY DEF Cells
  <2> QED
    BY <2>1 DEF Along, Cells
<1>3. Numbers(v, lo, hi)
  BY AlongNumbers DEF Numbers
<1> HIDE DEF e, v
<1>4. PICK s \in [lo - 1 .. hi -> Number] : Sums(s, v, lo, hi)
  BY <1>3, NumberSumsExist
<1>5. P(s)
  <2>1. \A k \in lo - 1 .. hi : s[k] = IF k < lo THEN Zero ELSE Add(s[k - 1], e(k))
    BY <1>2, <1>4 DEF Sums
  <2> QED
    BY <2>1
<1> HIDE DEF P
<1>6. P(z)
  BY <1>5
<1> HIDE DEF z
<1>7. Sums(z, v, lo, hi)
  BY <1>2, <1>6 DEF P, Sums
<1>8. Total(v, lo, hi) = z[hi]
  BY <1>3, <1>7, TotalIs
<1>9. CASE hi < lo
  <2>1. hi = lo - 1
    BY <1>9
  <2> QED
    BY <1>1, <1>9, <2>1, TotalEmpty DEF v
<1>10. CASE ~(hi < lo)
  BY <1>1, <1>8, <1>10 DEF v
<1> QED
  BY <1>9, <1>10

\* The rows up to r are solved, as far as the diagonal.
LowerStage(M, b, m, i) == {x \in Vector(m) : \A r \in Cells(m) : r <= i => Total(Along(M, m, r, x), 0, r) = b[r]}

\* One row solved.
LEMMA LowerStep ==
  ASSUME NEW m \in Nat, NEW M \in Vector(m * m), NEW b \in Vector(m), NEW i \in Cells(m),
         M[i * m + i] # Zero, NEW x \in LowerStage(M, b, m, i - 1)
  PROVE  SolvedRow(M, b, m, x, i, 0, i - 1) \in LowerStage(M, b, m, i)
<1> DEFINE T == Total(Along(M, m, i, x), 0, i - 1)
           d == M[i * m + i]
           v == Div(Sub(b[i], T), d)
           y == [x EXCEPT ![i] = v]
<1>1. /\ i \in Nat /\ i <= m - 1 /\ i * m = m * i /\ x \in Vector(m)
      /\ i - 1 \in Int /\ 0 - 1 <= i - 1 /\ i - 1 <= m - 1
  BY DEF Cells, LowerStage
<1>2. SolvedRow(M, b, m, x, i, 0, i - 1) = y
  <2>1. RowSum(M, m, i, x, 0, i - 1) = T
    BY <1>1, RowSumIs
  <2> QED
    BY <2>1 DEF SolvedRow
<1>3. T \in Number
  <2>1. Numbers(Along(M, m, i, x), 0, i - 1)
    BY <1>1, AlongNumbers DEF Numbers
  <2> QED
    BY <1>1, <2>1, TotalType
<1>4. d \in Number /\ b[i] \in Number
  BY <1>1, CellOf DEF Vector
<1> HIDE DEF T
<1>5. v \in Number /\ Mul(d, v) = Sub(b[i], T)
  BY <1>3, <1>4, NumbersClosed, DivUndoes
<1> HIDE DEF v
<1>6. y \in Vector(m) /\ y[i] = v /\ \A k \in Cells(m) : k # i => y[k] = x[k]
  BY <1>1, <1>5 DEF Vector
<1> HIDE DEF y
<1>7. ASSUME NEW r \in Cells(m), r <= i
      PROVE  Total(Along(M, m, r, y), 0, r) = b[r]
  <2>1. r \in Nat /\ r <= m - 1 /\ r - 1 \in Int
    BY DEF Cells
  <2>2. Numbers(Along(M, m, r, y), 0, m - 1) /\ Numbers(Along(M, m, r, x), 0, m - 1)
    BY <1>1, <1>6, AlongNumbers
  <2>3. \A k \in 0 .. m - 1 : k # i => Along(M, m, r, y)[k] = Along(M, m, r, x)[k]
    BY <1>6 DEF Along, Cells
  <2>4. CASE r < i
    <3>1. \A k \in 0 .. r : Along(M, m, r, y)[k] = Along(M, m, r, x)[k]
      BY <1>1, <2>1, <2>3, <2>4
    <3>2. Numbers(Along(M, m, r, y), 0, r)
      BY <2>1, <2>2 DEF Numbers
    <3>3. Total(Along(M, m, r, y), 0, r) = Total(Along(M, m, r, x), 0, r)
      BY <2>1, <3>1, <3>2, TotalAgree
    <3>4. r <= i - 1
      BY <1>1, <2>1, <2>4
    <3> QED
      BY <3>3, <3>4 DEF LowerStage
  <2>5. CASE r = i
    <3>1. Numbers(Along(M, m, i, y), 0, i) /\ Numbers(Along(M, m, i, y), 0, i - 1)
      BY <1>1, <2>2, <2>5 DEF Numbers
    <3>2. Total(Along(M, m, i, y), 0, i) = Add(Total(Along(M, m, i, y), 0, i - 1), Along(M, m, i, y)[i])
      BY <1>1, <3>1, TotalLast
    <3>3. Along(M, m, i, y)[i] = Mul(d, v)
      BY <1>1, <1>6 DEF Along
    <3>4. \A k \in 0 .. i - 1 : Along(M, m, i, y)[k] = Along(M, m, i, x)[k]
      BY <1>1, <2>3, <2>5
    <3>5. Total(Along(M, m, i, y), 0, i - 1) = T
      BY <1>1, <3>1, <3>4, TotalAgree DEF T
    <3>6. Add(T, Sub(b[i], T)) = b[i]
      BY <1>3, <1>4, SubUndoes, NumbersClosed, AddCommutes DEF Number
    <3> QED
      BY <1>5, <2>5, <3>2, <3>3, <3>5, <3>6
  <2> QED
    BY <1>1, <1>7, <2>1, <2>4, <2>5
<1> QED
  BY <1>2, <1>6, <1>7 DEF LowerStage

\* All rows solved.
LEMMA LowerRuns ==
  ASSUME NEW m \in Nat, NEW M \in Vector(m * m), NEW b \in Vector(m),
         \A r \in Cells(m) : M[r * m + r] # Zero
  PROVE  LowerTriangular(M, b, m) \in LowerStage(M, b, m, m - 1)
<1> DEFINE lo == 0
           hi == m - 1
           start == Filled(m, Zero)
           B(x, i) == SolvedRow(M, b, m, x, i, 0, i - 1)
           P(f) == f = [i \in lo - 1 .. hi |-> IF i < lo THEN start ELSE B(f[i - 1], i)]
           z == CHOOSE f : P(f)
           body == [q \in Vector(m) \X Int |-> B(q[1], q[2])]
           Stage == [i \in lo - 1 .. hi |-> LowerStage(M, b, m, i)]
<1>1. LowerTriangular(M, b, m) = IF hi < lo THEN start ELSE z[hi]
  BY DEF LowerTriangular, For
<1>2. lo \in Int /\ hi \in Int /\ lo - 1 \in lo - 1 .. hi /\ hi \in lo - 1 .. hi /\ (hi < lo => hi = lo - 1)
  OBVIOUS
<1>3. start \in Vector(m) /\ start \in LowerStage(M, b, m, lo - 1)
  BY NumbersClosed DEF Filled, Vector, LowerStage, Cells
<1>4. ASSUME NEW i \in lo .. hi, NEW s \in LowerStage(M, b, m, i - 1)
      PROVE  B(s, i) \in LowerStage(M, b, m, i) /\ body[<<s, i>>] = B(s, i)
  <2>1. i \in Cells(m) /\ i \in Int
    BY DEF Cells
  <2>2. s \in Vector(m)
    BY DEF LowerStage
  <2> QED
    BY <2>1, <2>2, LowerStep
<1>5. \A i \in lo - 1 .. hi : Stage[i] = LowerStage(M, b, m, i) /\ Stage[i] \subseteq Vector(m)
  BY DEF LowerStage
<1>6. Stage[hi] = LowerStage(M, b, m, m - 1)
  BY <1>2, <1>5
<1> HIDE DEF Stage, body, start, lo, hi, B
<1>7. \A i \in lo .. hi : i \in lo - 1 .. hi /\ i - 1 \in lo - 1 .. hi /\ ~(i < lo)
  BY <1>2
<1>8. ASSUME NEW i \in lo .. hi, NEW s \in Stage[i - 1]
      PROVE  B(s, i) \in Stage[i] /\ body[<<s, i>>] = B(s, i)
  BY <1>4, <1>5, <1>7
<1>9. start \in Stage[lo - 1]
  BY <1>2, <1>3, <1>5
<1>10. PICK f : Runs(f, lo, hi, start, body) /\ \A i \in lo - 1 .. hi : f[i] \in Stage[i]
  <2>1. Leads(lo, hi, start, body, Stage)
    BY <1>8, <1>9 DEF Leads
  <2> QED
    BY <1>2, <1>3, <1>5, <2>1, LoopRuns
<1>11. P(f)
  <2>1. \A i \in lo - 1 .. hi : ~(i < lo) => body[<<f[i - 1], i>>] = B(f[i - 1], i)
    BY <1>2, <1>7, <1>8, <1>10
  <2> QED
    BY <1>10, <2>1 DEF Runs
<1> HIDE DEF P
<1>12. P(z)
  BY <1>11
<1> HIDE DEF z
<1>13. \A i \in lo - 1 .. hi : z[i] = IF i < lo THEN start ELSE B(z[i - 1], i)
  BY <1>12 DEF P
<1>14. \A i \in lo - 1 .. hi : z[i] \in Stage[i]
  <2>1. z[lo - 1] \in Stage[lo - 1]
    <3>1. lo - 1 \in lo - 1 .. hi /\ lo - 1 < lo
      BY <1>2
    <3>2. z[lo - 1] = start
      BY <1>13, <3>1
    <3> QED
      BY <1>9, <3>2
  <2>2. \A i \in lo .. hi : z[i - 1] \in Stage[i - 1] => z[i] \in Stage[i]
    BY <1>7, <1>8, <1>13
  <2> QED
    BY <1>2, <2>1, <2>2, StagesHold
<1> QED
  BY <1>1, <1>2, <1>6, <1>9, <1>14

\* A lower triangular system without a zero on the diagonal is solved.
LEMMA LowerSolves ==
  ASSUME NEW m \in Nat, NEW M \in Vector(m * m), NEW b \in Vector(m),
         \A r \in Cells(m) : M[r * m + r] # Zero,
         \A r, k \in Cells(m) : k > r => M[r * m + k] = Zero
  PROVE  /\ LowerTriangular(M, b, m) \in Vector(m)
         /\ \A r \in Cells(m) : Total(Along(M, m, r, LowerTriangular(M, b, m)), 0, m - 1) = b[r]
         /\ MatMul(M, LowerTriangular(M, b, m), m, m, 1) = b
<1> DEFINE x == LowerTriangular(M, b, m)
<1>1. x \in LowerStage(M, b, m, m - 1)
  BY LowerRuns
<1> HIDE DEF x
<1>2. x \in Vector(m)
  BY <1>1 DEF LowerStage
<1>3. ASSUME NEW r \in Cells(m)
      PROVE  Total(Along(M, m, r, x), 0, m - 1) = b[r]
  <2>1. r \in Nat /\ r <= m - 1 /\ 0 - 1 <= r /\ m - 1 \in Int
    BY DEF Cells
  <2>2. Numbers(Along(M, m, r, x), 0, m - 1)
    BY <1>2, AlongNumbers
  <2>3. ASSUME NEW k \in r + 1 .. m - 1
        PROVE  Along(M, m, r, x)[k] = Zero
    <3>1. k \in Cells(m) /\ k > r /\ r * m + k = m * r + k
      BY <2>1 DEF Cells
    <3>2. Along(M, m, r, x)[k] = Mul(Zero, x[k])
      BY <3>1 DEF Along
    <3> QED
      BY <1>2, <3>1, <3>2, OneIsNeutral DEF Vector
  <2>4. Total(Along(M, m, r, x), 0, m - 1) = Total(Along(M, m, r, x), 0, r)
    BY <2>1, <2>2, <2>3, TotalStops
  <2> QED
    BY <1>1, <2>1, <2>4 DEF LowerStage
<1>4. b = [r \in Cells(m) |-> b[r]]
  BY DEF Vector
<1> QED
  BY <1>2, <1>3, <1>4, MatVec DEF x

\* The last rows are solved, from the diagonal on, and the others untouched.
UpperStage(M, b, m, s) ==
  {x \in Vector(m) :
     \A r \in Cells(m) : IF r >= m - 1 - s THEN Total(Along(M, m, r, x), r, m - 1) = b[r] ELSE x[r] = Zero}

\* One row solved, from below.
LEMMA UpperStep ==
  ASSUME NEW m \in Nat, NEW M \in Vector(m * m), NEW b \in Vector(m), NEW s \in Cells(m), NEW i,
         i = m - 1 - s, M[i * m + i] # Zero, NEW x \in UpperStage(M, b, m, s - 1)
  PROVE  SolvedRow(M, b, m, x, i, i, m - 1) \in UpperStage(M, b, m, s)
<1> DEFINE T == Total(Along(M, m, i, x), i + 1, m - 1)
           d == M[i * m + i]
           v == Div(Sub(b[i], T), d)
           y == [x EXCEPT ![i] = v]
<1>1. /\ i \in Nat /\ i <= m - 1 /\ i * m = m * i /\ x \in Vector(m) /\ i \in Cells(m)
      /\ m - 1 - (s - 1) = i + 1 /\ m - 1 \in Int /\ i + 1 \in Int /\ i - 1 <= m - 1 /\ (i + 1) - 1 <= m - 1
  BY DEF Cells, UpperStage
<1>2. x[i] = Zero
  BY <1>1 DEF UpperStage
<1>3. Numbers(Along(M, m, i, x), 0, m - 1) /\ Numbers(Along(M, m, i, x), i, m - 1)
      /\ Numbers(Along(M, m, i, x), i + 1, m - 1)
  BY <1>1, AlongNumbers DEF Numbers
<1>4. T \in Number
  BY <1>1, <1>3, TotalType
<1>5. d \in Number /\ b[i] \in Number
  BY <1>1, CellOf DEF Vector
<1>6. RowSum(M, m, i, x, i, m - 1) = T
  <2>1. RowSum(M, m, i, x, i, m - 1) = Total(Along(M, m, i, x), i, m - 1)
    BY <1>1, RowSumIs
  <2>2. Total(Along(M, m, i, x), i, m - 1) = Add(Along(M, m, i, x)[i], T)
    BY <1>1, <1>3, TotalFirst
  <2>3. Along(M, m, i, x)[i] = Mul(d, Zero)
    BY <1>1, <1>2 DEF Along
  <2> HIDE DEF T, d
  <2> QED
    BY <1>4, <1>5, <2>1, <2>2, <2>3, OneIsNeutral
<1>7. SolvedRow(M, b, m, x, i, i, m - 1) = y
  BY <1>6 DEF SolvedRow
<1> HIDE DEF T
<1>8. v \in Number /\ Mul(d, v) = Sub(b[i], T)
  BY <1>1, <1>4, <1>5, NumbersClosed, DivUndoes
<1> HIDE DEF v
<1>9. y \in Vector(m) /\ y[i] = v /\ \A k \in Cells(m) : k # i => y[k] = x[k]
  BY <1>1, <1>8 DEF Vector
<1> HIDE DEF y
<1>10. ASSUME NEW r \in Cells(m), r >= i
       PROVE  Total(Along(M, m, r, y), r, m - 1) = b[r]
  <2>1. r \in Nat /\ r <= m - 1 /\ r + 1 \in Int /\ r - 1 <= m - 1
    BY DEF Cells
  <2>2. Numbers(Along(M, m, r, y), 0, m - 1) /\ Numbers(Along(M, m, r, x), 0, m - 1)
    BY <1>1, <1>9, AlongNumbers
  <2>3. \A k \in 0 .. m - 1 : k # i => Along(M, m, r, y)[k] = Along(M, m, r, x)[k]
    BY <1>9 DEF Along, Cells
  <2>4. CASE r > i
    <3>1. \A k \in r .. m - 1 : Along(M, m, r, y)[k] = Along(M, m, r, x)[k]
      BY <1>1, <2>1, <2>3, <2>4
    <3>2. Numbers(Along(M, m, r, y), r, m - 1)
      BY <2>1, <2>2 DEF Numbers
    <3>3. Total(Along(M, m, r, y), r, m - 1) = Total(Along(M, m, r, x), r, m - 1)
      BY <1>1, <2>1, <3>1, <3>2, TotalAgree
    <3>4. r >= m - 1 - (s - 1)
      BY <1>1, <2>1, <2>4
    <3>5. Total(Along(M, m, r, x), r, m - 1) = b[r]
      BY <3>4 DEF UpperStage
    <3> QED
      BY <3>3, <3>5
  <2>5. CASE r = i
    <3>1. Numbers(Along(M, m, i, y), i, m - 1) /\ Numbers(Along(M, m, i, y), i + 1, m - 1)
      BY <1>1, <2>2, <2>5 DEF Numbers
    <3>2. Total(Along(M, m, i, y), i, m - 1) = Add(Along(M, m, i, y)[i], Total(Along(M, m, i, y), i + 1, m - 1))
      BY <1>1, <3>1, TotalFirst
    <3>3. Along(M, m, i, y)[i] = Mul(d, v)
      BY <1>1, <1>9 DEF Along
    <3>4. \A k \in i + 1 .. m - 1 : Along(M, m, i, y)[k] = Along(M, m, i, x)[k]
      BY <1>1, <2>3, <2>5
    <3>5. Total(Along(M, m, i, y), i + 1, m - 1) = T
      BY <1>1, <3>1, <3>4, TotalAgree DEF T
    <3>6. Add(Sub(b[i], T), T) = b[i]
      BY <1>4, <1>5, SubUndoes
    <3> QED
      BY <1>8, <2>5, <3>2, <3>3, <3>5, <3>6
  <2> QED
    BY <1>1, <1>10, <2>1, <2>4, <2>5
<1>11. ASSUME NEW r \in Cells(m), ~(r >= i)
       PROVE  y[r] = Zero
  <2>1. r # i /\ ~(r >= m - 1 - (s - 1)) /\ r \in Int
    BY <1>1, <1>11 DEF Cells
  <2>2. x[r] = Zero
    BY <2>1 DEF UpperStage
  <2> QED
    BY <1>9, <2>1, <2>2
<1> QED
  BY <1>1, <1>7, <1>9, <1>10, <1>11 DEF UpperStage

\* All rows solved.
LEMMA UpperRuns ==
  ASSUME NEW m \in Nat, NEW M \in Vector(m * m), NEW b \in Vector(m),
         \A r \in Cells(m) : M[r * m + r] # Zero
  PROVE  UpperTriangular(M, b, m) \in UpperStage(M, b, m, m - 1)
<1> DEFINE lo == 0
           hi == m - 1
           start == Filled(m, Zero)
           B(x, i) == SolvedRow(M, b, m, x, m - 1 - i, m - 1 - i, m - 1)
           P(f) == f = [i \in lo - 1 .. hi |-> IF i < lo THEN start ELSE B(f[i - 1], i)]
           z == CHOOSE f : P(f)
           body == [q \in Vector(m) \X Int |-> B(q[1], q[2])]
           Stage == [i \in lo - 1 .. hi |-> UpperStage(M, b, m, i)]
<1>1. UpperTriangular(M, b, m) = IF hi < lo THEN start ELSE z[hi]
  BY DEF UpperTriangular, For
<1>2. lo \in Int /\ hi \in Int /\ lo - 1 \in lo - 1 .. hi /\ hi \in lo - 1 .. hi /\ (hi < lo => hi = lo - 1)
  OBVIOUS
<1>3. start \in Vector(m) /\ start \in UpperStage(M, b, m, lo - 1)
  BY NumbersClosed DEF Filled, Vector, UpperStage, Cells
<1>4. ASSUME NEW i \in lo .. hi, NEW s \in UpperStage(M, b, m, i - 1)
      PROVE  B(s, i) \in UpperStage(M, b, m, i) /\ body[<<s, i>>] = B(s, i)
  <2>1. i \in Cells(m) /\ i \in Int /\ m - 1 - i \in Cells(m)
    BY DEF Cells
  <2>2. s \in Vector(m)
    BY DEF UpperStage
  <2> QED
    BY <2>1, <2>2, UpperStep
<1>5. \A i \in lo - 1 .. hi : Stage[i] = UpperStage(M, b, m, i) /\ Stage[i] \subseteq Vector(m)
  BY DEF UpperStage
<1>6. Stage[hi] = UpperStage(M, b, m, m - 1)
  BY <1>2, <1>5
<1> HIDE DEF Stage, body, start, lo, hi, B
<1>7. \A i \in lo .. hi : i \in lo - 1 .. hi /\ i - 1 \in lo - 1 .. hi /\ ~(i < lo)
  BY <1>2
<1>8. ASSUME NEW i \in lo .. hi, NEW s \in Stage[i - 1]
      PROVE  B(s, i) \in Stage[i] /\ body[<<s, i>>] = B(s, i)
  BY <1>4, <1>5, <1>7
<1>9. start \in Stage[lo - 1]
  BY <1>2, <1>3, <1>5
<1>10. PICK f : Runs(f, lo, hi, start, body) /\ \A i \in lo - 1 .. hi : f[i] \in Stage[i]
  <2>1. Leads(lo, hi, start, body, Stage)
    BY <1>8, <1>9 DEF Leads
  <2> QED
    BY <1>2, <1>3, <1>5, <2>1, LoopRuns
<1>11. P(f)
  <2>1. \A i \in lo - 1 .. hi : ~(i < lo) => body[<<f[i - 1], i>>] = B(f[i - 1], i)
    BY <1>2, <1>7, <1>8, <1>10
  <2> QED
    BY <1>10, <2>1 DEF Runs
<1> HIDE DEF P
<1>12. P(z)
  BY <1>11
<1> HIDE DEF z
<1>13. \A i \in lo - 1 .. hi : z[i] = IF i < lo THEN start ELSE B(z[i - 1], i)
  BY <1>12 DEF P
<1>14. \A i \in lo - 1 .. hi : z[i] \in Stage[i]
  <2>1. z[lo - 1] \in Stage[lo - 1]
    <3>1. lo - 1 \in lo - 1 .. hi /\ lo - 1 < lo
      BY <1>2
    <3>2. z[lo - 1] = start
      BY <1>13, <3>1
    <3> QED
      BY <1>9, <3>2
  <2>2. \A i \in lo .. hi : z[i - 1] \in Stage[i - 1] => z[i] \in Stage[i]
    BY <1>7, <1>8, <1>13
  <2> QED
    BY <1>2, <2>1, <2>2, StagesHold
<1> QED
  BY <1>1, <1>2, <1>6, <1>9, <1>14

\* An upper triangular system without a zero on the diagonal is solved.
LEMMA UpperSolves ==
  ASSUME NEW m \in Nat, NEW M \in Vector(m * m), NEW b \in Vector(m),
         \A r \in Cells(m) : M[r * m + r] # Zero,
         \A r, k \in Cells(m) : k < r => M[r * m + k] = Zero
  PROVE  /\ UpperTriangular(M, b, m) \in Vector(m)
         /\ \A r \in Cells(m) : Total(Along(M, m, r, UpperTriangular(M, b, m)), 0, m - 1) = b[r]
         /\ MatMul(M, UpperTriangular(M, b, m), m, m, 1) = b
<1> DEFINE x == UpperTriangular(M, b, m)
<1>1. x \in UpperStage(M, b, m, m - 1)
  BY UpperRuns
<1> HIDE DEF x
<1>2. x \in Vector(m)
  BY <1>1 DEF UpperStage
<1>3. ASSUME NEW r \in Cells(m)
      PROVE  Total(Along(M, m, r, x), 0, m - 1) = b[r]
  <2>1. r \in Nat /\ r <= (m - 1) + 1 /\ 0 <= r /\ m - 1 \in Int /\ r >= m - 1 - (m - 1)
    BY DEF Cells
  <2>2. Numbers(Along(M, m, r, x), 0, m - 1)
    BY <1>2, AlongNumbers
  <2>3. ASSUME NEW k \in 0 .. r - 1
        PROVE  Along(M, m, r, x)[k] = Zero
    <3>1. k \in Cells(m) /\ k < r /\ r * m + k = m * r + k
      BY <2>1 DEF Cells
    <3>2. Along(M, m, r, x)[k] = Mul(Zero, x[k])
      BY <3>1 DEF Along
    <3> QED
      BY <1>2, <3>1, <3>2, OneIsNeutral DEF Vector
  <2>4. Total(Along(M, m, r, x), 0, m - 1) = Total(Along(M, m, r, x), r, m - 1)
    BY <2>1, <2>2, <2>3, TotalDropsZeros
  <2> QED
    BY <1>1, <2>1, <2>4 DEF UpperStage
<1>4. b = [r \in Cells(m) |-> b[r]]
  BY DEF Vector
<1> QED
  BY <1>2, <1>3, <1>4, MatVec DEF x

-----------------------------------------------------------------------------
(* Elimination with row exchanges (lup).                                    *)

\* Each row comes once.
Permutation(P, m) ==
  /\ P \in [Cells(m) -> Cells(m)]
  /\ \A i, j \in Cells(m) : P[i] = P[j] => i = j
  /\ \A r \in Cells(m) : \E q \in Cells(m) : P[q] = r

\* What smls_mat_lup works on.
Factors(m) == [ok : BOOLEAN, LU : [Cells(m * m) -> Fraction], P : [Cells(m) -> Cells(m)]]

\* What row P[q] of the lower factor makes of the upper factor times x.
LowerTerms(LU, P, m, q, x) ==
  [j \in Cells(m) |-> Mul(LU[m * P[q] + j], Total(Along(LU, m, P[j], x), j, m - 1))]

\* The smaller of two.
Least(q, e) == IF q < e THEN q ELSE e

\* After e columns: a row of M times x is what the columns eliminated in it stand
\* for, and what is left of it.
Factored(M, LU, P, m, e, x) ==
  \A q \in Cells(m) :
    Total(Along(M, m, P[q], x), 0, m - 1) =
      Add(Total(LowerTerms(LU, P, m, q, x), 0, Least(q, e) - 1),
          Total(Along(LU, m, P[q], x), Least(q, e), m - 1))

\* x is not zero and M times x is.
Kernel(M, m) ==
  {x \in Vector(m) : /\ \E k \in Cells(m) : x[k] # Zero
                     /\ \A r \in Cells(m) : Total(Along(M, m, r, x), 0, m - 1) = Zero}

\* Up to column i: a pivot that is not zero was found in every column, or there
\* is none to be found.
LupStage(M, m, i) ==
  {s \in Factors(m) :
     IF s.ok THEN /\ s.LU \in Vector(m * m)
                  /\ Permutation(s.P, m)
                  /\ \A x \in Vector(m) : Factored(M, s.LU, s.P, m, i + 1, x)
                  /\ \A q \in Cells(m) : q <= i => s.LU[m * s.P[q] + q] # Zero
     ELSE Kernel(M, m) # {}}

\* No magnitude is less than zero, and only that of zero is not more.
LEMMA Magnitudes ==
  ASSUME NEW p \in Number
  PROVE  /\ ~Less(Absolute(p), Absolute(Zero))
         /\ ~Less(Absolute(Zero), Absolute(p)) => p = Zero
<1> DEFINE u == p[1]
           w == p[2]
           a == Magnitude(u)
<1>1. u \in Int /\ w \in Nat /\ w # 0 /\ (p # Zero => u # 0)
  BY NumberParts, ZeroIsZero
<1>2. Absolute(Zero) = <<0, 1>> /\ Absolute(p) = <<a, w>>
  BY DEF Absolute, Zero, Whole, Magnitude
<1> HIDE DEF u, w
<1>3. a \in Nat /\ (u # 0 => a > 0)
  BY <1>1 DEF Magnitude
<1> HIDE DEF a
<1>4. /\ Less(<<a, w>>, <<0, 1>>) <=> a * 1 < 0 * w
      /\ Less(<<0, 1>>, <<a, w>>) <=> 0 * w < a * 1
  BY <1>1 DEF Less, IsNumber
<1> QED
  BY <1>1, <1>2, <1>3, <1>4

\* The scan returns one of the rows it looks at, and a zero only where all are zero.
LEMMA PivotScan ==
  ASSUME NEW m \in Nat, NEW i \in Cells(m), NEW LU \in Vector(m * m), NEW P \in [Cells(m) -> Cells(m)]
  PROVE  /\ Pivot(LU, P, m, i) \in i .. m - 1
         /\ LU[m * P[Pivot(LU, P, m, i)] + i] = Zero => \A j \in i .. m - 1 : LU[m * P[j] + i] = Zero
<1> DEFINE lo == i + 1
           hi == m - 1
           start == i
           S == i .. m - 1
           e(j) == LU[m * P[j] + i]
           B(best, j) == IF Less(Absolute(e(best)), Absolute(e(j))) THEN j ELSE best
           Q(f) == f = [k \in lo - 1 .. hi |-> IF k < lo THEN start ELSE B(f[k - 1], k)]
           z == CHOOSE f : Q(f)
           body == [q \in S \X Int |-> B(q[1], q[2])]
           Source(k) == {best \in S : e(best) = Zero => \A j \in i .. k : e(j) = Zero}
           Stage == [k \in lo - 1 .. hi |-> Source(k)]
<1>1. Pivot(LU, P, m, i) = IF hi < lo THEN start ELSE z[hi]
  BY DEF Pivot, FirstLargest, For
<1>2. /\ lo \in Int /\ hi \in Int /\ lo - 1 \in lo - 1 .. hi /\ hi \in lo - 1 .. hi /\ start \in S
      /\ (hi < lo => hi = lo - 1)
  BY DEF Cells
<1>3. start \in Source(lo - 1)
  BY <1>2
<1>4. ASSUME NEW k \in lo .. hi, NEW s \in Source(k - 1)
      PROVE  B(s, k) \in Source(k) /\ body[<<s, k>>] = B(s, k)
  <2>1. k \in S /\ k \in Int /\ s \in S /\ \A j \in i .. k : j \in i .. k - 1 \/ j = k
    BY DEF Cells
  <2>2. s \in Cells(m) /\ k \in Cells(m)
    BY <2>1 DEF Cells
  <2>3. e(s) \in Number /\ e(k) \in Number
    BY <2>2, CellOf DEF Vector
  <2>4. e(s) = Zero => \A j \in i .. k - 1 : e(j) = Zero
    OBVIOUS
  <2> HIDE DEF e, Source
  <2>5. CASE Less(Absolute(e(s)), Absolute(e(k)))
    <3>1. e(k) # Zero
      BY <2>3, <2>5, Magnitudes
    <3> QED
      BY <2>1, <2>5, <3>1 DEF Source
  <2>6. CASE ~Less(Absolute(e(s)), Absolute(e(k)))
    <3>1. e(s) = Zero => e(k) = Zero
      BY <2>3, <2>6, Magnitudes
    <3> QED
      BY <2>1, <2>4, <2>6, <3>1 DEF Source
  <2> QED
    BY <2>5, <2>6
<1>5. \A k \in lo - 1 .. hi : Stage[k] = Source(k) /\ Stage[k] \subseteq S
  OBVIOUS
<1>6. Stage[hi] = Source(m - 1)
  BY <1>2, <1>5
<1> HIDE DEF Stage, body, start, lo, hi, B, Source, S, e
<1>7. \A k \in lo .. hi : k \in lo - 1 .. hi /\ k - 1 \in lo - 1 .. hi /\ ~(k < lo)
  BY <1>2
<1>8. ASSUME NEW k \in lo .. hi, NEW s \in Stage[k - 1]
      PROVE  B(s, k) \in Stage[k] /\ body[<<s, k>>] = B(s, k)
  BY <1>4, <1>5, <1>7
<1>9. start \in Stage[lo - 1]
  BY <1>2, <1>3, <1>5
<1>10. PICK f : Runs(f, lo, hi, start, body) /\ \A k \in lo - 1 .. hi : f[k] \in Stage[k]
  <2>1. Leads(lo, hi, start, body, Stage)
    BY <1>8, <1>9 DEF Leads
  <2> QED
    BY <1>2, <1>3, <1>5, <2>1, LoopRuns
<1>11. Q(f)
  <2>1. \A k \in lo - 1 .. hi : ~(k < lo) => body[<<f[k - 1], k>>] = B(f[k - 1], k)
    BY <1>2, <1>7, <1>8, <1>10
  <2> QED
    BY <1>10, <2>1 DEF Runs
<1> HIDE DEF Q
<1>12. Q(z)
  BY <1>11
<1> HIDE DEF z
<1>13. \A k \in lo - 1 .. hi : z[k] = IF k < lo THEN start ELSE B(z[k - 1], k)
  BY <1>12 DEF Q
<1>14. \A k \in lo - 1 .. hi : z[k] \in Stage[k]
  <2>1. z[lo - 1] \in Stage[lo - 1]
    <3>1. lo - 1 \in lo - 1 .. hi /\ lo - 1 < lo
      BY <1>2
    <3>2. z[lo - 1] = start
      BY <1>13, <3>1
    <3> QED
      BY <1>9, <3>2
  <2>2. \A k \in lo .. hi : z[k - 1] \in Stage[k - 1] => z[k] \in Stage[k]
    BY <1>7, <1>8, <1>13
  <2> QED
    BY <1>2, <2>1, <2>2, StagesHold
<1>15. Pivot(LU, P, m, i) \in Source(m - 1)
  BY <1>1, <1>2, <1>6, <1>9, <1>14
<1> QED
  BY <1>15 DEF Source, S, e

\* The multipliers times the rows they were taken from are numbers.
LEMMA LowerTermsNumbers ==
  ASSUME NEW m \in Nat, NEW LU \in Vector(m * m), NEW P \in [Cells(m) -> Cells(m)],
         NEW q \in Cells(m), NEW x \in Vector(m)
  PROVE  Numbers(LowerTerms(LU, P, m, q, x), 0, m - 1)
<1>1. ASSUME NEW j \in Cells(m)
      PROVE  Mul(LU[m * P[q] + j], Total(Along(LU, m, P[j], x), j, m - 1)) \in Number
  <2>1. P[q] \in Cells(m) /\ P[j] \in Cells(m)
    OBVIOUS
  <2>2. LU[m * P[q] + j] \in Number
    BY <2>1, CellOf DEF Vector
  <2>3. j \in Int /\ m - 1 \in Int /\ j - 1 <= m - 1 /\ Numbers(Along(LU, m, P[j], x), j, m - 1)
    <3>1. j \in Int /\ m - 1 \in Int /\ j - 1 <= m - 1 /\ 0 <= j
      BY DEF Cells
    <3>2. Numbers(Along(LU, m, P[j], x), 0, m - 1)
      BY <2>1, AlongNumbers
    <3> QED
      BY <3>1, <3>2 DEF Numbers
  <2>4. Total(Along(LU, m, P[j], x), j, m - 1) \in Number
    <3> DEFINE row == Along(LU, m, P[j], x)
    <3>1. Numbers(row, j, m - 1)
      BY <2>3
    <3> HIDE DEF row
    <3>2. Total(row, j, m - 1) \in Number
      BY <2>3, <3>1, TotalType
    <3> QED
      BY <3>2 DEF row
  <2> QED
    BY <2>2, <2>4, NumbersClosed
<1> QED
  BY <1>1 DEF LowerTerms, Numbers, Cells

\* Exchanging rows that are not eliminated yet changes nothing.
LEMMA Exchanges ==
  ASSUME NEW m \in Nat, NEW P, Permutation(P, m), NEW i \in Cells(m), NEW p \in i .. m - 1,
         NEW Q, Q = [P EXCEPT ![i] = P[p], ![p] = P[i]]
  PROVE  /\ Permutation(Q, m)
         /\ \A M, x : \A LU \in Vector(m * m) :
              x \in Vector(m) /\ Factored(M, LU, P, m, i, x) => Factored(M, LU, Q, m, i, x)
<1> DEFINE turn(q) == IF q = i THEN p ELSE IF q = p THEN i ELSE q
<1>1. /\ P \in [Cells(m) -> Cells(m)] /\ p \in Cells(m) /\ i <= p
      /\ \A k, j \in Cells(m) : P[k] = P[j] => k = j
      /\ \A r \in Cells(m) : \E q \in Cells(m) : P[q] = r
  <2>1. p \in Cells(m) /\ i <= p
    BY DEF Cells
  <2> QED
    BY <2>1 DEF Permutation
<1> i \in Int /\ p \in Int /\ \A q \in Cells(m) : q \in Int
  BY DEF Cells
<1>2. Q \in [Cells(m) -> Cells(m)] /\ \A q \in Cells(m) : turn(q) \in Cells(m) /\ Q[q] = P[turn(q)]
  BY <1>1
<1>3. \A q \in Cells(m) : turn(turn(q)) = q
  OBVIOUS
<1>4. \A q \in Cells(m) : q < i => turn(q) = q
  BY <1>1
<1>5. \A q \in Cells(m) : Least(turn(q), i) = Least(q, i)
  BY <1>1 DEF Least
<1> HIDE DEF turn
<1>6. Permutation(Q, m)
  <2>1. ASSUME NEW k \in Cells(m), NEW j \in Cells(m), Q[k] = Q[j]
        PROVE  k = j
    <3>1. turn(k) = turn(j)
      BY <1>1, <1>2, <2>1
    <3> QED
      BY <1>3, <3>1
  <2>2. ASSUME NEW r \in Cells(m)
        PROVE  \E q \in Cells(m) : Q[q] = r
    <3>1. PICK q \in Cells(m) : P[q] = r
      BY <1>1
    <3>2. turn(q) \in Cells(m) /\ Q[turn(q)] = r
      BY <1>2, <1>3, <3>1
    <3> QED
      BY <3>2
  <2> QED
    BY <1>2, <2>1, <2>2 DEF Permutation
<1>7. ASSUME NEW M, NEW x \in Vector(m), NEW LU \in Vector(m * m), Factored(M, LU, P, m, i, x)
      PROVE  Factored(M, LU, Q, m, i, x)
  <2> SUFFICES ASSUME NEW q \in Cells(m)
               PROVE  Total(Along(M, m, Q[q], x), 0, m - 1) =
                        Add(Total(LowerTerms(LU, Q, m, q, x), 0, Least(q, i) - 1),
                            Total(Along(LU, m, Q[q], x), Least(q, i), m - 1))
    BY DEF Factored
  <2> DEFINE k == turn(q)
             h == Least(q, i) - 1
  <2>1. k \in Cells(m) /\ Q[q] = P[k] /\ Least(k, i) = Least(q, i)
    BY <1>2, <1>5
  <2>2. h \in Int /\ 0 - 1 <= h /\ h <= m - 1 /\ h < i
    BY DEF Least, Cells
  <2>3. Total(Along(M, m, P[k], x), 0, m - 1) =
          Add(Total(LowerTerms(LU, P, m, k, x), 0, h), Total(Along(LU, m, P[k], x), Least(q, i), m - 1))
    BY <1>7, <2>1 DEF Factored
  <2> HIDE DEF h
  <2>4. ASSUME NEW j \in 0 .. h
        PROVE  LowerTerms(LU, P, m, k, x)[j] = LowerTerms(LU, Q, m, q, x)[j]
    <3>1. j \in Cells(m) /\ j < i
      BY <2>2 DEF Cells
    <3>2. Q[j] = P[j]
      BY <1>2, <1>4, <3>1
    <3> QED
      BY <2>1, <3>1, <3>2 DEF LowerTerms
  <2>5. Numbers(LowerTerms(LU, P, m, k, x), 0, h)
    <3>1. Numbers(LowerTerms(LU, P, m, k, x), 0, m - 1)
      BY <1>1, <2>1, LowerTermsNumbers
    <3> QED
      BY <2>2, <3>1 DEF Numbers
  <2>6. Total(LowerTerms(LU, P, m, k, x), 0, h) = Total(LowerTerms(LU, Q, m, q, x), 0, h)
    <3>1. 0 \in Int
      OBVIOUS
    <3> QED
      BY <2>2, <2>4, <2>5, <3>1, TotalAgree
  <2> QED
    BY <2>1, <2>3, <2>6 DEF h
<1> QED
  BY <1>6, <1>7

\* What is eliminated from a row goes over to its term of column i.
LEMMA Rearranged ==
  ASSUME NEW l \in Number, NEW f \in Number, NEW d \in Number, NEW x \in Number, NEW w \in Number,
         NEW v \in Number
  PROVE  Add(l, Add(Mul(Mul(f, d), x), Add(v, Mul(f, w)))) = Add(Add(l, Mul(f, Add(Mul(d, x), w))), v)
<1> DEFINE y == Mul(Mul(f, d), x)
           g == Mul(f, w)
<1>1. y \in Number /\ g \in Number /\ Mul(d, x) \in Number
  BY NumbersClosed
<1>2. Mul(f, Add(Mul(d, x), w)) = Add(y, g)
  <2>1. Mul(f, Add(Mul(d, x), w)) = Add(Mul(f, Mul(d, x)), g)
    BY <1>1, Distributes DEF Number
  <2> QED
    BY <2>1, MulAssociative
<1> HIDE DEF y, g
<1>3. l \in Fraction /\ y \in Fraction /\ v \in Fraction /\ g \in Fraction /\ Add(y, g) \in Fraction
      /\ Add(v, g) \in Fraction
  BY <1>1, NumbersClosed DEF Number
<1>4. Add(y, Add(v, g)) = Add(Add(y, g), v)
  <2>1. Add(v, g) = Add(g, v)
    BY <1>3, AddCommutes
  <2>2. Add(y, Add(g, v)) = Add(Add(y, g), v)
    BY <1>3, AddAssociative
  <2> QED
    BY <2>1, <2>2
<1>5. Add(l, Add(Add(y, g), v)) = Add(Add(l, Add(y, g)), v)
  BY <1>3, AddAssociative
<1> QED
  BY <1>2, <1>4, <1>5 DEF y, g

\* The rows an elimination changes, and how.
LEMMA Eliminates ==
  ASSUME NEW m \in Nat, NEW LU \in [Cells(m * m) -> Fraction], NEW P, Permutation(P, m), NEW i \in Cells(m),
         NEW q \in Cells(m), NEW k \in Cells(m)
  PROVE  Eliminated(LU, P, m, i)[m * P[q] + k] =
           IF q <= i \/ k < i THEN LU[m * P[q] + k]
           ELSE IF k = i THEN Div(LU[m * P[q] + i], LU[m * P[i] + i])
           ELSE Sub(LU[m * P[q] + k], Mul(LU[m * P[i] + k], Div(LU[m * P[q] + i], LU[m * P[i] + i])))
<1> DEFINE c == m * P[q] + k
           below == {P[j] : j \in i + 1 .. m - 1}
<1>1. P[q] \in Cells(m) /\ \A j \in Cells(m) : P[q] = P[j] => q = j
  BY DEF Permutation
<1>2. c \in DOMAIN LU /\ c \div m = P[q] /\ c % m = k
  <2> DEFINE r == P[q]
  <2>1. r \in Cells(m)
    BY <1>1
  <2> HIDE DEF r
  <2>2. m * r + k \in Cells(m * m) /\ (m * r + k) \div m = r /\ (m * r + k) % m = k
    BY <2>1, CellOf
  <2>3. DOMAIN LU = Cells(m * m)
    OBVIOUS
  <2> QED
    BY <2>2, <2>3 DEF r
<1>3. (P[q] \notin below) <=> (q <= i)
  <2>1. q \in Int /\ i \in Int /\ q <= m - 1 /\ (\A j \in i + 1 .. m - 1 : j \in Cells(m))
    BY DEF Cells
  <2> QED
    BY <1>1, <2>1
<1> HIDE DEF c
<1>4. Eliminated(LU, P, m, i)[c] =
        IF P[q] \notin below \/ k < i THEN LU[c]
        ELSE IF k = i THEN Div(LU[m * P[q] + i], LU[m * P[i] + i])
        ELSE Sub(LU[c], Mul(LU[m * P[i] + k], Div(LU[m * P[q] + i], LU[m * P[i] + i])))
  BY <1>2 DEF Eliminated
<1> QED
  BY <1>3, <1>4 DEF c

\* A column of the elimination leaves fractions.
LEMMA EliminatedType ==
  ASSUME NEW m \in Nat, NEW LU \in [Cells(m * m) -> Fraction], NEW P \in [Cells(m) -> Cells(m)], NEW i \in Cells(m)
  PROVE  Eliminated(LU, P, m, i) \in [Cells(m * m) -> Fraction]
<1>1. \A r, k \in Cells(m) : LU[m * r + k] \in Fraction
  BY CellOf
<1>2. ASSUME NEW c \in Cells(m * m)
      PROVE  Eliminated(LU, P, m, i)[c] \in Fraction
  <2> DEFINE r == c \div m
             k == c % m
             f == Div(LU[m * r + i], LU[m * P[i] + i])
             g == Sub(LU[c], Mul(LU[m * P[i] + k], f))
  <2>1. r \in Cells(m) /\ k \in Cells(m) /\ LU[c] \in Fraction /\ P[i] \in Cells(m)
    BY PartsOf
  <2>2. Eliminated(LU, P, m, i)[c] \in {LU[c], f, g}
    BY DEF Eliminated
  <2> HIDE DEF r, k
  <2>3. f \in Fraction /\ LU[m * P[i] + k] \in Fraction
    BY <1>1, <2>1, DivClosed
  <2> HIDE DEF f
  <2>4. g \in Fraction
    BY <2>1, <2>3, Closed
  <2> QED
    BY <2>1, <2>2, <2>3, <2>4
<1>3. Eliminated(LU, P, m, i) = [c \in Cells(m * m) |-> Eliminated(LU, P, m, i)[c]]
  BY DEF Eliminated
<1> QED
  BY <1>2, <1>3

\* A row less a multiple of another, times x.
LEMMA RowLess ==
  ASSUME NEW a \in Number, NEW e \in Number, NEW u \in Number, NEW p \in Number, NEW y \in Number,
         u = Sub(a, Mul(e, p))
  PROVE  Mul(a, y) = Add(Mul(u, y), Mul(p, Mul(e, y)))
<1>1. Mul(p, e) \in Number /\ Mul(e, p) = Mul(p, e)
  BY NumbersClosed, AddCommutes DEF Number
<1>2. a = Add(u, Mul(p, e))
  BY <1>1, SubUndoes
<1>3. u \in Fraction /\ y \in Fraction /\ Mul(p, e) \in Fraction /\ Add(u, Mul(p, e)) \in Fraction
  BY <1>1, NumbersClosed DEF Number
<1>4. Mul(y, Add(u, Mul(p, e))) = Add(Mul(y, u), Mul(y, Mul(p, e)))
  BY <1>3, Distributes
<1>5. Mul(a, y) = Add(Mul(u, y), Mul(Mul(p, e), y))
  BY <1>2, <1>3, <1>4, AddCommutes
<1>6. Mul(Mul(p, e), y) = Mul(p, Mul(e, y))
  BY MulAssociative
<1> QED
  BY <1>5, <1>6

\* A column whose pivot is not zero leaves numbers.
LEMMA EliminatedNumbers ==
  ASSUME NEW m \in Nat, NEW LU \in Vector(m * m), NEW P, Permutation(P, m), NEW i \in Cells(m),
         LU[m * P[i] + i] # Zero
  PROVE  /\ Eliminated(LU, P, m, i) \in Vector(m * m)
         /\ \A q \in Cells(m) : /\ Div(LU[m * P[q] + i], LU[m * P[i] + i]) \in Number
                                /\ Mul(Div(LU[m * P[q] + i], LU[m * P[i] + i]), LU[m * P[i] + i]) = LU[m * P[q] + i]
<1> DEFINE N == Eliminated(LU, P, m, i)
           d == LU[m * P[i] + i]
           f(q) == Div(LU[m * P[q] + i], d)
<1>1. LU \in [Cells(m * m) -> Fraction] /\ P \in [Cells(m) -> Cells(m)]
  BY DEF Vector, Number, Permutation
<1>2. \A r \in Cells(m) : \E q \in Cells(m) : P[q] = r
  BY DEF Permutation
<1>3. \A q, k \in Cells(m) : LU[m * P[q] + k] \in Number
  BY <1>1, CellOf DEF Vector
<1>4. \A q \in Cells(m) : f(q) \in Number /\ Mul(f(q), d) = LU[m * P[q] + i]
  BY <1>3, DivUndoes
<1>5. \A q, k \in Cells(m) :
        N[m * P[q] + k] = IF q <= i \/ k < i THEN LU[m * P[q] + k]
                          ELSE IF k = i THEN f(q) ELSE Sub(LU[m * P[q] + k], Mul(LU[m * P[i] + k], f(q)))
  BY <1>1, Eliminates
<1>6. N \in [Cells(m * m) -> Fraction]
  BY <1>1, EliminatedType
<1> HIDE DEF N, f
<1>7. ASSUME NEW q \in Cells(m), NEW k \in Cells(m)
      PROVE  N[m * P[q] + k] \in Number
  <2>1. Mul(LU[m * P[i] + k], f(q)) \in Number
    BY <1>3, <1>4, NumbersClosed
  <2>2. Sub(LU[m * P[q] + k], Mul(LU[m * P[i] + k], f(q))) \in Number
    BY <1>3, <2>1, NumbersClosed
  <2> QED
    BY <1>3, <1>4, <1>5, <2>2
<1>8. ASSUME NEW c \in Cells(m * m)
      PROVE  N[c] \in Number
  <2> DEFINE r == c \div m
             k == c % m
  <2>1. r \in Cells(m) /\ k \in Cells(m) /\ c = m * r + k
    BY PartsOf
  <2> HIDE DEF r, k
  <2>2. PICK q \in Cells(m) : P[q] = r
    BY <1>2, <2>1
  <2> QED
    BY <1>7, <2>1, <2>2
<1>9. N = [c \in Cells(m * m) |-> N[c]]
  BY <1>6
<1>10. N \in Vector(m * m)
  BY <1>8, <1>9 DEF Vector
<1> QED
  BY <1>4, <1>10 DEF N, f

\* One column: what it takes out of the rows below goes into their lower factor.
LEMMA EliminationStep ==
  ASSUME NEW m \in Nat, NEW M, NEW LU \in Vector(m * m), NEW P, Permutation(P, m), NEW i \in Cells(m),
         LU[m * P[i] + i] # Zero, NEW x \in Vector(m), Factored(M, LU, P, m, i, x)
  PROVE  Factored(M, Eliminated(LU, P, m, i), P, m, i + 1, x)
<1> DEFINE N == Eliminated(LU, P, m, i)
           d == LU[m * P[i] + i]
           f(q) == Div(LU[m * P[q] + i], d)
<1>1. LU \in [Cells(m * m) -> Fraction] /\ P \in [Cells(m) -> Cells(m)]
  BY DEF Vector, Number, Permutation
<1>2. /\ i \in Nat /\ i <= m - 1 /\ m - 1 \in Int /\ i + 1 \in Int /\ i - 1 \in Int /\ 0 \in Int
      /\ \A q \in Cells(m) : q \in Nat /\ q <= m - 1
  BY DEF Cells
<1>3. \A q, k \in Cells(m) : LU[m * P[q] + k] \in Number
  BY <1>1, CellOf DEF Vector
<1>4. N \in Vector(m * m) /\ \A q \in Cells(m) : f(q) \in Number /\ Mul(f(q), d) = LU[m * P[q] + i]
  BY EliminatedNumbers
<1>5. \A q, k \in Cells(m) :
        N[m * P[q] + k] = IF q <= i \/ k < i THEN LU[m * P[q] + k]
                          ELSE IF k = i THEN f(q) ELSE Sub(LU[m * P[q] + k], Mul(LU[m * P[i] + k], f(q)))
  BY <1>1, Eliminates
<1> HIDE DEF N, f
<1>6. \A q \in Cells(m) : /\ Numbers(Along(LU, m, P[q], x), 0, m - 1) /\ Numbers(Along(N, m, P[q], x), 0, m - 1)
                          /\ Numbers(LowerTerms(LU, P, m, q, x), 0, m - 1)
                          /\ Numbers(LowerTerms(N, P, m, q, x), 0, m - 1)
  BY <1>1, <1>4, AlongNumbers, LowerTermsNumbers
<1>7. ASSUME NEW q \in Cells(m), q <= i, NEW lo \in 0 .. m
      PROVE  Total(Along(N, m, P[q], x), lo, m - 1) = Total(Along(LU, m, P[q], x), lo, m - 1)
  <2>1. \A k \in lo .. m - 1 : k \in Cells(m) /\ Along(N, m, P[q], x)[k] = Along(LU, m, P[q], x)[k]
    BY <1>5, <1>7 DEF Along, Cells
  <2>2. Numbers(Along(N, m, P[q], x), lo, m - 1) /\ lo \in Int /\ lo - 1 <= m - 1
    BY <1>6 DEF Numbers
  <2> QED
    BY <1>2, <2>1, <2>2, TotalAgree
<1>8. ASSUME NEW q \in Cells(m), NEW h \in Int, 0 - 1 <= h, h < q, h < i
      PROVE  Total(LowerTerms(N, P, m, q, x), 0, h) = Total(LowerTerms(LU, P, m, q, x), 0, h)
  <2>1. ASSUME NEW j \in 0 .. h
        PROVE  LowerTerms(N, P, m, q, x)[j] = LowerTerms(LU, P, m, q, x)[j]
    <3>1. j \in Cells(m) /\ j < i /\ j <= i /\ j \in 0 .. m
      BY <1>2, <1>8 DEF Cells
    <3>2. N[m * P[q] + j] = LU[m * P[q] + j]
      BY <1>5, <3>1
    <3>3. Total(Along(N, m, P[j], x), j, m - 1) = Total(Along(LU, m, P[j], x), j, m - 1)
      BY <1>7, <3>1
    <3> QED
      BY <3>1, <3>2, <3>3 DEF LowerTerms
  <2>2. Numbers(LowerTerms(N, P, m, q, x), 0, h)
    BY <1>2, <1>6, <1>8 DEF Numbers
  <2>3. 0 \in Int
    OBVIOUS
  <2> QED
    BY <1>8, <2>1, <2>2, <2>3, TotalAgree
<1> SUFFICES ASSUME NEW q \in Cells(m)
             PROVE  Total(Along(M, m, P[q], x), 0, m - 1) =
                      Add(Total(LowerTerms(N, P, m, q, x), 0, Least(q, i + 1) - 1),
                          Total(Along(N, m, P[q], x), Least(q, i + 1), m - 1))
  BY DEF Factored, N
<1>9. Total(Along(M, m, P[q], x), 0, m - 1) =
        Add(Total(LowerTerms(LU, P, m, q, x), 0, Least(q, i) - 1), Total(Along(LU, m, P[q], x), Least(q, i), m - 1))
  BY DEF Factored
<1>10. CASE q <= i
  <2>1. Least(q, i) = q /\ Least(q, i + 1) = q /\ q \in 0 .. m
    BY <1>2, <1>10 DEF Least
  <2>2. q - 1 \in Int /\ 0 - 1 <= q - 1 /\ q - 1 < q /\ q - 1 < i
    BY <1>2, <1>10
  <2> QED
    BY <1>7, <1>8, <1>9, <1>10, <2>1, <2>2
<1>11. CASE ~(q <= i)
  <2> DEFINE l == Total(LowerTerms(LU, P, m, q, x), 0, i - 1)
             w == Total(Along(LU, m, P[i], x), i + 1, m - 1)
             v == Total(Along(N, m, P[q], x), i + 1, m - 1)
             u == Total(Along(LU, m, P[q], x), i + 1, m - 1)
             p == f(q)
  <2>1. Least(q, i) = i /\ Least(q, i + 1) = i + 1 /\ i + 1 <= m - 1 /\ i < q /\ (i + 1) - 1 = i /\ i \in 0 .. m
    BY <1>2, <1>11 DEF Least
  <2>2. Total(LowerTerms(N, P, m, q, x), 0, i - 1) = l
    BY <1>2, <1>8, <2>1
  <2>3. /\ Numbers(Along(LU, m, P[q], x), i, m - 1) /\ Numbers(Along(LU, m, P[q], x), i + 1, m - 1)
        /\ Numbers(Along(LU, m, P[i], x), i, m - 1) /\ Numbers(Along(LU, m, P[i], x), i + 1, m - 1)
        /\ Numbers(Along(N, m, P[q], x), i + 1, m - 1)
        /\ Numbers(LowerTerms(LU, P, m, q, x), 0, i - 1) /\ Numbers(LowerTerms(N, P, m, q, x), 0, i)
    BY <1>2, <1>6 DEF Numbers
  <2>4. p \in Number /\ d \in Number /\ x[i] \in Number /\ Mul(p, d) = LU[m * P[q] + i]
    BY <1>3, <1>4 DEF Vector
  <2>5. l \in Number /\ w \in Number /\ v \in Number
    <3>1. 0 - 1 <= i - 1 /\ (i + 1) - 1 <= m - 1
      BY <1>2
    <3> QED
      BY <1>2, <2>3, <3>1, TotalType
  <2>6. Total(Along(LU, m, P[i], x), i, m - 1) = Add(Mul(d, x[i]), w)
    <3>1. Total(Along(LU, m, P[i], x), i, m - 1) = Add(Along(LU, m, P[i], x)[i], w)
      BY <1>2, <2>3, TotalFirst
    <3> QED
      BY <3>1 DEF Along
  <2>7. Total(Along(LU, m, P[q], x), i, m - 1) = Add(Mul(Mul(p, d), x[i]), u)
    <3>1. Total(Along(LU, m, P[q], x), i, m - 1) = Add(Along(LU, m, P[q], x)[i], u)
      BY <1>2, <2>3, TotalFirst
    <3> QED
      BY <2>4, <3>1 DEF Along
  <2>8. Total(LowerTerms(N, P, m, q, x), 0, i) = Add(l, Mul(p, Add(Mul(d, x[i]), w)))
    <3>1. Total(LowerTerms(N, P, m, q, x), 0, i) =
            Add(Total(LowerTerms(N, P, m, q, x), 0, i - 1), LowerTerms(N, P, m, q, x)[i])
      BY <1>2, <2>3, TotalLast
    <3>2. N[m * P[q] + i] = p
      <4>1. ~(i < i)
        BY <1>2
      <4> QED
        BY <1>5, <1>11, <4>1
    <3>3. Total(Along(N, m, P[i], x), i, m - 1) = Add(Mul(d, x[i]), w)
      BY <1>2, <1>7, <2>1, <2>6
    <3> QED
      BY <2>2, <3>1, <3>2, <3>3 DEF LowerTerms
  <2>9. u = Add(v, Mul(p, w))
    <3>1. ASSUME NEW k \in i + 1 .. m - 1
          PROVE  Along(LU, m, P[q], x)[k] = Add(Along(N, m, P[q], x)[k], Mul(p, Along(LU, m, P[i], x)[k]))
      <4>1. k \in Cells(m) /\ k > i
        BY <1>2 DEF Cells
      <4>2. N[m * P[q] + k] = Sub(LU[m * P[q] + k], Mul(LU[m * P[i] + k], p))
        BY <1>2, <1>5, <2>1, <4>1
      <4>3. /\ LU[m * P[q] + k] \in Number /\ LU[m * P[i] + k] \in Number /\ N[m * P[q] + k] \in Number
            /\ x[k] \in Number
        BY <1>1, <1>3, <1>4, <4>1, CellOf DEF Vector
      <4>4. Mul(LU[m * P[q] + k], x[k]) = Add(Mul(N[m * P[q] + k], x[k]), Mul(p, Mul(LU[m * P[i] + k], x[k])))
        BY <2>4, <4>2, <4>3, RowLess
      <4> QED
        BY <4>1, <4>4 DEF Along
    <3>2. (i + 1) - 1 <= m - 1
      BY <1>2
    <3> QED
      BY <1>2, <2>3, <2>4, <3>1, <3>2, TotalLinear
  <2> DEFINE y == x[i]
  <2>10. y \in Number
    BY <2>4
  <2> HIDE DEF l, w, v, u, p, d, y
  <2>11. Add(l, Add(Mul(Mul(p, d), y), Add(v, Mul(p, w)))) = Add(Add(l, Mul(p, Add(Mul(d, y), w))), v)
    <3>1. /\ l \in Number /\ p \in Number /\ d \in Number /\ y \in Number /\ w \in Number /\ v \in Number
      BY <2>4, <2>5, <2>10
    <3> QED
      BY ONLY <3>1, Rearranged
  <2> QED
    BY <1>9, <2>1, <2>7, <2>8, <2>9, <2>11 DEF l, v, y
<1> QED
  BY <1>10, <1>11

\* Rows k to i - 1 of the upper factor can be made zero by a vector that is one at i.
Flat(LU, P, m, i, k) ==
  {x \in Vector(m) :
     /\ x[i] = One
     /\ \A j \in Cells(m) : j > i => x[j] = Zero
     /\ \A q \in Cells(m) : k <= q /\ q < i => Total(Along(LU, m, P[q], x), q, m - 1) = Zero}

\* One more element from below.
LEMMA FlatStep ==
  ASSUME NEW m \in Nat, NEW LU \in Vector(m * m), NEW P \in [Cells(m) -> Cells(m)], NEW i \in Cells(m),
         NEW q \in Cells(m), q < i, LU[m * P[q] + q] # Zero, NEW x \in Flat(LU, P, m, i, q + 1)
  PROVE  Flat(LU, P, m, i, q) # {}
<1> DEFINE T == Total(Along(LU, m, P[q], x), q + 1, m - 1)
           d == LU[m * P[q] + q]
           v == Div(Neg(T), d)
           y == [x EXCEPT ![q] = v]
<1>1. /\ q \in Nat /\ q <= m - 1 /\ x \in Vector(m) /\ i \in Int /\ m - 1 \in Int
      /\ q + 1 \in Int /\ (q + 1) - 1 <= m - 1
  BY DEF Cells, Flat
<1>2. Numbers(Along(LU, m, P[q], x), q + 1, m - 1)
  <2>1. Numbers(Along(LU, m, P[q], x), 0, m - 1)
    BY <1>1, AlongNumbers
  <2> QED
    BY <1>1, <2>1 DEF Numbers
<1>3. T \in Number /\ d \in Number
  <2>1. d \in Number
    BY CellOf DEF Vector
  <2> QED
    BY <1>1, <1>2, <2>1, TotalType
<1>4. Add(Neg(T), T) = Zero
  <2>1. T \in Fraction /\ Neg(T) \in Fraction /\ Sub(T, T) = Zero
    BY <1>3, NumbersClosed, SubUndoes DEF Number
  <2>2. Add(Neg(T), T) = Add(T, Neg(T))
    BY <2>1, AddCommutes
  <2> QED
    BY <2>1, <2>2 DEF Sub
<1> HIDE DEF T
<1>5. v \in Number /\ Mul(d, v) = Neg(T)
  BY <1>3, NumbersClosed, DivUndoes
<1> HIDE DEF v
<1>6. y \in Vector(m) /\ y[q] = v /\ \A k \in Cells(m) : k # q => y[k] = x[k]
  BY <1>1, <1>5 DEF Vector
<1> HIDE DEF y
<1>7. ASSUME NEW r \in Cells(m), q <= r, r < i
      PROVE  Total(Along(LU, m, P[r], y), r, m - 1) = Zero
  <2>1. r \in Nat /\ r <= m - 1 /\ r - 1 <= m - 1
    BY DEF Cells
  <2>2. Numbers(Along(LU, m, P[r], y), 0, m - 1)
    BY <1>6, AlongNumbers
  <2>3. \A k \in 0 .. m - 1 : k # q => Along(LU, m, P[r], y)[k] = Along(LU, m, P[r], x)[k]
    BY <1>6 DEF Along, Cells
  <2>4. CASE r # q
    <3>1. \A k \in r .. m - 1 : Along(LU, m, P[r], y)[k] = Along(LU, m, P[r], x)[k]
      BY <1>1, <1>7, <2>1, <2>3, <2>4
    <3>2. Numbers(Along(LU, m, P[r], y), r, m - 1)
      BY <2>1, <2>2 DEF Numbers
    <3>3. Total(Along(LU, m, P[r], y), r, m - 1) = Total(Along(LU, m, P[r], x), r, m - 1)
      BY <1>1, <2>1, <3>1, <3>2, TotalAgree
    <3>4. q + 1 <= r
      BY <1>1, <1>7, <2>1, <2>4
    <3> QED
      BY <1>7, <3>3, <3>4 DEF Flat
  <2>5. CASE r = q
    <3>1. Numbers(Along(LU, m, P[q], y), q, m - 1) /\ Numbers(Along(LU, m, P[q], y), q + 1, m - 1)
      BY <1>1, <2>2, <2>5 DEF Numbers
    <3>2. Total(Along(LU, m, P[q], y), q, m - 1) =
            Add(Along(LU, m, P[q], y)[q], Total(Along(LU, m, P[q], y), q + 1, m - 1))
      BY <1>1, <3>1, TotalFirst
    <3>3. Along(LU, m, P[q], y)[q] = Mul(d, v)
      BY <1>6 DEF Along
    <3>4. \A k \in q + 1 .. m - 1 : Along(LU, m, P[q], y)[k] = Along(LU, m, P[q], x)[k]
      BY <1>1, <2>3, <2>5
    <3>5. Total(Along(LU, m, P[q], y), q + 1, m - 1) = T
      BY <1>1, <3>1, <3>4, TotalAgree DEF T
    <3> QED
      BY <1>4, <1>5, <2>5, <3>2, <3>3, <3>5
  <2> QED
    BY <2>4, <2>5
<1>8. y[i] = One /\ \A j \in Cells(m) : j > i => y[j] = Zero
  <2>1. \A j \in Cells(m) : j > i => j # q
    BY <1>1 DEF Cells
  <2>2. i # q
    BY <1>1
  <2> QED
    BY <1>6, <2>1, <2>2 DEF Flat
<1>9. y \in Flat(LU, P, m, i, q)
  BY <1>6, <1>7, <1>8 DEF Flat
<1> QED
  BY <1>9

\* Where the diagonal up to i is not zero there is such a vector for all of them.
LEMMA FlatFound ==
  ASSUME NEW m \in Nat, NEW LU \in Vector(m * m), NEW P \in [Cells(m) -> Cells(m)], NEW i \in Cells(m),
         \A q \in Cells(m) : q < i => LU[m * P[q] + q] # Zero
  PROVE  Flat(LU, P, m, i, 0) # {}
<1>1. i \in Nat /\ i <= m - 1
  BY DEF Cells
<1> DEFINE T == {k \in Nat : k <= i => Flat(LU, P, m, i, i - k) # {}}
<1>2. 0 \in T
  <2> DEFINE y == [k \in Cells(m) |-> IF k = i THEN One ELSE Zero]
  <2>1. y \in Vector(m) /\ y[i] = One /\ \A j \in Cells(m) : j # i => y[j] = Zero
    BY NumbersClosed DEF Vector
  <2>2. i - 0 = i /\ (\A q \in Cells(m) : ~(i <= q /\ q < i)) /\ \A j \in Cells(m) : j > i => j # i
    BY <1>1
  <2> HIDE DEF y
  <2>3. y \in Flat(LU, P, m, i, i)
    BY <2>1, <2>2 DEF Flat
  <2> QED
    BY <2>2, <2>3
<1>3. ASSUME NEW k \in T PROVE k + 1 \in T
  <2> SUFFICES ASSUME k + 1 <= i PROVE Flat(LU, P, m, i, i - (k + 1)) # {}
    OBVIOUS
  <2> DEFINE q == i - (k + 1)
  <2>1. k <= i /\ q \in Cells(m) /\ q < i /\ i - k = q + 1
    BY <1>1 DEF Cells
  <2>2. Flat(LU, P, m, i, i - k) # {}
    BY <2>1
  <2> HIDE DEF q
  <2>3. PICK x : x \in Flat(LU, P, m, i, q + 1)
    BY <2>1, <2>2
  <2>4. Flat(LU, P, m, i, q) # {}
    BY <2>1, <2>3, FlatStep
  <2> QED
    BY <2>4 DEF q
<1> HIDE DEF T
<1>4. i \in T
  BY <1>1, <1>2, <1>3, Induct DEF T
<1>5. i <= i /\ i - i = 0
  BY <1>1
<1> QED
  BY <1>4, <1>5 DEF T

\* A column without a pivot: some vector that is not zero is mapped to zero.
LEMMA KernelFound ==
  ASSUME NEW m \in Nat, NEW M, NEW LU \in Vector(m * m), NEW P, Permutation(P, m), NEW i \in Cells(m),
         \A q \in Cells(m) : q < i => LU[m * P[q] + q] # Zero,
         \A q \in Cells(m) : q >= i => LU[m * P[q] + i] = Zero,
         \A x \in Vector(m) : Factored(M, LU, P, m, i, x)
  PROVE  Kernel(M, m) # {}
<1>1. P \in [Cells(m) -> Cells(m)] /\ \A r \in Cells(m) : \E q \in Cells(m) : P[q] = r
  BY DEF Permutation
<1>2. /\ i \in Nat /\ i <= m - 1 /\ m - 1 \in Int /\ i - 1 <= m - 1 /\ 0 \in Int
      /\ \A q \in Cells(m) : q \in Nat /\ q <= m - 1 /\ q - 1 <= m - 1
  BY DEF Cells
<1>3. PICK x : x \in Flat(LU, P, m, i, 0)
  BY <1>1, FlatFound
<1>4. /\ x \in Vector(m) /\ x[i] = One /\ \A j \in Cells(m) : j > i => x[j] = Zero
      /\ \A q \in Cells(m) : q < i => Total(Along(LU, m, P[q], x), q, m - 1) = Zero
  BY <1>2, <1>3 DEF Flat
<1>5. ASSUME NEW q \in Cells(m), q >= i
      PROVE  Total(Along(LU, m, P[q], x), i, m - 1) = Zero
  <2>1. ASSUME NEW k \in i .. m - 1
        PROVE  Along(LU, m, P[q], x)[k] = Zero
    <3>1. k \in Cells(m) /\ (k = i \/ k > i)
      BY <1>2 DEF Cells
    <3>2. LU[m * P[q] + k] \in Number
      BY <1>1, <3>1, CellOf DEF Vector
    <3>3. CASE k = i
      BY <1>4, <1>5, <3>1, <3>3, NumbersClosed, OneIsNeutral DEF Along
    <3>4. CASE k > i
      BY <1>4, <3>1, <3>2, <3>4, OneIsNeutral DEF Along
    <3> QED
      BY <3>1, <3>3, <3>4
  <2> QED
    BY <1>2, <2>1, TotalOfZeros
<1>6. ASSUME NEW q \in Cells(m)
      PROVE  Total(Along(M, m, P[q], x), 0, m - 1) = Zero
  <2> DEFINE h == Least(q, i)
  <2>1. h \in Int /\ 0 - 1 <= h - 1 /\ h - 1 \in Int /\ h <= i /\ h <= q /\ h = IF q < i THEN q ELSE i
    BY <1>2 DEF Least
  <2>2. Total(Along(M, m, P[q], x), 0, m - 1) =
          Add(Total(LowerTerms(LU, P, m, q, x), 0, h - 1), Total(Along(LU, m, P[q], x), h, m - 1))
    BY <1>4 DEF Factored
  <2> HIDE DEF h
  <2>3. ASSUME NEW j \in 0 .. h - 1
        PROVE  LowerTerms(LU, P, m, q, x)[j] = Zero
    <3>1. j \in Cells(m) /\ j < i
      BY <1>2, <2>1 DEF Cells
    <3>2. LU[m * P[q] + j] \in Number
      BY <1>1, <3>1, CellOf DEF Vector
    <3>3. Total(Along(LU, m, P[j], x), j, m - 1) = Zero
      BY <1>4, <3>1
    <3> QED
      BY <3>1, <3>2, <3>3, OneIsNeutral DEF LowerTerms
  <2>4. Total(LowerTerms(LU, P, m, q, x), 0, h - 1) = Zero
    BY <1>2, <2>1, <2>3, TotalOfZeros
  <2>5. Total(Along(LU, m, P[q], x), h, m - 1) = Zero
    <3>1. CASE q < i
      BY <1>4, <2>1, <3>1
    <3>2. CASE ~(q < i)
      BY <1>2, <1>5, <2>1, <3>2
    <3> QED
      BY <3>1, <3>2
  <2> QED
    BY <2>2, <2>4, <2>5, NumbersClosed, OneIsNeutral
<1>7. \A r \in Cells(m) : Total(Along(M, m, r, x), 0, m - 1) = Zero
  BY <1>1, <1>6
<1>8. x[i] # Zero
  BY <1>4 DEF One, Zero, Whole
<1> QED
  BY <1>4, <1>7, <1>8 DEF Kernel

\* One column of lup leads from stage to stage.
LEMMA LupColumnStep ==
  ASSUME NEW m \in Nat, NEW M, NEW i \in Cells(m), NEW s \in LupStage(M, m, i - 1)
  PROVE  LupColumn(s, m, i) \in LupStage(M, m, i)
<1> DEFINE p == Pivot(s.LU, s.P, m, i)
           P == [s.P EXCEPT ![i] = s.P[p], ![p] = s.P[i]]
           t == LupColumn(s, m, i)
<1>1. s \in Factors(m) /\ s.P \in [Cells(m) -> Cells(m)] /\ i \in Int /\ (i - 1) + 1 = i
  BY DEF LupStage, Factors, Cells
<1>2. t = IF ~s.ok THEN s
          ELSE IF s.LU[m * P[i] + i] = Zero THEN [s EXCEPT !.ok = FALSE, !.P = P]
          ELSE [s EXCEPT !.P = P, !.LU = Eliminated(s.LU, P, m, i)]
  BY DEF LupColumn
<1>3. CASE ~s.ok
  BY <1>1, <1>2, <1>3 DEF LupStage, t
<1>4. CASE s.ok
  <2>1. /\ s.LU \in Vector(m * m) /\ Permutation(s.P, m)
        /\ \A x \in Vector(m) : Factored(M, s.LU, s.P, m, i, x)
        /\ \A q \in Cells(m) : q <= i - 1 => s.LU[m * s.P[q] + q] # Zero
    BY <1>1, <1>4 DEF LupStage
  <2>2. p \in i .. m - 1 /\ (s.LU[m * s.P[p] + i] = Zero => \A j \in i .. m - 1 : s.LU[m * s.P[j] + i] = Zero)
    BY <1>1, <2>1, PivotScan
  <2> HIDE DEF t, p
  <2>3. p \in Cells(m) /\ i <= p /\ p \in Int
    BY <1>1, <2>2 DEF Cells
  <2>4. P \in [Cells(m) -> Cells(m)] /\ P[i] = s.P[p] /\ P[p] = s.P[i] /\ \A q \in Cells(m) : q # i /\ q # p => P[q] = s.P[q]
    BY <1>1, <2>3
  <2>5. Permutation(P, m) /\ \A x \in Vector(m) : Factored(M, s.LU, P, m, i, x)
    BY <2>1, <2>2, Exchanges
  <2> HIDE DEF P
  <2>6. \A q \in Cells(m) : q < i => s.LU[m * P[q] + q] # Zero
    <3>1. \A q \in Cells(m) : q < i => q <= i - 1 /\ q # i /\ q # p
      BY <1>1, <2>3 DEF Cells
    <3> QED
      BY <2>1, <2>4, <3>1
  <2>7. CASE s.LU[m * P[i] + i] = Zero
    <3>1. ASSUME NEW q \in Cells(m), q >= i
          PROVE  s.LU[m * P[q] + i] = Zero
      <4>1. \A j \in i .. m - 1 : s.LU[m * s.P[j] + i] = Zero
        BY <2>2, <2>4, <2>7
      <4>2. q \in i .. m - 1 /\ i \in i .. m - 1 /\ p \in i .. m - 1
        BY <1>1, <2>2, <3>1 DEF Cells
      <4> QED
        BY <2>4, <4>1, <4>2
    <3>2. Kernel(M, m) # {}
      BY <2>1, <2>5, <2>6, <3>1, KernelFound
    <3>3. t = [s EXCEPT !.ok = FALSE, !.P = P]
      BY <1>2, <1>4, <2>7
    <3>4. t \in Factors(m) /\ ~t.ok
      BY <1>1, <2>4, <3>3 DEF Factors
    <3> QED
      BY <3>2, <3>4 DEF LupStage, t
  <2>8. CASE s.LU[m * P[i] + i] # Zero
    <3> DEFINE N == Eliminated(s.LU, P, m, i)
    <3>1. N \in Vector(m * m)
      BY <2>1, <2>5, <2>8, EliminatedNumbers
    <3>2. \A x \in Vector(m) : Factored(M, N, P, m, i + 1, x)
      BY <2>1, <2>5, <2>8, EliminationStep
    <3>3. s.LU \in [Cells(m * m) -> Fraction] /\ N \in [Cells(m * m) -> Fraction]
      BY <2>1, <3>1 DEF Vector, Number
    <3>4. ASSUME NEW q \in Cells(m), q <= i
          PROVE  N[m * P[q] + q] # Zero
      <4>1. N[m * P[q] + q] = s.LU[m * P[q] + q]
        BY <2>5, <3>3, <3>4, Eliminates
      <4>2. q = i \/ q < i
        BY <1>1, <3>4 DEF Cells
      <4> QED
        BY <2>6, <2>8, <4>1, <4>2
    <3> HIDE DEF N
    <3>5. t = [s EXCEPT !.P = P, !.LU = N]
      BY <1>2, <1>4, <2>8 DEF N
    <3>6. t \in Factors(m) /\ t.LU = N /\ t.P = P /\ t.ok
      BY <1>1, <1>4, <2>4, <3>3, <3>5 DEF Factors
    <3> QED
      BY <2>5, <3>1, <3>2, <3>4, <3>6 DEF LupStage, t
  <2> QED
    BY <2>7, <2>8
<1> QED
  BY <1>3, <1>4 DEF t

\* Before the first column.
LEMMA LupStarts ==
  ASSUME NEW m \in Nat, NEW M \in Vector(m * m), NEW s, s = [ok |-> TRUE, LU |-> M, P |-> [i \in Cells(m) |-> i]]
  PROVE  s \in LupStage(M, m, 0 - 1)
<1>1. s.ok = TRUE /\ s.LU = M /\ s.P = [i \in Cells(m) |-> i]
  OBVIOUS
<1>2. s.P \in [Cells(m) -> Cells(m)] /\ \A i \in Cells(m) : s.P[i] = i
  BY <1>1
<1>3. Permutation(s.P, m)
  BY <1>2 DEF Permutation
<1>4. s \in Factors(m)
  <2>1. M \in [Cells(m * m) -> Fraction]
    BY DEF Vector, Number
  <2> QED
    BY <1>1, <1>2, <2>1 DEF Factors
<1>5. ASSUME NEW x \in Vector(m), NEW q \in Cells(m)
      PROVE  Total(Along(M, m, q, x), 0, m - 1) =
               Add(Total(LowerTerms(M, s.P, m, q, x), 0, 0 - 1), Total(Along(M, m, q, x), 0, m - 1))
  <2>1. 0 \in Int /\ 0 - 1 \in Int /\ 0 - 1 = 0 - 1 /\ m - 1 \in Int /\ 0 - 1 <= m - 1
    OBVIOUS
  <2>2. Total(LowerTerms(M, s.P, m, q, x), 0, 0 - 1) = Zero
    BY <2>1, TotalEmpty
  <2>3. Total(Along(M, m, q, x), 0, m - 1) \in Number
    BY <2>1, AlongNumbers, TotalType
  <2> QED
    BY <2>2, <2>3, OneIsNeutral
<1>6. \A x \in Vector(m) : Factored(M, M, s.P, m, 0, x)
  <2>1. \A q \in Cells(m) : Least(q, 0) = 0
    BY DEF Least, Cells
  <2> QED
    BY <1>2, <1>5, <2>1 DEF Factored
<1>7. (0 - 1) + 1 = 0 /\ \A q \in Cells(m) : ~(q <= 0 - 1)
  BY DEF Cells
<1> QED
  BY <1>1, <1>3, <1>4, <1>6, <1>7 DEF LupStage

\* After the last column.
LEMMA LupRuns ==
  ASSUME NEW m \in Nat, m # 0, NEW M \in Vector(m * m)
  PROVE  Lup(M, m) \in LupStage(M, m, m - 2)
<1> DEFINE lo == 0
           hi == m - 2
           start == [ok |-> TRUE, LU |-> M, P |-> [i \in Cells(m) |-> i]]
           B(s, i) == LupColumn(s, m, i)
           P(f) == f = [i \in lo - 1 .. hi |-> IF i < lo THEN start ELSE B(f[i - 1], i)]
           z == CHOOSE f : P(f)
           body == [q \in Factors(m) \X Int |-> B(q[1], q[2])]
           Stage == [i \in lo - 1 .. hi |-> LupStage(M, m, i)]
<1>1. Lup(M, m) = IF hi < lo THEN start ELSE z[hi]
  BY DEF Lup, For
<1>2. lo \in Int /\ hi \in Int /\ lo - 1 \in lo - 1 .. hi /\ hi \in lo - 1 .. hi /\ (hi < lo => hi = lo - 1)
  OBVIOUS
<1>3. start \in Factors(m) /\ start \in LupStage(M, m, lo - 1)
  <2>1. start \in LupStage(M, m, 0 - 1)
    BY LupStarts
  <2> QED
    BY <2>1 DEF LupStage
<1>4. ASSUME NEW i \in lo .. hi, NEW s \in LupStage(M, m, i - 1)
      PROVE  B(s, i) \in LupStage(M, m, i) /\ body[<<s, i>>] = B(s, i)
  <2>1. i \in Cells(m) /\ i \in Int
    BY DEF Cells
  <2>2. s \in Factors(m)
    BY DEF LupStage
  <2> QED
    BY <2>1, <2>2, LupColumnStep
<1>5. \A i \in lo - 1 .. hi : Stage[i] = LupStage(M, m, i) /\ Stage[i] \subseteq Factors(m)
  BY DEF LupStage
<1>6. Stage[hi] = LupStage(M, m, m - 2)
  BY <1>2, <1>5
<1> HIDE DEF Stage, body, start, lo, hi, B
<1>7. \A i \in lo .. hi : i \in lo - 1 .. hi /\ i - 1 \in lo - 1 .. hi /\ ~(i < lo)
  BY <1>2
<1>8. ASSUME NEW i \in lo .. hi, NEW s \in Stage[i - 1]
      PROVE  B(s, i) \in Stage[i] /\ body[<<s, i>>] = B(s, i)
  BY <1>4, <1>5, <1>7
<1>9. start \in Stage[lo - 1]
  BY <1>2, <1>3, <1>5
<1>10. PICK f : Runs(f, lo, hi, start, body) /\ \A i \in lo - 1 .. hi : f[i] \in Stage[i]
  <2>1. Leads(lo, hi, start, body, Stage)
    BY <1>8, <1>9 DEF Leads
  <2> QED
    BY <1>2, <1>3, <1>5, <2>1, LoopRuns
<1>11. P(f)
  <2>1. \A i \in lo - 1 .. hi : ~(i < lo) => body[<<f[i - 1], i>>] = B(f[i - 1], i)
    BY <1>2, <1>7, <1>8, <1>10
  <2> QED
    BY <1>10, <2>1 DEF Runs
<1> HIDE DEF P
<1>12. P(z)
  BY <1>11
<1> HIDE DEF z
<1>13. \A i \in lo - 1 .. hi : z[i] = IF i < lo THEN start ELSE B(z[i - 1], i)
  BY <1>12 DEF P
<1>14. \A i \in lo - 1 .. hi : z[i] \in Stage[i]
  <2>1. z[lo - 1] \in Stage[lo - 1]
    <3>1. lo - 1 \in lo - 1 .. hi /\ lo - 1 < lo
      BY <1>2
    <3>2. z[lo - 1] = start
      BY <1>13, <3>1
    <3> QED
      BY <1>9, <3>2
  <2>2. \A i \in lo .. hi : z[i - 1] \in Stage[i - 1] => z[i] \in Stage[i]
    BY <1>7, <1>8, <1>13
  <2> QED
    BY <1>2, <2>1, <2>2, StagesHold
<1> QED
  BY <1>1, <1>2, <1>6, <1>9, <1>14

\* Where lup succeeds, every row of M times x is the row of the two factors times x.
LEMMA LupFactors ==
  ASSUME NEW m \in Nat, m # 0, NEW M \in Vector(m * m), Lup(M, m).ok
  PROVE  /\ Lup(M, m).LU \in Vector(m * m) /\ Permutation(Lup(M, m).P, m)
         /\ \A q \in Cells(m) : q # m - 1 => Lup(M, m).LU[m * Lup(M, m).P[q] + q] # Zero
         /\ \A x \in Vector(m) : Factored(M, Lup(M, m).LU, Lup(M, m).P, m, m - 1, x)
         /\ \A x \in Vector(m), q \in Cells(m) :
              Total(Along(M, m, Lup(M, m).P[q], x), 0, m - 1) =
                Add(Total(LowerTerms(Lup(M, m).LU, Lup(M, m).P, m, q, x), 0, q - 1),
                    Total(Along(Lup(M, m).LU, m, Lup(M, m).P[q], x), q, m - 1))
<1>1. Lup(M, m) \in LupStage(M, m, m - 2)
  BY LupRuns
<1>2. (m - 2) + 1 = m - 1 /\ \A q \in Cells(m) : Least(q, m - 1) = q /\ (q # m - 1 => q <= m - 2)
  BY DEF Least, Cells
<1> QED
  BY <1>1, <1>2 DEF LupStage, Factored

\* Where it does not, or leaves a zero as its last pivot, M is singular.
LEMMA UnsolvableIsSingular ==
  ASSUME NEW m \in Nat, m # 0, NEW M \in Vector(m * m), ~Solvable(Lup(M, m), m)
  PROVE  Kernel(M, m) # {}
<1> DEFINE s == Lup(M, m)
           i == m - 1
<1>1. i \in Cells(m) /\ \A q \in Cells(m) : q <= i /\ (q >= i => q = i) /\ (q < i => q # i)
  BY DEF Cells
<1>2. CASE ~s.ok
  BY <1>2, LupRuns DEF LupStage
<1>3. CASE s.ok
  <2>1. /\ s.LU \in Vector(m * m) /\ Permutation(s.P, m)
        /\ \A q \in Cells(m) : q # i => s.LU[m * s.P[q] + q] # Zero
        /\ \A x \in Vector(m) : Factored(M, s.LU, s.P, m, i, x)
    BY <1>3, LupFactors
  <2>2. s.LU[m * s.P[i] + i] = Zero
    BY <1>3, <2>1 DEF Solvable
  <2> HIDE DEF s, i
  <2> QED
    BY <1>1, <2>1, <2>2, KernelFound
<1> QED
  BY <1>2, <1>3

-----------------------------------------------------------------------------
(* The substitutions by the factors (linsolve_lup, inv).                    *)

\* What is taken from v one by one is taken as a sum.
LEMMA ReducedIs ==
  ASSUME NEW m \in Nat, NEW LU, NEW r, NEW x, NEW v \in Number, NEW lo \in Nat, NEW hi \in Int,
         hi <= m - 1, lo - 1 <= hi, Numbers(Along(LU, m, r, x), lo, hi)
  PROVE  Reduced(v, LU, m, r, x, lo, hi) = Sub(v, Total(Along(LU, m, r, x), lo, hi))
<1> DEFINE e(j) == Mul(LU[m * r + j], x[j])
           w == Along(LU, m, r, x)
           P(f) == f = [k \in lo - 1 .. hi |-> IF k < lo THEN v ELSE Sub(f[k - 1], e(k))]
           z == CHOOSE f : P(f)
<1>1. Reduced(v, LU, m, r, x, lo, hi) = IF hi < lo THEN v ELSE z[hi]
  BY DEF Reduced, For
<1>2. /\ \A k \in lo - 1 .. hi : ~(k < lo) => w[k] = e(k) /\ k - 1 \in lo - 1 .. hi /\ w[k] \in Number
      /\ Numbers(w, lo, hi)
  <2>1. \A k \in lo .. hi : k \in Cells(m)
    BY DEF Cells
  <2> QED
    BY <2>1 DEF Along, Numbers
<1> HIDE DEF e, w
<1>3. PICK s \in [lo - 1 .. hi -> Number] : Sums(s, w, lo, hi)
  BY <1>2, NumberSumsExist
<1> DEFINE g == [k \in lo - 1 .. hi |-> Sub(v, s[k])]
<1>4. Sub(v, Zero) = v
  BY ZeroIsNeutral DEF Number
<1>5. ASSUME NEW k \in lo - 1 .. hi
      PROVE  g[k] = IF k < lo THEN v ELSE Sub(g[k - 1], e(k))
  <2>1. CASE k < lo
    BY <1>3, <1>4, <2>1 DEF Sums
  <2>2. CASE ~(k < lo)
    <3>1. k - 1 \in lo - 1 .. hi /\ w[k] = e(k) /\ w[k] \in Number
      BY <1>2, <2>2
    <3>2. s[k] = Add(s[k - 1], w[k])
      BY <1>3, <2>2 DEF Sums
    <3>3. s[k - 1] \in Number
      BY <3>1
    <3>4. Sub(Sub(v, s[k - 1]), w[k]) = Sub(v, Add(s[k - 1], w[k]))
      BY <3>1, <3>3, SubtractsSum DEF Number
    <3> QED
      BY <2>2, <3>1, <3>2, <3>4
  <2> QED
    BY <2>1, <2>2
<1>6. g[hi] = Sub(v, s[hi])
  OBVIOUS
<1>7. P(g)
  <2> DEFINE h == [k \in lo - 1 .. hi |-> IF k < lo THEN v ELSE Sub(g[k - 1], e(k))]
  <2>1. \A k \in lo - 1 .. hi : g[k] = h[k]
    BY <1>5
  <2>2. g = h
    BY <2>1, Zenon
  <2> QED
    BY <2>2
<1> HIDE DEF P
<1>8. P(z)
  BY <1>7
<1> HIDE DEF z, g
<1>9. \A k \in lo - 1 .. hi : z[k] = IF k < lo THEN v ELSE Sub(z[k - 1], e(k))
  BY <1>8 DEF P
<1>10. z[hi] = g[hi]
  <2> DEFINE T == {k \in Int : k \in lo - 1 .. hi => z[k] = g[k]}
  <2>1. lo - 1 \in T
    BY <1>5, <1>9
  <2>2. ASSUME NEW k \in lo .. hi, k - 1 \in T PROVE k \in T
    <3>1. k \in Int /\ k \in lo - 1 .. hi /\ k - 1 \in lo - 1 .. hi /\ ~(k < lo)
      BY <2>2
    <3>2. z[k - 1] = g[k - 1]
      BY <2>2, <3>1
    <3> QED
      BY <1>5, <1>9, <3>1, <3>2
  <2> HIDE DEF T
  <2>3. lo - 1 .. hi \subseteq T
    <3>1. lo \in Int /\ \A k \in lo .. hi : k - 1 \in T => k \in T
      BY <2>2
    <3> QED
      BY <2>1, <3>1, UpInduct
  <2>4. hi \in lo - 1 .. hi
    OBVIOUS
  <2>5. hi \in T
    BY <2>3, <2>4
  <2> QED
    BY <2>4, <2>5 DEF T
<1>11. Total(w, lo, hi) = s[hi]
  BY <1>2, <1>3, TotalIs
<1>12. CASE hi < lo
  <2>1. hi = lo - 1
    BY <1>12
  <2>2. Total(w, lo, hi) = Zero
    BY <2>1, TotalEmpty
  <2> QED
    BY <1>1, <1>4, <1>12, <2>2 DEF w
<1>13. CASE ~(hi < lo)
  BY <1>1, <1>6, <1>10, <1>11, <1>13 DEF w
<1> QED
  BY <1>12, <1>13

\* The rows up to i of the lower factor are solved for y.
ForwardStage(LU, P, b, m, i) ==
  {y \in [Cells(m) -> Number \cup {Unset}] :
     \A r \in Cells(m) :
       r <= i => y[r] \in Number /\ Add(Total(Along(LU, m, P[r], y), 0, r - 1), y[r]) = b[P[r]]}

\* One element of the forward substitution.
LEMMA ForwardStep ==
  ASSUME NEW m \in Nat, NEW LU \in Vector(m * m), NEW P \in [Cells(m) -> Cells(m)], NEW b \in Vector(m),
         NEW i \in Cells(m), NEW y \in ForwardStage(LU, P, b, m, i - 1)
  PROVE  [y EXCEPT ![i] = Reduced(b[P[i]], LU, m, P[i], y, 0, i - 1)] \in ForwardStage(LU, P, b, m, i)
<1> DEFINE T == Total(Along(LU, m, P[i], y), 0, i - 1)
           v == Sub(b[P[i]], T)
           u == [y EXCEPT ![i] = v]
<1>1. /\ i \in Nat /\ i <= m - 1 /\ y \in [Cells(m) -> Number \cup {Unset}]
      /\ i - 1 \in Int /\ 0 - 1 <= i - 1 /\ i - 1 <= m - 1
  BY DEF Cells, ForwardStage
<1>2. ASSUME NEW r \in Cells(m), r <= i
      PROVE  Numbers(Along(LU, m, P[r], y), 0, r - 1)
  <2>1. ASSUME NEW k \in 0 .. r - 1 PROVE k \in Cells(m) /\ k <= i - 1
    BY <1>1, <1>2 DEF Cells
  <2>2. ASSUME NEW k \in 0 .. r - 1 PROVE Along(LU, m, P[r], y)[k] \in Number
    <3>1. k \in Cells(m) /\ y[k] \in Number
      BY <2>1 DEF ForwardStage
    <3>2. LU[m * P[r] + k] \in Number
      BY <3>1, CellOf DEF Vector
    <3> QED
      BY <3>1, <3>2, NumbersClosed DEF Along
  <2> QED
    BY <2>2 DEF Numbers
<1>3. b[P[i]] \in Number
  BY DEF Vector
<1>4. Numbers(Along(LU, m, P[i], y), 0, i - 1)
  BY <1>1, <1>2
<1>5. Reduced(b[P[i]], LU, m, P[i], y, 0, i - 1) = v
  BY <1>1, <1>3, <1>4, ReducedIs
<1>6. T \in Number
  BY <1>1, <1>4, TotalType
<1> HIDE DEF T
<1>7. v \in Number /\ Add(T, v) = b[P[i]]
  <2>1. v \in Number /\ Add(v, T) = b[P[i]]
    BY <1>3, <1>6, NumbersClosed, SubUndoes
  <2> HIDE DEF v
  <2> QED
    BY <1>6, <2>1, AddCommutes DEF Number
<1> HIDE DEF v
<1>8. u \in [Cells(m) -> Number \cup {Unset}] /\ u[i] = v /\ \A k \in Cells(m) : k # i => u[k] = y[k]
  BY <1>1, <1>7
<1> HIDE DEF u
<1>9. ASSUME NEW r \in Cells(m), r <= i
      PROVE  u[r] \in Number /\ Add(Total(Along(LU, m, P[r], u), 0, r - 1), u[r]) = b[P[r]]
  <2>1. r \in Nat /\ r - 1 \in Int /\ 0 - 1 <= r - 1 /\ 0 \in Int
    BY DEF Cells
  <2>2. \A k \in 0 .. r - 1 : Along(LU, m, P[r], y)[k] = Along(LU, m, P[r], u)[k]
    <3>1. \A k \in 0 .. r - 1 : k \in Cells(m) /\ k # i
      BY <1>1, <1>9, <2>1 DEF Cells
    <3> QED
      BY <1>8, <3>1 DEF Along
  <2>3. Numbers(Along(LU, m, P[r], y), 0, r - 1)
    BY <1>2, <1>9
  <2>4. Total(Along(LU, m, P[r], y), 0, r - 1) = Total(Along(LU, m, P[r], u), 0, r - 1)
    BY <2>1, <2>2, <2>3, TotalAgree
  <2>5. CASE r = i
    BY <1>7, <1>8, <2>4, <2>5 DEF T
  <2>6. CASE r # i
    <3>1. r <= i - 1 /\ u[r] = y[r]
      BY <1>1, <1>8, <1>9, <2>1, <2>6
    <3> QED
      BY <2>4, <3>1 DEF ForwardStage
  <2> QED
    BY <2>5, <2>6
<1> QED
  BY <1>5, <1>8, <1>9 DEF ForwardStage, u

\* All its elements.
LEMMA ForwardRuns ==
  ASSUME NEW m \in Nat, NEW LU \in Vector(m * m), NEW Q \in [Cells(m) -> Cells(m)], NEW b \in Vector(m)
  PROVE  Forward(LU, Q, b, m) \in ForwardStage(LU, Q, b, m, m - 1)
<1> DEFINE lo == 0
           hi == m - 1
           start == Filled(m, Unset)
           B(x, i) == [x EXCEPT ![i] = Reduced(b[Q[i]], LU, m, Q[i], x, 0, i - 1)]
           P(f) == f = [i \in lo - 1 .. hi |-> IF i < lo THEN start ELSE B(f[i - 1], i)]
           z == CHOOSE f : P(f)
           S == [Cells(m) -> Number \cup {Unset}]
           body == [q \in S \X Int |-> B(q[1], q[2])]
           Stage == [i \in lo - 1 .. hi |-> ForwardStage(LU, Q, b, m, i)]
<1>1. Forward(LU, Q, b, m) = IF hi < lo THEN start ELSE z[hi]
  BY DEF Forward, For
<1>2. lo \in Int /\ hi \in Int /\ lo - 1 \in lo - 1 .. hi /\ hi \in lo - 1 .. hi /\ (hi < lo => hi = lo - 1)
  OBVIOUS
<1>3. start \in S /\ start \in ForwardStage(LU, Q, b, m, lo - 1)
  <2>1. \A r \in Cells(m) : ~(r <= lo - 1)
    BY DEF Cells
  <2> HIDE DEF lo
  <2> QED
    BY <2>1 DEF Filled, ForwardStage
<1>4. ASSUME NEW i \in lo .. hi, NEW s \in ForwardStage(LU, Q, b, m, i - 1)
      PROVE  B(s, i) \in ForwardStage(LU, Q, b, m, i) /\ body[<<s, i>>] = B(s, i)
  <2>1. i \in Cells(m) /\ i \in Int
    BY DEF Cells
  <2>2. s \in S
    BY DEF ForwardStage
  <2>3. B(s, i) \in ForwardStage(LU, Q, b, m, i)
    BY <2>1, ForwardStep
  <2> QED
    BY <2>1, <2>2, <2>3
<1>5. \A i \in lo - 1 .. hi : Stage[i] = ForwardStage(LU, Q, b, m, i) /\ Stage[i] \subseteq S
  BY DEF ForwardStage
<1>6. Stage[hi] = ForwardStage(LU, Q, b, m, m - 1)
  BY <1>2, <1>5
<1> HIDE DEF Stage, body, start, lo, hi, B, S
<1>7. \A i \in lo .. hi : i \in lo - 1 .. hi /\ i - 1 \in lo - 1 .. hi /\ ~(i < lo)
  BY <1>2
<1>8. ASSUME NEW i \in lo .. hi, NEW s \in Stage[i - 1]
      PROVE  B(s, i) \in Stage[i] /\ body[<<s, i>>] = B(s, i)
  BY <1>4, <1>5, <1>7
<1>9. start \in Stage[lo - 1]
  BY <1>2, <1>3, <1>5
<1>10. PICK f : Runs(f, lo, hi, start, body) /\ \A i \in lo - 1 .. hi : f[i] \in Stage[i]
  <2>1. Leads(lo, hi, start, body, Stage)
    BY <1>8, <1>9 DEF Leads
  <2> QED
    BY <1>2, <1>3, <1>5, <2>1, LoopRuns
<1>11. P(f)
  <2>1. \A i \in lo - 1 .. hi : ~(i < lo) => body[<<f[i - 1], i>>] = B(f[i - 1], i)
    BY <1>2, <1>7, <1>8, <1>10
  <2> QED
    BY <1>10, <2>1 DEF Runs
<1> HIDE DEF P
<1>12. P(z)
  BY <1>11
<1> HIDE DEF z
<1>13. \A i \in lo - 1 .. hi : z[i] = IF i < lo THEN start ELSE B(z[i - 1], i)
  BY <1>12 DEF P
<1>14. \A i \in lo - 1 .. hi : z[i] \in Stage[i]
  <2>1. z[lo - 1] \in Stage[lo - 1]
    <3>1. lo - 1 \in lo - 1 .. hi /\ lo - 1 < lo
      BY <1>2
    <3>2. z[lo - 1] = start
      BY <1>13, <3>1
    <3> QED
      BY <1>9, <3>2
  <2>2. \A i \in lo .. hi : z[i - 1] \in Stage[i - 1] => z[i] \in Stage[i]
    BY <1>7, <1>8, <1>13
  <2> QED
    BY <1>2, <2>1, <2>2, StagesHold
<1> QED
  BY <1>1, <1>2, <1>6, <1>9, <1>14

\* The last rows of the upper factor are solved for x, the others still hold y.
BackwardStage(LU, P, y, m, s) ==
  {x \in Vector(m) :
     \A r \in Cells(m) : IF r >= m - 1 - s THEN Total(Along(LU, m, P[r], x), r, m - 1) = y[r] ELSE x[r] = y[r]}

\* One element of the backward substitution.
LEMMA BackwardStep ==
  ASSUME NEW m \in Nat, NEW LU \in Vector(m * m), NEW P \in [Cells(m) -> Cells(m)], NEW b \in Vector(m),
         NEW s \in Cells(m), NEW i, i = m - 1 - s, LU[m * P[i] + i] # Zero,
         NEW x \in BackwardStage(LU, P, b, m, s - 1)
  PROVE  BackwardRow(LU, P, m, x, i) \in BackwardStage(LU, P, b, m, s)
<1> DEFINE T == Total(Along(LU, m, P[i], x), i + 1, m - 1)
           d == LU[m * P[i] + i]
           v == Div(Sub(b[i], T), d)
           y == [x EXCEPT ![i] = v]
<1>1. /\ i \in Nat /\ i <= m - 1 /\ x \in Vector(m) /\ i \in Cells(m)
      /\ m - 1 - (s - 1) = i + 1 /\ m - 1 \in Int /\ i + 1 \in Int /\ i - 1 <= m - 1 /\ (i + 1) - 1 <= m - 1
  BY DEF Cells, BackwardStage
<1>2. x[i] = b[i]
  <2>1. ~(i >= m - 1 - (s - 1))
    BY <1>1
  <2> QED
    BY <1>1, <2>1 DEF BackwardStage
<1>3. Numbers(Along(LU, m, P[i], x), i + 1, m - 1)
  <2>1. Numbers(Along(LU, m, P[i], x), 0, m - 1)
    BY <1>1, AlongNumbers
  <2> QED
    BY <1>1, <2>1 DEF Numbers
<1>4. d \in Number /\ b[i] \in Number
  BY <1>1, CellOf DEF Vector
<1>5. T \in Number
  BY <1>1, <1>3, TotalType
<1>6. BackwardRow(LU, P, m, x, i) = y
  <2>1. Reduced(b[i], LU, m, P[i], x, i + 1, m - 1) = Sub(b[i], T)
    BY <1>1, <1>3, <1>4, ReducedIs
  <2> QED
    BY <1>2, <2>1 DEF BackwardRow
<1> HIDE DEF T
<1>7. v \in Number /\ Mul(d, v) = Sub(b[i], T)
  BY <1>4, <1>5, NumbersClosed, DivUndoes
<1> HIDE DEF v
<1>8. y \in Vector(m) /\ y[i] = v /\ \A k \in Cells(m) : k # i => y[k] = x[k]
  BY <1>1, <1>7 DEF Vector
<1> HIDE DEF y
<1>9. ASSUME NEW r \in Cells(m), r >= i
      PROVE  Total(Along(LU, m, P[r], y), r, m - 1) = b[r]
  <2>1. r \in Nat /\ r <= m - 1 /\ r - 1 <= m - 1
    BY DEF Cells
  <2>2. Numbers(Along(LU, m, P[r], y), 0, m - 1) /\ Numbers(Along(LU, m, P[r], x), 0, m - 1)
    BY <1>1, <1>8, AlongNumbers
  <2>3. \A k \in 0 .. m - 1 : k # i => Along(LU, m, P[r], y)[k] = Along(LU, m, P[r], x)[k]
    BY <1>8 DEF Along, Cells
  <2>4. CASE r > i
    <3>1. \A k \in r .. m - 1 : Along(LU, m, P[r], y)[k] = Along(LU, m, P[r], x)[k]
      BY <1>1, <2>1, <2>3, <2>4
    <3>2. Numbers(Along(LU, m, P[r], y), r, m - 1)
      BY <2>1, <2>2 DEF Numbers
    <3>3. Total(Along(LU, m, P[r], y), r, m - 1) = Total(Along(LU, m, P[r], x), r, m - 1)
      BY <1>1, <2>1, <3>1, <3>2, TotalAgree
    <3>4. r >= m - 1 - (s - 1)
      BY <1>1, <2>1, <2>4
    <3>5. Total(Along(LU, m, P[r], x), r, m - 1) = b[r]
      BY <3>4 DEF BackwardStage
    <3> QED
      BY <3>3, <3>5
  <2>5. CASE r = i
    <3>1. Numbers(Along(LU, m, P[i], y), i, m - 1) /\ Numbers(Along(LU, m, P[i], y), i + 1, m - 1)
      BY <1>1, <2>2, <2>5 DEF Numbers
    <3>2. Total(Along(LU, m, P[i], y), i, m - 1) =
            Add(Along(LU, m, P[i], y)[i], Total(Along(LU, m, P[i], y), i + 1, m - 1))
      BY <1>1, <3>1, TotalFirst
    <3>3. Along(LU, m, P[i], y)[i] = Mul(d, v)
      BY <1>1, <1>8 DEF Along
    <3>4. \A k \in i + 1 .. m - 1 : Along(LU, m, P[i], y)[k] = Along(LU, m, P[i], x)[k]
      BY <1>1, <2>3, <2>5
    <3>5. Total(Along(LU, m, P[i], y), i + 1, m - 1) = T
      BY <1>1, <3>1, <3>4, TotalAgree DEF T
    <3>6. Add(Sub(b[i], T), T) = b[i]
      BY <1>4, <1>5, SubUndoes
    <3> QED
      BY <1>7, <2>5, <3>2, <3>3, <3>5, <3>6
  <2> QED
    BY <1>1, <1>9, <2>1, <2>4, <2>5
<1>10. ASSUME NEW r \in Cells(m), ~(r >= i)
       PROVE  y[r] = b[r]
  <2>1. r # i /\ ~(r >= m - 1 - (s - 1)) /\ r \in Int
    BY <1>1, <1>10 DEF Cells
  <2>2. x[r] = b[r]
    BY <2>1 DEF BackwardStage
  <2> QED
    BY <1>8, <2>1, <2>2
<1> QED
  BY <1>1, <1>6, <1>8, <1>9, <1>10 DEF BackwardStage

\* All its elements.
LEMMA BackwardRuns ==
  ASSUME NEW m \in Nat, NEW LU \in Vector(m * m), NEW Q \in [Cells(m) -> Cells(m)], NEW b \in Vector(m),
         \A r \in Cells(m) : LU[m * Q[r] + r] # Zero
  PROVE  Backward(LU, Q, b, m) \in BackwardStage(LU, Q, b, m, m - 1)
<1> DEFINE lo == 0
           hi == m - 1
           start == b
           B(x, i) == BackwardRow(LU, Q, m, x, m - 1 - i)
           P(f) == f = [i \in lo - 1 .. hi |-> IF i < lo THEN start ELSE B(f[i - 1], i)]
           z == CHOOSE f : P(f)
           body == [q \in Vector(m) \X Int |-> B(q[1], q[2])]
           Stage == [i \in lo - 1 .. hi |-> BackwardStage(LU, Q, b, m, i)]
<1>1. Backward(LU, Q, b, m) = IF hi < lo THEN start ELSE z[hi]
  BY DEF Backward, For
<1>2. lo \in Int /\ hi \in Int /\ lo - 1 \in lo - 1 .. hi /\ hi \in lo - 1 .. hi /\ (hi < lo => hi = lo - 1)
  OBVIOUS
<1>3. start \in Vector(m) /\ start \in BackwardStage(LU, Q, b, m, lo - 1)
  <2>1. \A r \in Cells(m) : ~(r >= m - 1 - (lo - 1))
    BY DEF Cells
  <2> HIDE DEF lo
  <2> QED
    BY <2>1 DEF BackwardStage
<1>4. ASSUME NEW i \in lo .. hi, NEW s \in BackwardStage(LU, Q, b, m, i - 1)
      PROVE  B(s, i) \in BackwardStage(LU, Q, b, m, i) /\ body[<<s, i>>] = B(s, i)
  <2>1. i \in Cells(m) /\ i \in Int /\ m - 1 - i \in Cells(m)
    BY DEF Cells
  <2>2. s \in Vector(m)
    BY DEF BackwardStage
  <2> QED
    BY <2>1, <2>2, BackwardStep
<1>5. \A i \in lo - 1 .. hi : Stage[i] = BackwardStage(LU, Q, b, m, i) /\ Stage[i] \subseteq Vector(m)
  BY DEF BackwardStage
<1>6. Stage[hi] = BackwardStage(LU, Q, b, m, m - 1)
  BY <1>2, <1>5
<1> HIDE DEF Stage, body, start, lo, hi, B
<1>7. \A i \in lo .. hi : i \in lo - 1 .. hi /\ i - 1 \in lo - 1 .. hi /\ ~(i < lo)
  BY <1>2
<1>8. ASSUME NEW i \in lo .. hi, NEW s \in Stage[i - 1]
      PROVE  B(s, i) \in Stage[i] /\ body[<<s, i>>] = B(s, i)
  BY <1>4, <1>5, <1>7
<1>9. start \in Stage[lo - 1]
  BY <1>2, <1>3, <1>5
<1>10. PICK f : Runs(f, lo, hi, start, body) /\ \A i \in lo - 1 .. hi : f[i] \in Stage[i]
  <2>1. Leads(lo, hi, start, body, Stage)
    BY <1>8, <1>9 DEF Leads
  <2> QED
    BY <1>2, <1>3, <1>5, <2>1, LoopRuns
<1>11. P(f)
  <2>1. \A i \in lo - 1 .. hi : ~(i < lo) => body[<<f[i - 1], i>>] = B(f[i - 1], i)
    BY <1>2, <1>7, <1>8, <1>10
  <2> QED
    BY <1>10, <2>1 DEF Runs
<1> HIDE DEF P
<1>12. P(z)
  BY <1>11
<1> HIDE DEF z
<1>13. \A i \in lo - 1 .. hi : z[i] = IF i < lo THEN start ELSE B(z[i - 1], i)
  BY <1>12 DEF P
<1>14. \A i \in lo - 1 .. hi : z[i] \in Stage[i]
  <2>1. z[lo - 1] \in Stage[lo - 1]
    <3>1. lo - 1 \in lo - 1 .. hi /\ lo - 1 < lo
      BY <1>2
    <3>2. z[lo - 1] = start
      BY <1>13, <3>1
    <3> QED
      BY <1>9, <3>2
  <2>2. \A i \in lo .. hi : z[i - 1] \in Stage[i - 1] => z[i] \in Stage[i]
    BY <1>7, <1>8, <1>13
  <2> QED
    BY <1>2, <2>1, <2>2, StagesHold
<1> QED
  BY <1>1, <1>2, <1>6, <1>9, <1>14

\* Where lup finds a pivot in every column and the last one is not zero, the
\* substitutions solve the system.
LEMMA SubstitutedSolves ==
  ASSUME NEW m \in Nat, m # 0, NEW M \in Vector(m * m), NEW b \in Vector(m), Solvable(Lup(M, m), m)
  PROVE  /\ Substituted(Lup(M, m), b, m) \in Vector(m)
         /\ \A r \in Cells(m) : Total(Along(M, m, r, Substituted(Lup(M, m), b, m)), 0, m - 1) = b[r]
         /\ MatMul(M, Substituted(Lup(M, m), b, m), m, m, 1) = b
<1> DEFINE f == Lup(M, m)
           LU == f.LU
           P == f.P
           y == Forward(LU, P, b, m)
           x == Backward(LU, P, y, m)
<1>1. f.ok /\ \A r \in Cells(m) : LU[m * P[r] + r] # Zero
  BY DEF Solvable
<1>2. /\ LU \in Vector(m * m) /\ Permutation(P, m)
      /\ \A u \in Vector(m), q \in Cells(m) :
           Total(Along(M, m, P[q], u), 0, m - 1) =
             Add(Total(LowerTerms(LU, P, m, q, u), 0, q - 1), Total(Along(LU, m, P[q], u), q, m - 1))
  BY <1>1, LupFactors
<1>3. Substituted(f, b, m) = x
  BY DEF Substituted
<1> HIDE DEF f, LU, P
<1>4. P \in [Cells(m) -> Cells(m)] /\ \A r \in Cells(m) : \E q \in Cells(m) : P[q] = r
  BY <1>2 DEF Permutation
<1>5. y \in ForwardStage(LU, P, b, m, m - 1)
  BY <1>2, <1>4, ForwardRuns
<1> HIDE DEF y
<1>6. /\ y \in [Cells(m) -> Number \cup {Unset}]
      /\ \A r \in Cells(m) : y[r] \in Number /\ Add(Total(Along(LU, m, P[r], y), 0, r - 1), y[r]) = b[P[r]]
  <2>1. \A r \in Cells(m) : r <= m - 1
    BY DEF Cells
  <2> QED
    BY <1>5, <2>1 DEF ForwardStage
<1>7. y \in Vector(m)
  BY <1>6 DEF Vector
<1>8. x \in BackwardStage(LU, P, y, m, m - 1)
  BY <1>1, <1>2, <1>4, <1>7, BackwardRuns
<1> HIDE DEF x
<1>9. x \in Vector(m) /\ \A r \in Cells(m) : Total(Along(LU, m, P[r], x), r, m - 1) = y[r]
  <2>1. \A r \in Cells(m) : r >= m - 1 - (m - 1)
    BY DEF Cells
  <2> QED
    BY <1>8, <2>1 DEF BackwardStage
<1>10. ASSUME NEW q \in Cells(m)
       PROVE  Total(Along(M, m, P[q], x), 0, m - 1) = b[P[q]]
  <2>1. q \in Nat /\ q - 1 \in Int /\ 0 - 1 <= q - 1 /\ 0 \in Int /\ q <= m - 1
    BY DEF Cells
  <2>2. \A j \in 0 .. q - 1 : LowerTerms(LU, P, m, q, x)[j] = Along(LU, m, P[q], y)[j]
    <3>1. \A j \in 0 .. q - 1 : j \in Cells(m)
      BY <2>1 DEF Cells
    <3> QED
      BY <1>9, <3>1 DEF LowerTerms, Along
  <2>3. Numbers(LowerTerms(LU, P, m, q, x), 0, q - 1)
    <3>1. Numbers(LowerTerms(LU, P, m, q, x), 0, m - 1)
      BY <1>2, <1>4, <1>9, LowerTermsNumbers
    <3> QED
      BY <2>1, <3>1 DEF Numbers
  <2>4. Total(LowerTerms(LU, P, m, q, x), 0, q - 1) = Total(Along(LU, m, P[q], y), 0, q - 1)
    BY <2>1, <2>2, <2>3, TotalAgree
  <2> QED
    BY <1>2, <1>6, <1>9, <2>4
<1>11. \A r \in Cells(m) : Total(Along(M, m, r, x), 0, m - 1) = b[r]
  BY <1>4, <1>10
<1>12. b = [r \in Cells(m) |-> b[r]]
  BY DEF Vector
<1>13. MatMul(M, x, m, m, 1) = b
  BY <1>9, <1>11, <1>12, MatVec
<1> QED
  BY <1>3, <1>9, <1>11, <1>13 DEF f

\* Some vector other than zero is mapped to zero: the matrix has no inverse.
Singular(M, m) == \E x \in Vector(m) : x # Filled(m, Zero) /\ MatMul(M, x, m, m, 1) = Filled(m, Zero)

\* Element by element.
LEMMA SingularIsKernel ==
  ASSUME NEW m \in Nat, NEW M \in Vector(m * m)
  PROVE  Singular(M, m) <=> Kernel(M, m) # {}
<1>1. ASSUME NEW x \in Vector(m)
      PROVE  /\ (x # Filled(m, Zero)) <=> (\E k \in Cells(m) : x[k] # Zero)
             /\ (MatMul(M, x, m, m, 1) = Filled(m, Zero))
                  <=> (\A r \in Cells(m) : Total(Along(M, m, r, x), 0, m - 1) = Zero)
  <2>1. /\ Filled(m, Zero) = [r \in Cells(m) |-> Zero] /\ x = [r \in Cells(m) |-> x[r]]
    BY DEF Filled, Vector
  <2>2. (x = Filled(m, Zero)) <=> (\A k \in Cells(m) : x[k] = Zero)
    BY <2>1
  <2>3. MatMul(M, x, m, m, 1) = Filled(m, Zero) => \A r \in Cells(m) : Total(Along(M, m, r, x), 0, m - 1) = Zero
    BY <2>1, MatVecRow
  <2>4. (\A r \in Cells(m) : Total(Along(M, m, r, x), 0, m - 1) = Zero) => MatMul(M, x, m, m, 1) = Filled(m, Zero)
    BY <2>1, MatVec
  <2> QED
    BY <2>2, <2>3, <2>4
<1> QED
  BY <1>1 DEF Singular, Kernel

\* What the substitutions can solve is regular: forward, the rows of the upper
\* factor times x are zero one after the other, and then, backward, the elements of x.
LEMMA SolvableIsRegular ==
  ASSUME NEW m \in Nat, m # 0, NEW M \in Vector(m * m), Solvable(Lup(M, m), m)
  PROVE  Kernel(M, m) = {}
<1> SUFFICES ASSUME NEW x \in Kernel(M, m) PROVE FALSE
  OBVIOUS
<1> DEFINE LU == Lup(M, m).LU
           P == Lup(M, m).P
           U(q) == Total(Along(LU, m, P[q], x), q, m - 1)
<1>1. \A r \in Cells(m) : LU[m * P[r] + r] # Zero
  BY DEF Solvable
<1>2. /\ LU \in Vector(m * m) /\ Permutation(P, m)
      /\ \A u \in Vector(m), q \in Cells(m) :
           Total(Along(M, m, P[q], u), 0, m - 1) =
             Add(Total(LowerTerms(LU, P, m, q, u), 0, q - 1), Total(Along(LU, m, P[q], u), q, m - 1))
  BY LupFactors DEF Solvable
<1> HIDE DEF LU, P
<1>3. /\ P \in [Cells(m) -> Cells(m)] /\ x \in Vector(m)
      /\ \A r \in Cells(m) : Total(Along(M, m, r, x), 0, m - 1) = Zero
  BY <1>2 DEF Permutation, Kernel
<1>4. PICK i \in Cells(m) : x[i] # Zero
  BY DEF Kernel
<1>5. \A q \in Cells(m) : q \in Nat /\ q <= m - 1 /\ q - 1 \in Int /\ 0 - 1 <= q - 1 /\ q - 1 <= m - 1
  BY DEF Cells
<1>6. ASSUME NEW q \in Cells(m)
      PROVE  /\ Numbers(Along(LU, m, P[q], x), 0, m - 1) /\ U(q) \in Number
             /\ \A k \in Cells(m) : LU[m * P[q] + k] \in Number /\ Along(LU, m, P[q], x)[k] = Mul(LU[m * P[q] + k], x[k])
  <2>1. Numbers(Along(LU, m, P[q], x), 0, m - 1)
    BY <1>2, <1>3, AlongNumbers
  <2>2. Numbers(Along(LU, m, P[q], x), q, m - 1)
    BY <1>5, <2>1 DEF Numbers
  <2>3. U(q) \in Number
    BY <1>5, <2>2, TotalType
  <2>4. \A k \in Cells(m) : LU[m * P[q] + k] \in Number /\ Along(LU, m, P[q], x)[k] = Mul(LU[m * P[q] + k], x[k])
    BY <1>2, <1>3, CellOf DEF Vector, Along
  <2> QED
    BY <2>1, <2>3, <2>4
<1>7. ASSUME NEW q \in Cells(m), \A j \in 0 .. q - 1 : U(j) = Zero
      PROVE  U(q) = Zero
  <2>1. ASSUME NEW j \in 0 .. q - 1
        PROVE  LowerTerms(LU, P, m, q, x)[j] = Zero
    <3>1. j \in Cells(m)
      BY <1>5 DEF Cells
    <3>2. LowerTerms(LU, P, m, q, x)[j] = Mul(LU[m * P[q] + j], U(j))
      BY <3>1 DEF LowerTerms
    <3>3. LU[m * P[q] + j] \in Number
      BY <1>6, <3>1
    <3> QED
      BY <1>7, <3>2, <3>3, OneIsNeutral
  <2>2. Total(LowerTerms(LU, P, m, q, x), 0, q - 1) = Zero
    <3>1. 0 \in Int
      OBVIOUS
    <3> QED
      BY <1>5, <2>1, <3>1, TotalOfZeros
  <2>3. Zero = Add(Zero, U(q))
    BY <1>2, <1>3, <2>2
  <2> QED
    BY <1>6, <2>3, OneIsNeutral
<1>8. ASSUME NEW q \in Cells(m), U(q) = Zero, \A k \in q + 1 .. m - 1 : x[k] = Zero
      PROVE  x[q] = Zero
  <2> DEFINE d == LU[m * P[q] + q]
  <2>1. \A k \in q + 1 .. m - 1 : Along(LU, m, P[q], x)[k] = Zero
    <3>1. \A k \in q + 1 .. m - 1 : k \in Cells(m)
      BY <1>5 DEF Cells
    <3>2. \A k \in q + 1 .. m - 1 : Along(LU, m, P[q], x)[k] = Mul(LU[m * P[q] + k], Zero)
      BY <1>6, <1>8, <3>1
    <3> QED
      BY <1>6, <3>1, <3>2, OneIsNeutral
  <2>2. Total(Along(LU, m, P[q], x), q + 1, m - 1) = Zero
    <3>1. q + 1 \in Int /\ m - 1 \in Int /\ (q + 1) - 1 <= m - 1
      BY <1>5
    <3> QED
      BY <2>1, <3>1, TotalOfZeros
  <2>3. U(q) = Add(Along(LU, m, P[q], x)[q], Zero)
    <3>1. q \in Int /\ m - 1 \in Int /\ q <= m - 1 /\ Numbers(Along(LU, m, P[q], x), q, m - 1)
      BY <1>5, <1>6 DEF Numbers
    <3> QED
      BY <2>2, <3>1, TotalFirst
  <2>4. d \in Number /\ d # Zero /\ x[q] \in Number /\ Along(LU, m, P[q], x)[q] = Mul(d, x[q])
    BY <1>1, <1>3, <1>6 DEF Vector
  <2>5. Mul(d, x[q]) = Zero
    <3>1. Mul(d, x[q]) \in Number
      BY <2>4, NumbersClosed
    <3>2. Add(Mul(d, x[q]), Zero) = Mul(d, x[q])
      BY <3>1, OneIsNeutral
    <3>3. U(q) = Zero
      BY <1>8
    <3> HIDE DEF d, U
    <3> QED
      BY <2>3, <2>4, <3>2, <3>3
  <2> HIDE DEF d
  <2> QED
    BY <2>4, <2>5, MulZero
<1> HIDE DEF U
<1>9. \A q \in Cells(m) : U(q) = Zero
  <2> DEFINE T == {q \in Int : \A j \in 0 .. q : U(j) = Zero}
  <2>1. 0 - 1 \in T
    OBVIOUS
  <2>2. ASSUME NEW q \in 0 .. m - 1, q - 1 \in T PROVE q \in T
    <3>1. q \in Cells(m) /\ q \in Int /\ \A j \in 0 .. q : j \in 0 .. q - 1 \/ j = q
      BY DEF Cells
    <3>2. \A j \in 0 .. q - 1 : U(j) = Zero
      BY <2>2
    <3> QED
      BY <1>7, <3>1, <3>2
  <2>3. 0 \in Int /\ m - 1 \in Int /\ m - 1 \in 0 - 1 .. m - 1
    OBVIOUS
  <2> HIDE DEF T
  <2>4. 0 - 1 .. m - 1 \subseteq T
    BY <2>1, <2>2, <2>3, UpInduct
  <2> QED
    BY <2>3, <2>4 DEF T, Cells
<1> DEFINE T == {k \in Nat : \A q \in Cells(m) : q >= m - k => x[q] = Zero}
<1>10. 0 \in T
  BY <1>5
<1>11. ASSUME NEW k \in T PROVE k + 1 \in T
  <2>1. ASSUME NEW q \in Cells(m), q >= m - (k + 1) PROVE x[q] = Zero
    <3>1. \A j \in q + 1 .. m - 1 : j \in Cells(m) /\ j >= m - k
      BY <1>5, <2>1 DEF Cells
    <3>2. \A j \in q + 1 .. m - 1 : x[j] = Zero
      BY <3>1
    <3> QED
      BY <1>8, <1>9, <3>2
  <2> QED
    BY <2>1
<1> HIDE DEF T
<1>12. m \in T
  BY <1>10, <1>11, Induct DEF T
<1>13. i >= m - m
  BY <1>5
<1> QED
  BY <1>4, <1>12, <1>13 DEF T

\* lup finds its pivots, and the last of them is not zero, exactly where the matrix
\* is regular.
LEMMA SolvableWhereRegular ==
  ASSUME NEW m \in Nat, m # 0, NEW M \in Vector(m * m)
  PROVE  Solvable(Lup(M, m), m) <=> ~Singular(M, m)
BY UnsolvableIsSingular, SolvableIsRegular, SingularIsKernel

-----------------------------------------------------------------------------
(* The inverse.                                                             *)

\* Column i of the identity.
Unit(m, i) == [k \in Cells(m) |-> IF k = i THEN One ELSE Zero]

\* The rows up to i hold the solutions for the unit vectors.
InverseStage(f, m, i) ==
  {R \in [Cells(m * m) -> Number \cup {Unset}] :
     \A r, k \in Cells(m) : r <= i => R[m * r + k] = Substituted(f, Unit(m, r), m)[k]}

\* One more row of the array that is transposed at the end.
LEMMA InverseStep ==
  ASSUME NEW m \in Nat, NEW f, \A r \in Cells(m) : Substituted(f, Unit(m, r), m) \in Vector(m),
         NEW i \in Cells(m), NEW R \in InverseStage(f, m, i - 1)
  PROVE  Copied(R, m * i, Substituted(f, Unit(m, i), m), 0, m) \in InverseStage(f, m, i)
<1> DEFINE X(r) == Substituted(f, Unit(m, r), m)
           from == m * i
           R2 == Copied(R, from, X(i), 0, m)
<1>1. R \in [Cells(m * m) -> Number \cup {Unset}] /\ i \in Int
  BY DEF InverseStage, Cells
<1>2. \A r \in Cells(m) : X(r) \in Vector(m)
  OBVIOUS
<1>3. from \in Int
  BY DEF Cells
<1> HIDE DEF X
<1>4. ASSUME NEW r \in Cells(m), NEW k \in Cells(m)
      PROVE  /\ m * r + k \in Cells(m * m)
             /\ R2[m * r + k] = IF r = i THEN X(i)[k] ELSE R[m * r + k]
  <2> DEFINE c == m * r + k
  <2>1. c \in Cells(m * m) /\ c \in Int /\ r \in Int /\ k \in Int /\ 0 <= k /\ k <= m - 1
    BY CellOf DEF Cells
  <2>2. R2[c] = IF from <= c /\ c < from + m THEN X(i)[0 + c - from] ELSE R[c]
    BY <1>1, <2>1 DEF Copied
  <2>3. CASE r = i
    <3>1. c = from + k
      BY <2>3
    <3> HIDE DEF c, from
    <3>2. from <= c /\ c < from + m /\ 0 + c - from = k
      BY <1>3, <2>1, <3>1
    <3>3. R2[c] = X(i)[k]
      BY <2>2, <3>2
    <3> QED
      BY <2>1, <2>3, <3>3 DEF c
  <2>4. CASE r < i
    <3>1. m * r <= m * (i - 1)
      BY <1>1, <2>1, <2>4
    <3>2. m * (i - 1) = from - m
      BY <1>1
    <3>3. m * r \in Int
      BY <2>1
    <3>4. ~(from <= c)
      BY <1>3, <2>1, <3>1, <3>2, <3>3
    <3>5. R2[c] = R[c]
      BY <2>2, <3>4
    <3>6. r # i
      BY <1>1, <2>1, <2>4
    <3> QED
      BY <2>1, <3>5, <3>6
  <2>5. CASE r > i
    <3>1. m * r >= m * (i + 1)
      BY <1>1, <2>1, <2>5
    <3>2. m * (i + 1) = from + m
      BY <1>1
    <3>3. m * r \in Int
      BY <2>1
    <3>4. ~(c < from + m)
      BY <1>3, <2>1, <3>1, <3>2, <3>3
    <3>5. R2[c] = R[c]
      BY <2>2, <3>4
    <3>6. r # i
      BY <1>1, <2>1, <2>5
    <3> QED
      BY <2>1, <3>5, <3>6
  <2> QED
    BY <1>1, <2>1, <2>3, <2>4, <2>5
<1>5. R2 \in [Cells(m * m) -> Number \cup {Unset}]
  <2>1. ASSUME NEW c \in Cells(m * m)
        PROVE  R2[c] \in Number \cup {Unset}
    <3> DEFINE r == c \div m
               k == c % m
    <3>1. r \in Cells(m) /\ k \in Cells(m) /\ c = m * r + k
      BY PartsOf
    <3> HIDE DEF r, k
    <3>2. R2[c] = IF r = i THEN X(i)[k] ELSE R[c]
      BY <1>4, <3>1
    <3>3. X(i)[k] \in Number
      BY <1>2, <3>1 DEF Vector
    <3> QED
      BY <1>1, <3>2, <3>3
  <2>2. R2 = [c \in Cells(m * m) |-> R2[c]]
    BY <1>1 DEF Copied
  <2> HIDE DEF R2
  <2> QED
    BY <2>1, <2>2
<1> HIDE DEF R2
<1>6. ASSUME NEW r \in Cells(m), NEW k \in Cells(m), r <= i
      PROVE  R2[m * r + k] = X(r)[k]
  <2>1. CASE r = i
    BY <1>4, <2>1
  <2>2. CASE r # i
    <3>1. r <= i - 1
      BY <1>1, <1>6, <2>2 DEF Cells
    <3> QED
      BY <1>4, <2>2, <3>1 DEF InverseStage, X
  <2> QED
    BY <2>1, <2>2
<1> QED
  BY <1>5, <1>6 DEF InverseStage, R2, X

\* The loop of smls_mat_inv over the unit vectors, and the transposition after it.
LEMMA InverseColumns ==
  ASSUME NEW m \in Nat, NEW M, Solvable(Lup(M, m), m),
         \A r \in Cells(m) : Substituted(Lup(M, m), Unit(m, r), m) \in Vector(m)
  PROVE  \A r, k \in Cells(m) : Inv(M, m).Ai[r + k * m] = Substituted(Lup(M, m), Unit(m, r), m)[k]
<1> DEFINE g == Lup(M, m)
           lo == 0
           hi == m - 1
           start == Filled(m * m, Unset)
           B(R, i) == Copied(R, m * i, Substituted(g, Unit(m, i), m), 0, m)
           P(f) == f = [i \in lo - 1 .. hi |-> IF i < lo THEN start ELSE B(f[i - 1], i)]
           z == CHOOSE f : P(f)
           S == [Cells(m * m) -> Number \cup {Unset}]
           body == [q \in S \X Int |-> B(q[1], q[2])]
           Stage == [i \in lo - 1 .. hi |-> InverseStage(g, m, i)]
           rows == IF hi < lo THEN start ELSE z[hi]
<1>1. Inv(M, m).Ai = Transpose(rows, m, m)
  BY DEF Inv, Unit, For
<1>2. rows = IF hi < lo THEN start ELSE z[hi]
  OBVIOUS
<1>3. lo \in Int /\ hi \in Int /\ lo - 1 \in lo - 1 .. hi /\ hi \in lo - 1 .. hi /\ (hi < lo => hi = lo - 1)
  OBVIOUS
<1>4. start \in S /\ start \in InverseStage(g, m, lo - 1)
  <2>1. \A r \in Cells(m) : ~(r <= lo - 1)
    BY DEF Cells
  <2>2. start \in S
    BY DEF Filled
  <2> HIDE DEF lo, start
  <2> QED
    BY <2>1, <2>2 DEF InverseStage
<1>5. ASSUME NEW i \in lo .. hi, NEW s \in InverseStage(g, m, i - 1)
      PROVE  B(s, i) \in InverseStage(g, m, i) /\ body[<<s, i>>] = B(s, i)
  <2>1. i \in Cells(m) /\ i \in Int
    BY DEF Cells
  <2>2. s \in S
    BY DEF InverseStage
  <2>3. B(s, i) \in InverseStage(g, m, i)
    BY <2>1, InverseStep
  <2> QED
    BY <2>1, <2>2, <2>3
<1>6. \A i \in lo - 1 .. hi : Stage[i] = InverseStage(g, m, i) /\ Stage[i] \subseteq S
  BY DEF InverseStage
<1>7. Stage[hi] = InverseStage(g, m, m - 1)
  BY <1>3, <1>6
<1> HIDE DEF Stage, body, start, lo, hi, B, S, g, rows
<1>8. \A i \in lo .. hi : i \in lo - 1 .. hi /\ i - 1 \in lo - 1 .. hi /\ ~(i < lo)
  BY <1>3
<1>9. ASSUME NEW i \in lo .. hi, NEW s \in Stage[i - 1]
      PROVE  B(s, i) \in Stage[i] /\ body[<<s, i>>] = B(s, i)
  BY <1>5, <1>6, <1>8
<1>10. start \in Stage[lo - 1]
  BY <1>3, <1>4, <1>6
<1>11. PICK f : Runs(f, lo, hi, start, body) /\ \A i \in lo - 1 .. hi : f[i] \in Stage[i]
  <2>1. Leads(lo, hi, start, body, Stage)
    BY <1>9, <1>10 DEF Leads
  <2> QED
    BY <1>3, <1>4, <1>6, <2>1, LoopRuns
<1>12. P(f)
  <2>1. \A i \in lo - 1 .. hi : ~(i < lo) => body[<<f[i - 1], i>>] = B(f[i - 1], i)
    BY <1>3, <1>8, <1>9, <1>11
  <2> QED
    BY <1>11, <2>1 DEF Runs
<1> HIDE DEF P
<1>13. P(z)
  BY <1>12
<1> HIDE DEF z
<1>14. \A i \in lo - 1 .. hi : z[i] = IF i < lo THEN start ELSE B(z[i - 1], i)
  BY <1>13 DEF P
<1>15. \A i \in lo - 1 .. hi : z[i] \in Stage[i]
  <2>1. z[lo - 1] \in Stage[lo - 1]
    <3>1. lo - 1 \in lo - 1 .. hi /\ lo - 1 < lo
      BY <1>3
    <3>2. z[lo - 1] = start
      BY <1>14, <3>1
    <3> QED
      BY <1>10, <3>2
  <2>2. \A i \in lo .. hi : z[i - 1] \in Stage[i - 1] => z[i] \in Stage[i]
    BY <1>8, <1>9, <1>14
  <2> QED
    BY <1>3, <2>1, <2>2, StagesHold
<1>16. rows \in InverseStage(g, m, m - 1)
  BY <1>2, <1>3, <1>7, <1>10, <1>15
<1>17. ASSUME NEW r \in Cells(m), NEW k \in Cells(m)
       PROVE  Inv(M, m).Ai[r + k * m] = Substituted(g, Unit(m, r), m)[k]
  <2>1. r <= m - 1 /\ r + k * m = m * k + r /\ r * m + k = m * r + k
    BY DEF Cells
  <2>2. m * k + r \in Cells(m * m) /\ (m * k + r) \div m = k /\ (m * k + r) % m = r
    BY CellOf
  <2>3. Transpose(rows, m, m)[m * k + r] = rows[r * m + k]
    BY <2>2 DEF Transpose
  <2> QED
    BY <1>1, <1>16, <2>1, <2>3 DEF InverseStage
<1> QED
  BY <1>17 DEF g

\* Where smls_mat_inv does not give up, what it returns is the inverse.
LEMMA InvInverts ==
  ASSUME NEW m \in Nat, m # 0, NEW M \in Vector(m * m)
  PROVE  IF Inv(M, m).ok THEN MatMul(M, Inv(M, m).Ai, m, m, m) = Identity(m) ELSE Inv(M, m).Ai = M
<1>1. CASE ~Solvable(Lup(M, m), m)
  BY <1>1 DEF Inv
<1>2. CASE Solvable(Lup(M, m), m)
  <2> DEFINE X(r) == Substituted(Lup(M, m), Unit(m, r), m)
             Ai == Inv(M, m).Ai
  <2>1. \A r \in Cells(m) : Unit(m, r) \in Vector(m)
    BY NumbersClosed DEF Unit, Vector
  <2>2. ASSUME NEW r \in Cells(m)
        PROVE  /\ X(r) \in Vector(m)
               /\ \A i \in Cells(m) : Total(Along(M, m, i, X(r)), 0, m - 1) = Unit(m, r)[i]
    BY <1>2, <2>1, SubstitutedSolves
  <2>3. \A r, k \in Cells(m) : Ai[r + k * m] = X(r)[k]
    BY <1>2, <2>2, InverseColumns
  <2> HIDE DEF X, Ai
  <2>4. ASSUME NEW c \in Cells(m * m)
        PROVE  MatMul(M, Ai, m, m, m)[c] = Identity(m)[c]
    <3> DEFINE i == c \div m
               r == c % m
    <3>1. i \in Cells(m) /\ r \in Cells(m)
      BY PartsOf
    <3>2. Identity(m)[c] = IF i = r THEN One ELSE Zero
      BY DEF Identity
    <3>3. \A k \in 0 .. m - 1 : Terms(M, Ai, m, m, c)[k] = Mul(M[i * m + k], Ai[r + k * m])
      BY DEF Terms
    <3>4. Numbers(Terms(M, Ai, m, m, c), 0, m - 1) => MatMul(M, Ai, m, m, m)[c] = Total(Terms(M, Ai, m, m, c), 0, m - 1)
      BY MatMulCell
    <3> HIDE DEF i, r
    <3>5. i * m = m * i
      BY <3>1 DEF Cells
    <3>6. \A k \in 0 .. m - 1 : Along(M, m, i, X(r))[k] = Terms(M, Ai, m, m, c)[k]
      <4>1. \A k \in 0 .. m - 1 : k \in Cells(m)
        BY DEF Cells
      <4> QED
        BY <2>3, <3>1, <3>3, <3>5, <4>1 DEF Along
    <3>7. Numbers(Along(M, m, i, X(r)), 0, m - 1)
      BY <2>2, <3>1, AlongNumbers
    <3>8. Numbers(Terms(M, Ai, m, m, c), 0, m - 1)
      BY <3>6, <3>7 DEF Numbers
    <3>9. 0 \in Int /\ m - 1 \in Int /\ 0 - 1 <= m - 1
      OBVIOUS
    <3>10. Total(Along(M, m, i, X(r)), 0, m - 1) = Total(Terms(M, Ai, m, m, c), 0, m - 1)
      BY <3>6, <3>7, <3>9, TotalAgree
    <3>11. Total(Along(M, m, i, X(r)), 0, m - 1) = IF i = r THEN One ELSE Zero
      BY <2>2, <3>1 DEF Unit
    <3> QED
      BY <3>2, <3>4, <3>8, <3>10, <3>11
  <2>5. MatMul(M, Ai, m, m, m) = [c \in Cells(m * m) |-> MatMul(M, Ai, m, m, m)[c]]
    BY DEF MatMul
  <2>6. Identity(m) = [c \in Cells(m * m) |-> Identity(m)[c]]
    BY DEF Identity
  <2>7. MatMul(M, Ai, m, m, m) = Identity(m)
    BY <2>4, <2>5, <2>6
  <2>8. Inv(M, m).ok
    BY <1>2 DEF Inv
  <2> QED
    BY <2>7, <2>8 DEF Ai
<1> QED
  BY <1>1, <1>2

-----------------------------------------------------------------------------
(* Elimination without row exchanges (linsolve_gauss).                      *)

\* A matrix and the right-hand side that changes with it.
System(m) == [A : [Cells(m * m) -> Fraction], b : [Cells(m) -> Fraction]]

\* x solves the system s.
Solves(s, m, x) == \A r \in Cells(m) : Total(Along(s.A, m, r, x), 0, m - 1) = s.b[r]

\* Rows up to h of N map x to zero.
Vanishes(N, m, h, x) == \A r \in Cells(m) : r <= h => Total(Along(N, m, r, x), 0, m - 1) = Zero

\* Columns up to j are zero below a diagonal that is not, what solves s solves the
\* system M x = b, and what the first rows of s map to zero those of M do.
TriuStage(M, b, m, j) ==
  {s \in System(m) :
     /\ s.A \in Vector(m * m) /\ s.b \in Vector(m)
     /\ \A r, k \in Cells(m) : k <= j /\ k < r => s.A[r * m + k] = Zero
     /\ \A r \in Cells(m) : r <= j => s.A[r * m + r] # Zero
     /\ \A x \in Vector(m) : Solves(s, m, x) => Solves([A |-> M, b |-> b], m, x)
     /\ \A x \in Vector(m), h \in Cells(m) : Vanishes(s.A, m, h, x) => Vanishes(M, m, h, x)}

\* A column leaves fractions.
LEMMA TriuType ==
  ASSUME NEW m \in Nat, NEW s \in System(m), NEW j \in Cells(m)
  PROVE  TriuColumn(s, m, j) \in System(m)
<1> DEFINE q(i) == Div(s.A[i * m + j], s.A[j * m + j])
<1>1. \A i, k \in Cells(m) : i * m + k \in Cells(m * m)
  <2>1. \A i \in Cells(m) : i * m = m * i
    BY DEF Cells
  <2> QED
    BY <2>1, CellOf
<1>2. /\ \A c \in Cells(m * m) : s.A[c] \in Fraction
      /\ \A i \in Cells(m) : s.b[i] \in Fraction
  BY DEF System
<1>3. \A i \in Cells(m) : q(i) \in Fraction
  BY <1>1, <1>2, DivClosed
<1>4. \A c \in Cells(m * m) : c \div m \in Cells(m) /\ c % m \in Cells(m)
  BY PartsOf
<1>5. TriuColumn(s, m, j) =
        [A |-> [c \in Cells(m * m) |->
                  IF c \div m > j THEN Sub(s.A[c], Mul(q(c \div m), s.A[j * m + (c % m)])) ELSE s.A[c]],
         b |-> [i \in Cells(m) |-> IF i > j THEN Sub(s.b[i], Mul(q(i), s.b[j])) ELSE s.b[i]]]
  BY DEF TriuColumn
<1> HIDE DEF q
<1>6. ASSUME NEW c \in Cells(m * m)
      PROVE  Sub(s.A[c], Mul(q(c \div m), s.A[j * m + (c % m)])) \in Fraction
  BY <1>1, <1>2, <1>3, <1>4, Closed
<1>7. ASSUME NEW i \in Cells(m)
      PROVE  Sub(s.b[i], Mul(q(i), s.b[j])) \in Fraction
  BY <1>2, <1>3, Closed
<1> QED
  BY <1>2, <1>5, <1>6, <1>7 DEF System

\* What a column changes: row r > j loses q times row j.
LEMMA TriuChanges ==
  ASSUME NEW m \in Nat, NEW s, NEW j \in Cells(m), NEW r \in Cells(m), NEW k \in Cells(m)
  PROVE  /\ TriuColumn(s, m, j).A[r * m + k] =
              IF r > j THEN Sub(s.A[r * m + k], Mul(Div(s.A[r * m + j], s.A[j * m + j]), s.A[j * m + k]))
              ELSE s.A[r * m + k]
         /\ TriuColumn(s, m, j).b[r] =
              IF r > j THEN Sub(s.b[r], Mul(Div(s.A[r * m + j], s.A[j * m + j]), s.b[j])) ELSE s.b[r]
<1>1. r * m = m * r
  BY DEF Cells
<1>2. r * m + k \in Cells(m * m) /\ (r * m + k) \div m = r /\ (r * m + k) % m = k
  BY <1>1, CellOf
<1> QED
  BY <1>2 DEF TriuColumn

\* The last row apart.
LEMMA AtMost ==
  ASSUME NEW r \in Int, NEW j \in Int, r <= j
  PROVE  r = j \/ r <= j - 1
OBVIOUS

\* A column with a pivot keeps the stage.
LEMMA TriuStep ==
  ASSUME NEW m \in Nat, NEW M, NEW b, NEW j \in Cells(m),
         NEW s \in TriuStage(M, b, m, j - 1), s.A[j * m + j] # Zero
  PROVE  TriuColumn(s, m, j) \in TriuStage(M, b, m, j)
<1> DEFINE t == TriuColumn(s, m, j)
           q(r) == Div(s.A[r * m + j], s.A[j * m + j])
<1>1. s \in System(m) /\ t \in System(m) /\ s.A \in Vector(m * m) /\ s.b \in Vector(m)
  BY TriuType DEF TriuStage
<1>2. \A i, k \in Cells(m) : i * m + k = m * i + k /\ i * m + k \in Cells(m * m) /\ s.A[i * m + k] \in Number
  <2>1. \A i \in Cells(m) : i * m = m * i
    BY DEF Cells
  <2> QED
    BY <1>1, <2>1, CellOf DEF Vector
<1>3. \A r \in Cells(m) : s.b[r] \in Number
  BY <1>1 DEF Vector
<1>4. \A r, k \in Cells(m) :
        /\ t.A[r * m + k] = IF r > j THEN Sub(s.A[r * m + k], Mul(q(r), s.A[j * m + k])) ELSE s.A[r * m + k]
        /\ t.b[r] = IF r > j THEN Sub(s.b[r], Mul(q(r), s.b[j])) ELSE s.b[r]
  BY TriuChanges
<1>5. \A r \in Cells(m) : q(r) \in Number /\ Mul(q(r), s.A[j * m + j]) = s.A[r * m + j]
  BY <1>2, DivUndoes
<1> HIDE DEF t, q
<1>6. \A r, k \in Cells(m) : t.A[r * m + k] \in Number
  <2> TAKE r, k \in Cells(m)
  <2>1. Mul(q(r), s.A[j * m + k]) \in Number
    BY <1>2, <1>5, NumbersClosed
  <2>2. Sub(s.A[r * m + k], Mul(q(r), s.A[j * m + k])) \in Number
    BY <1>2, <2>1, NumbersClosed
  <2> QED
    BY <1>2, <1>4, <2>2
<1>7. t.A \in Vector(m * m)
  <2>1. ASSUME NEW c \in Cells(m * m)
        PROVE  t.A[c] \in Number
    <3>1. c \div m \in Cells(m) /\ c % m \in Cells(m) /\ c = m * (c \div m) + (c % m)
      BY PartsOf
    <3> DEFINE r == c \div m
               k == c % m
    <3>2. r \in Cells(m) /\ k \in Cells(m) /\ c = m * r + k
      BY <3>1
    <3> HIDE DEF r, k
    <3> QED
      BY <1>2, <1>6, <3>2
  <2>2. t.A = [c \in Cells(m * m) |-> t.A[c]]
    BY <1>1 DEF System
  <2> QED
    BY <2>1, <2>2 DEF Vector
<1>8. t.b \in Vector(m)
  <2>1. ASSUME NEW r \in Cells(m)
        PROVE  t.b[r] \in Number
    <3>1. Mul(q(r), s.b[j]) \in Number
      BY <1>3, <1>5, NumbersClosed
    <3>2. Sub(s.b[r], Mul(q(r), s.b[j])) \in Number
      BY <1>3, <3>1, NumbersClosed
    <3> QED
      BY <1>3, <1>4, <3>2
  <2>2. t.b = [r \in Cells(m) |-> t.b[r]]
    BY <1>1 DEF System
  <2> QED
    BY <2>1, <2>2 DEF Vector
<1>9. ASSUME NEW r \in Cells(m), NEW k \in Cells(m), k <= j, k < r
      PROVE  t.A[r * m + k] = Zero
  <2>1. r \in Int /\ k \in Int /\ j \in Int
    BY DEF Cells
  <2>2. CASE ~(r > j)
    <3>1. k <= j - 1
      BY <1>9, <2>1, <2>2
    <3>2. s.A[r * m + k] = Zero
      BY <1>9, <3>1 DEF TriuStage
    <3> QED
      BY <1>4, <2>2, <3>2
  <2>3. CASE r > j /\ k = j
    <3>1. t.A[r * m + k] = Sub(s.A[r * m + j], Mul(q(r), s.A[j * m + j]))
      BY <1>4, <2>3
    <3>2. t.A[r * m + k] = Sub(s.A[r * m + j], s.A[r * m + j])
      BY <1>5, <3>1
    <3> QED
      BY <1>2, <3>2, SubUndoes
  <2>4. CASE r > j /\ k # j
    <3>1. k <= j - 1 /\ k < j
      BY <1>9, <2>1, <2>4
    <3>2. s.A[r * m + k] = Zero /\ s.A[j * m + k] = Zero
      BY <1>9, <3>1 DEF TriuStage
    <3>3. t.A[r * m + k] = Sub(Zero, Mul(q(r), Zero))
      BY <1>4, <2>4, <3>2
    <3> QED
      BY <1>5, <3>3, OneIsNeutral, NumbersClosed, SubUndoes
  <2> QED
    BY <2>2, <2>3, <2>4
<1>10. ASSUME NEW x \in Vector(m), NEW r \in Cells(m)
       PROVE  Total(Along(s.A, m, r, x), 0, m - 1) =
                IF r > j THEN Add(Total(Along(t.A, m, r, x), 0, m - 1), Mul(q(r), Total(Along(s.A, m, j, x), 0, m - 1)))
                ELSE Total(Along(t.A, m, r, x), 0, m - 1)
  <2>1. \A i \in Cells(m) : /\ Numbers(Along(s.A, m, i, x), 0, m - 1) /\ Along(s.A, m, i, x) \in Vector(m)
                            /\ Numbers(Along(t.A, m, i, x), 0, m - 1) /\ Along(t.A, m, i, x) \in Vector(m)
    BY <1>1, <1>7, AlongNumbers
  <2>2. 0 \in Int /\ m - 1 \in Int /\ 0 - 1 <= m - 1 /\ 0 .. m - 1 = Cells(m)
    BY DEF Cells
  <2>3. CASE ~(r > j)
    <3>1. \A k \in Cells(m) : Along(s.A, m, r, x)[k] = Along(t.A, m, r, x)[k]
      BY <1>2, <1>4, <2>3 DEF Along
    <3> QED
      BY <2>1, <2>2, <2>3, <3>1, TotalAgree
  <2>4. CASE r > j
    <3>1. ASSUME NEW k \in Cells(m)
          PROVE  Along(s.A, m, r, x)[k] = Add(Along(t.A, m, r, x)[k], Mul(q(r), Along(s.A, m, j, x)[k]))
      <4> DEFINE a == s.A[r * m + k]
                 e == s.A[j * m + k]
                 u == t.A[r * m + k]
                 p == q(r)
                 y == x[k]
      <4>1. a \in Number /\ e \in Number /\ u \in Number /\ p \in Number /\ y \in Number
        BY <1>2, <1>5, <1>6 DEF Vector
      <4>2. Along(s.A, m, r, x)[k] = Mul(a, y) /\ Along(t.A, m, r, x)[k] = Mul(u, y) /\ Along(s.A, m, j, x)[k] = Mul(e, y)
        BY <1>2 DEF Along
      <4>3. u = Sub(a, Mul(p, e))
        BY <1>4, <2>4
      <4> HIDE DEF a, e, u, p, y
      <4>4. a = Add(u, Mul(p, e)) /\ Mul(p, e) \in Number
        BY <4>1, <4>3, NumbersClosed, SubUndoes
      <4>5. Mul(Add(u, Mul(p, e)), y) = Add(Mul(u, y), Mul(Mul(p, e), y))
        <5>1. u \in Fraction /\ y \in Fraction /\ Mul(p, e) \in Fraction /\ Add(u, Mul(p, e)) \in Fraction
          BY <4>1, <4>4, NumbersClosed DEF Number
        <5>2. Mul(y, Add(u, Mul(p, e))) = Add(Mul(y, u), Mul(y, Mul(p, e)))
          BY <5>1, Distributes
        <5> QED
          BY <5>1, <5>2, AddCommutes
      <4>6. Mul(Mul(p, e), y) = Mul(p, Mul(e, y))
        BY <4>1, MulAssociative
      <4>7. Along(s.A, m, r, x)[k] = Add(Mul(u, y), Mul(p, Mul(e, y)))
        BY <4>2, <4>4, <4>5, <4>6
      <4> QED
        BY <4>2, <4>7 DEF p
    <3>2. Total(Along(s.A, m, r, x), 0, m - 1)
            = Add(Total(Along(t.A, m, r, x), 0, m - 1), Mul(q(r), Total(Along(s.A, m, j, x), 0, m - 1)))
      BY <1>5, <2>1, <2>2, <3>1, TotalLinear
    <3> QED
      BY <2>4, <3>2
  <2> QED
    BY <2>3, <2>4
<1>11. ~(j > j) /\ j \in Int /\ \A r \in Cells(m) : r \in Int
  BY DEF Cells
<1>12. ASSUME NEW x \in Vector(m), Solves(t, m, x)
       PROVE  Solves(s, m, x)
  <2> SUFFICES ASSUME NEW r \in Cells(m)
               PROVE  Total(Along(s.A, m, r, x), 0, m - 1) = s.b[r]
    BY DEF Solves
  <2>1. \A i \in Cells(m) : Total(Along(t.A, m, i, x), 0, m - 1) = t.b[i]
    BY <1>12 DEF Solves
  <2>2. CASE ~(r > j)
    BY <1>4, <1>10, <2>1, <2>2
  <2>3. CASE r > j
    <3>1. Total(Along(s.A, m, j, x), 0, m - 1) = s.b[j]
      BY <1>4, <1>10, <1>11, <2>1
    <3>2. t.b[r] = Sub(s.b[r], Mul(q(r), s.b[j]))
      BY <1>4, <2>3
    <3>3. Mul(q(r), s.b[j]) \in Number
      BY <1>3, <1>5, NumbersClosed
    <3>4. Add(Sub(s.b[r], Mul(q(r), s.b[j])), Mul(q(r), s.b[j])) = s.b[r]
      BY <1>3, <3>3, SubUndoes
    <3> QED
      BY <1>10, <2>1, <2>3, <3>1, <3>2, <3>4
  <2> QED
    BY <2>2, <2>3
<1>13. ASSUME NEW x \in Vector(m), NEW h \in Cells(m), Vanishes(t.A, m, h, x)
       PROVE  Vanishes(s.A, m, h, x)
  <2> SUFFICES ASSUME NEW r \in Cells(m), r <= h
               PROVE  Total(Along(s.A, m, r, x), 0, m - 1) = Zero
    BY DEF Vanishes
  <2>1. \A i \in Cells(m) : i <= h => Total(Along(t.A, m, i, x), 0, m - 1) = Zero
    BY <1>13 DEF Vanishes
  <2>2. CASE ~(r > j)
    BY <1>10, <2>1, <2>2
  <2>3. CASE r > j
    <3>1. j <= h
      <4>1. j \in Int /\ r \in Int /\ h \in Int
        BY DEF Cells
      <4>2. j < r /\ r <= h
        BY <2>3, <4>1
      <4> QED
        BY <4>1, <4>2
    <3>2. Total(Along(s.A, m, j, x), 0, m - 1) = Zero
      BY <1>10, <1>11, <2>1, <3>1
    <3>3. Total(Along(s.A, m, r, x), 0, m - 1) = Add(Zero, Mul(q(r), Zero))
      BY <1>10, <2>1, <2>3, <3>2
    <3> QED
      BY <1>5, <3>3, NumbersClosed, OneIsNeutral
  <2> QED
    BY <2>2, <2>3
<1>14. /\ \A x \in Vector(m) : Solves(t, m, x) => Solves([A |-> M, b |-> b], m, x)
       /\ \A x \in Vector(m), h \in Cells(m) : Vanishes(t.A, m, h, x) => Vanishes(M, m, h, x)
  BY <1>12, <1>13 DEF TriuStage
<1>15. ASSUME NEW r \in Cells(m), r <= j
       PROVE  t.A[r * m + r] # Zero
  <2>1. t.A[r * m + r] = s.A[r * m + r]
    BY <1>4, <1>11, <1>15
  <2>2. r = j \/ r <= j - 1
    <3>1. r \in Int /\ j \in Int
      BY DEF Cells
    <3>2. r <= j
      BY <1>15
    <3> QED
      BY <3>1, <3>2, AtMost
  <2> QED
    BY <2>1, <2>2 DEF TriuStage
<1> QED
  BY <1>1, <1>7, <1>8, <1>9, <1>14, <1>15 DEF TriuStage, t

\* Some leading block of M maps a vector other than zero to zero.
LeadingSingular(M, m) ==
  \E x \in Vector(m), j \in Cells(m) :
    /\ x[j] # Zero
    /\ \A k \in Cells(m) : k > j => x[k] = Zero
    /\ \A r \in Cells(m) : r <= j => MatMul(M, x, m, m, 1)[r] = Zero

\* Otherwise the elimination finds its next pivot.
LEMMA TriuPivot ==
  ASSUME NEW m \in Nat, NEW M \in Vector(m * m), NEW b, NEW j \in Cells(m), ~LeadingSingular(M, m),
         NEW s \in TriuStage(M, b, m, j - 1)
  PROVE  s.A[j * m + j] # Zero
<1> SUFFICES ASSUME s.A[j * m + j] = Zero PROVE FALSE
  OBVIOUS
<1> DEFINE P == [q \in Cells(m) |-> q]
<1>1. /\ s.A \in Vector(m * m) /\ P \in [Cells(m) -> Cells(m)]
      /\ \A q \in Cells(m) : P[q] = q /\ q * m = m * q /\ q \in Nat /\ q <= m - 1
  BY DEF TriuStage, Cells
<1>2. \A q \in Cells(m) : q < j => s.A[m * P[q] + q] # Zero
  <2>1. \A q \in Cells(m) : q < j => q <= j - 1
    BY DEF Cells
  <2> QED
    BY <1>1, <2>1 DEF TriuStage
<1> HIDE DEF P
<1>3. PICK x : x \in Flat(s.A, P, m, j, 0)
  BY <1>1, <1>2, FlatFound
<1>4. /\ x \in Vector(m) /\ x[j] = One /\ \A k \in Cells(m) : k > j => x[k] = Zero
      /\ \A q \in Cells(m) : q < j => Total(Along(s.A, m, q, x), q, m - 1) = Zero
  <2>1. \A q \in Cells(m) : 0 <= q
    BY <1>1
  <2> QED
    BY <1>1, <1>3, <2>1 DEF Flat
<1>5. \A q, k \in Cells(m) : Along(s.A, m, q, x)[k] = Mul(s.A[q * m + k], x[k]) /\ s.A[q * m + k] \in Number /\ x[k] \in Number
  BY <1>1, <1>4, CellOf DEF Along, Vector
<1>6. ASSUME NEW q \in Cells(m), q <= j
      PROVE  Total(Along(s.A, m, q, x), 0, m - 1) = Zero
  <2>1. ASSUME NEW k \in 0 .. q - 1
        PROVE  Along(s.A, m, q, x)[k] = Zero
    <3>1. k \in Cells(m) /\ k < q /\ k <= j - 1
      BY <1>1, <1>6 DEF Cells
    <3>2. s.A[q * m + k] = Zero
      BY <3>1 DEF TriuStage
    <3> QED
      BY <1>5, <3>1, <3>2, OneIsNeutral
  <2>2. 0 \in Int /\ q \in Int /\ m - 1 \in Int /\ 0 <= q /\ q <= (m - 1) + 1 /\ q - 1 <= m - 1
    BY <1>1
  <2>3. Numbers(Along(s.A, m, q, x), 0, m - 1)
    BY <1>1, <1>4, AlongNumbers
  <2>4. Total(Along(s.A, m, q, x), 0, m - 1) = Total(Along(s.A, m, q, x), q, m - 1)
    BY <2>1, <2>2, <2>3, TotalDropsZeros
  <2>5. CASE q < j
    BY <1>4, <2>4, <2>5
  <2>6. CASE q = j
    <3>1. ASSUME NEW k \in q .. m - 1
          PROVE  Along(s.A, m, q, x)[k] = Zero
      <4>1. k \in Cells(m) /\ (k = j \/ k > j)
        BY <1>1, <2>6 DEF Cells
      <4>2. s.A[q * m + k] = Zero \/ x[k] = Zero
        BY <1>4, <2>6, <4>1
      <4> QED
        BY <1>5, <4>1, <4>2, OneIsNeutral
    <3>2. Total(Along(s.A, m, q, x), q, m - 1) = Zero
      BY <2>2, <3>1, TotalOfZeros
    <3> QED
      BY <2>4, <3>2
  <2>7. q = j \/ q < j
    <3>1. q \in Int /\ j \in Int
      BY DEF Cells
    <3> QED
      BY <1>6, <3>1
  <2> QED
    BY <2>5, <2>6, <2>7
<1>7. Vanishes(M, m, j, x)
  <2>1. Vanishes(s.A, m, j, x)
    BY <1>6 DEF Vanishes
  <2> QED
    BY <1>4, <2>1 DEF TriuStage
<1>8. \A r \in Cells(m) : r <= j => MatMul(M, x, m, m, 1)[r] = Zero
  BY <1>4, <1>7, MatVecRow DEF Vanishes
<1>9. x[j] # Zero
  BY <1>4 DEF One, Zero, Whole
<1> QED
  BY <1>4, <1>8, <1>9 DEF LeadingSingular

\* All columns.
LEMMA TriuRuns ==
  ASSUME NEW m \in Nat, NEW M \in Vector(m * m), NEW b \in Vector(m), ~LeadingSingular(M, m)
  PROVE  Triu(M, b, m) \in TriuStage(M, b, m, m - 1)
<1> DEFINE lo == 0
           hi == m - 1
           start == [A |-> M, b |-> b]
           B(s, j) == TriuColumn(s, m, j)
           P(f) == f = [i \in lo - 1 .. hi |-> IF i < lo THEN start ELSE B(f[i - 1], i)]
           z == CHOOSE f : P(f)
           body == [q \in System(m) \X Int |-> B(q[1], q[2])]
           Stage == [i \in lo - 1 .. hi |-> TriuStage(M, b, m, i)]
<1>1. Triu(M, b, m) = IF hi < lo THEN start ELSE z[hi]
  BY DEF Triu, For
<1>2. lo \in Int /\ hi \in Int /\ lo - 1 \in lo - 1 .. hi /\ hi \in lo - 1 .. hi /\ (hi < lo => hi = lo - 1)
  OBVIOUS
<1>3. start \in System(m) /\ start \in TriuStage(M, b, m, lo - 1)
  <2>1. start \in System(m) /\ start.A = M /\ start.b = b
    BY DEF System, Vector, Number
  <2>2. \A k \in Cells(m) : ~(k <= lo - 1)
    BY DEF Cells
  <2> HIDE DEF lo
  <2> QED
    BY <2>1, <2>2 DEF TriuStage
<1>4. ASSUME NEW i \in lo .. hi, NEW s \in TriuStage(M, b, m, i - 1)
      PROVE  B(s, i) \in TriuStage(M, b, m, i) /\ body[<<s, i>>] = B(s, i)
  <2>1. i \in Cells(m) /\ i \in Int
    BY DEF Cells
  <2>2. s \in System(m)
    BY DEF TriuStage
  <2>3. s.A[i * m + i] # Zero
    BY <2>1, TriuPivot
  <2>4. B(s, i) \in TriuStage(M, b, m, i)
    BY <2>1, <2>3, TriuStep
  <2> QED
    BY <2>1, <2>2, <2>4
<1>5. \A i \in lo - 1 .. hi : Stage[i] = TriuStage(M, b, m, i) /\ Stage[i] \subseteq System(m)
  BY DEF TriuStage
<1>6. Stage[hi] = TriuStage(M, b, m, m - 1)
  BY <1>2, <1>5
<1> HIDE DEF Stage, body, start, lo, hi, B
<1>7. \A i \in lo .. hi : i \in lo - 1 .. hi /\ i - 1 \in lo - 1 .. hi /\ ~(i < lo)
  BY <1>2
<1>8. ASSUME NEW i \in lo .. hi, NEW s \in Stage[i - 1]
      PROVE  B(s, i) \in Stage[i] /\ body[<<s, i>>] = B(s, i)
  BY <1>4, <1>5, <1>7
<1>9. start \in Stage[lo - 1]
  BY <1>2, <1>3, <1>5
<1>10. PICK f : Runs(f, lo, hi, start, body) /\ \A i \in lo - 1 .. hi : f[i] \in Stage[i]
  <2>1. Leads(lo, hi, start, body, Stage)
    BY <1>8, <1>9 DEF Leads
  <2> QED
    BY <1>2, <1>3, <1>5, <2>1, LoopRuns
<1>11. P(f)
  <2>1. \A i \in lo - 1 .. hi : ~(i < lo) => body[<<f[i - 1], i>>] = B(f[i - 1], i)
    BY <1>2, <1>7, <1>8, <1>10
  <2> QED
    BY <1>10, <2>1 DEF Runs
<1> HIDE DEF P
<1>12. P(z)
  BY <1>11
<1> HIDE DEF z
<1>13. \A i \in lo - 1 .. hi : z[i] = IF i < lo THEN start ELSE B(z[i - 1], i)
  BY <1>12 DEF P
<1>14. \A i \in lo - 1 .. hi : z[i] \in Stage[i]
  <2>1. z[lo - 1] \in Stage[lo - 1]
    <3>1. lo - 1 \in lo - 1 .. hi /\ lo - 1 < lo
      BY <1>2
    <3>2. z[lo - 1] = start
      BY <1>13, <3>1
    <3> QED
      BY <1>9, <3>2
  <2>2. \A i \in lo .. hi : z[i - 1] \in Stage[i - 1] => z[i] \in Stage[i]
    BY <1>7, <1>8, <1>13
  <2> QED
    BY <1>2, <2>1, <2>2, StagesHold
<1> QED
  BY <1>1, <1>2, <1>6, <1>9, <1>14

\* Elimination and the triangular solver after it solve the system.
LEMMA EliminationSolves ==
  ASSUME NEW m \in Nat, NEW M \in Vector(m * m), NEW b \in Vector(m),
         ~LeadingSingular(M, m)
  PROVE  MatMul(M, UpperTriangular(Triu(M, b, m).A, Triu(M, b, m).b, m), m, m, 1) = b
<1> DEFINE s == Triu(M, b, m)
           x == UpperTriangular(s.A, s.b, m)
<1>1. s \in TriuStage(M, b, m, m - 1)
  BY TriuRuns
<1> HIDE DEF s
<1>2. s.A \in Vector(m * m) /\ s.b \in Vector(m) /\ \A r \in Cells(m) : s.A[r * m + r] # Zero
  <2>1. \A r \in Cells(m) : r <= m - 1
    BY DEF Cells
  <2> QED
    BY <1>1, <2>1 DEF TriuStage
<1>3. \A r, k \in Cells(m) : k < r => s.A[r * m + k] = Zero
  <2>1. \A k \in Cells(m) : k <= m - 1
    BY DEF Cells
  <2> QED
    BY <1>1, <2>1 DEF TriuStage
<1>4. \A r \in Cells(m) : Total(Along(s.A, m, r, x), 0, m - 1) = s.b[r]
  BY <1>2, <1>3, UpperSolves
<1>5. x \in Vector(m)
  BY <1>2, <1>3, UpperSolves
<1> HIDE DEF x
<1>6. Solves([A |-> M, b |-> b], m, x)
  BY <1>1, <1>4, <1>5 DEF TriuStage, Solves
<1>7. \A r \in Cells(m) : Total(Along(M, m, r, x), 0, m - 1) = b[r]
  BY <1>6 DEF Solves
<1>8. b = [r \in Cells(m) |-> b[r]]
  BY DEF Vector
<1> QED
  BY <1>5, <1>7, <1>8, MatVec DEF x, s

-----------------------------------------------------------------------------
(* The regularized system is positive definite: x' (M' M + alpha I) x is    *)
(* |M x|^2 + alpha |x|^2.                                                   *)

\* tikhonov computes M' M + alpha I and M' b.
LEMMA TikhonovCells ==
  ASSUME NEW h \in Nat, NEW w \in Nat, NEW M \in Vector(h * w), NEW b \in Vector(h), NEW alpha \in Number
  PROVE  LET t == Tikhonov(M, b, h, w, alpha)
             column(r) == [i \in Cells(h) |-> M[w * i + r]]
         IN  /\ t.A \in Vector(w * w) /\ t.b \in Vector(w)
             /\ \A r \in Cells(w) : column(r) \in Vector(h)
             /\ \A r, k \in Cells(w) :
                  t.A[w * r + k] = Add(Total(Weighed(column(r), M, h, w, k), 0, h - 1),
                                       IF r = k THEN alpha ELSE Zero)
<1> DEFINE AT == Transpose(M, h, w)
           N == MatMul(AT, M, w, h, w)
           t == Tikhonov(M, b, h, w, alpha)
           column(r) == [i \in Cells(h) |-> M[w * i + r]]
           G(r, k) == Total(Weighed(column(r), M, h, w, k), 0, h - 1)
<1>1. Cells(h) = 0 .. h - 1 /\ 0 \in Int /\ h - 1 \in Int /\ 0 - 1 <= h - 1
  BY DEF Cells
<1>2. \A r \in Cells(w) : column(r) \in Vector(h)
  BY CellOf DEF Vector
<1>3. \A r, k \in Cells(w), i \in Cells(h) :
        /\ M[w * i + r] \in Number
        /\ Weighed(column(r), M, h, w, k)[i] = Mul(M[w * i + r], M[w * i + k])
  BY CellOf DEF Weighed, Vector
<1>4. \A r, k \in Cells(w) : Numbers(Weighed(column(r), M, h, w, k), 0, h - 1) /\ G(r, k) \in Number
  <2> TAKE r, k \in Cells(w)
  <2>1. Numbers(Weighed(column(r), M, h, w, k), 0, h - 1)
    <3>1. \A i \in Cells(h) : Mul(M[w * i + r], M[w * i + k]) \in Number
      BY <1>3, NumbersClosed
    <3> QED
      BY <1>1, <1>3, <3>1 DEF Numbers
  <2> QED
    BY <1>1, <2>1, TotalType
<1>5. \A r \in Cells(w), i \in Cells(h) : AT[r * h + i] = M[w * i + r]
  <2> TAKE r \in Cells(w), i \in Cells(h)
  <2>1. h * r + i \in Cells(w * h) /\ (h * r + i) \div h = r /\ (h * r + i) % h = i
    BY CellOf
  <2>2. h * r = r * h /\ i * w = w * i /\ w * h = h * w
    BY DEF Cells
  <2> QED
    BY <2>1, <2>2 DEF Transpose
<1> HIDE DEF AT, G
<1>6. ASSUME NEW r \in Cells(w), NEW k \in Cells(w)
      PROVE  N[w * r + k] = G(r, k)
  <2> DEFINE c == w * r + k
  <2>1. c \in Cells(w * w) /\ c \div w = r /\ c % w = k
    BY CellOf
  <2> HIDE DEF c
  <2>2. \A i \in 0 .. h - 1 : Terms(AT, M, h, w, c)[i] = Weighed(column(r), M, h, w, k)[i]
    <3>1. \A i \in 0 .. h - 1 : Terms(AT, M, h, w, c)[i] = Mul(AT[r * h + i], M[k + i * w])
      BY <2>1 DEF Terms
    <3>2. \A i \in 0 .. h - 1 : k + i * w = w * i + k
      BY DEF Cells
    <3> QED
      BY <1>1, <1>3, <1>5, <3>1, <3>2
  <2>3. Numbers(Terms(AT, M, h, w, c), 0, h - 1)
    BY <1>4, <2>2 DEF Numbers
  <2>4. N[c] = Total(Terms(AT, M, h, w, c), 0, h - 1)
    BY <2>1, <2>3, MatMulCell
  <2>5. Total(Terms(AT, M, h, w, c), 0, h - 1) = Total(Weighed(column(r), M, h, w, k), 0, h - 1)
    BY <1>1, <2>2, <2>3, TotalAgree
  <2> QED
    BY <2>4, <2>5 DEF c, G
<1>7. t.A = [c \in Cells(w * w) |-> Add(N[c], Mul(alpha, IF c \div w = c % w THEN One ELSE Zero))]
  <2>1. DOMAIN N = Cells(w * w)
    BY DEF MatMul
  <2>2. t.A = MatAdd(N, Scaled(Identity(w), alpha))
    BY DEF Tikhonov, AT
  <2>3. \A c \in Cells(w * w) : Scaled(Identity(w), alpha)[c] = Mul(alpha, IF c \div w = c % w THEN One ELSE Zero)
    BY DEF Scaled, Identity
  <2> HIDE DEF N, t
  <2> QED
    BY <2>1, <2>2, <2>3 DEF MatAdd
<1> HIDE DEF N
<1>8. ASSUME NEW r \in Cells(w), NEW k \in Cells(w)
      PROVE  t.A[w * r + k] = Add(G(r, k), IF r = k THEN alpha ELSE Zero)
  <2>1. w * r + k \in Cells(w * w) /\ (w * r + k) \div w = r /\ (w * r + k) % w = k
    BY CellOf
  <2>2. t.A[w * r + k] = Add(G(r, k), Mul(alpha, IF r = k THEN One ELSE Zero))
    BY <1>6, <1>7, <2>1
  <2> QED
    BY <2>2, OneIsNeutral
<1>9. t.A \in Vector(w * w)
  <2>1. ASSUME NEW c \in Cells(w * w)
        PROVE  t.A[c] \in Number
    <3>1. c \div w \in Cells(w) /\ c % w \in Cells(w) /\ c = w * (c \div w) + (c % w)
      BY PartsOf
    <3> HIDE DEF t
    <3>2. t.A[c] = Add(G(c \div w, c % w), IF c \div w = c % w THEN alpha ELSE Zero)
      BY <1>8, <3>1
    <3>3. G(c \div w, c % w) \in Number
      BY <1>4, <3>1 DEF G
    <3> QED
      BY <3>2, <3>3, NumbersClosed
  <2> HIDE DEF t
  <2>2. t.A = [c \in Cells(w * w) |-> t.A[c]]
    BY <1>7
  <2> QED
    BY <2>1, <2>2 DEF Vector
<1>10. t.b \in Vector(w)
  <2>1. t.b = MatMul(AT, b, w, h, 1)
    BY DEF Tikhonov, AT
  <2>2. w * 1 = w
    OBVIOUS
  <2>3. ASSUME NEW r \in Cells(w)
        PROVE  MatMul(AT, b, w, h, 1)[r] \in Number
    <3>1. r \in Int /\ r \in Cells(w * 1)
      BY <2>2 DEF Cells
    <3>2. r \div 1 = r /\ r % 1 = 0
      BY <3>1
    <3>3. \A i \in 0 .. h - 1 : Terms(AT, b, h, 1, r)[i] = Mul(AT[r * h + i], b[i])
      <4>1. \A i \in 0 .. h - 1 : (r % 1) + i * 1 = i
        BY <3>2
      <4> QED
        BY <3>2, <4>1 DEF Terms
    <3>4. \A i \in 0 .. h - 1 : AT[r * h + i] \in Number /\ b[i] \in Number
      <4> TAKE i \in 0 .. h - 1
      <4>1. i \in Cells(h)
        BY <1>1
      <4>2. AT[r * h + i] = M[w * i + r] /\ M[w * i + r] \in Number
        BY <1>3, <1>5, <4>1
      <4> QED
        BY <4>1, <4>2 DEF Vector
    <3>5. Numbers(Terms(AT, b, h, 1, r), 0, h - 1)
      <4>1. \A i \in 0 .. h - 1 : Mul(AT[r * h + i], b[i]) \in Number
        BY <3>4, NumbersClosed
      <4> QED
        BY <3>3, <4>1 DEF Numbers
    <3> QED
      BY <1>1, <3>1, <3>5, MatMulCell, TotalType
  <2>4. MatMul(AT, b, w, h, 1) = [r \in Cells(w) |-> MatMul(AT, b, w, h, 1)[r]]
    BY <2>2 DEF MatMul
  <2> HIDE DEF t
  <2> QED
    BY <2>1, <2>3, <2>4 DEF Vector
<1> HIDE DEF t
<1> QED
  BY <1>2, <1>8, <1>9, <1>10 DEF G, t

\* A vector that a leading block of M' M + alpha I maps to zero has squares that
\* sum to zero: it is zero.
LEMMA RegularizedIsDefinite ==
  ASSUME NEW h \in Nat, NEW w \in Nat, NEW M \in Vector(h * w), NEW b \in Vector(h), NEW alpha \in Positive
  PROVE  ~LeadingSingular(Tikhonov(M, b, h, w, alpha).A, w)
<1> DEFINE N == Tikhonov(M, b, h, w, alpha).A
           column(r) == [i \in Cells(h) |-> M[w * i + r]]
<1>1. alpha \in Number
  BY DEF Positive
<1>2. /\ N \in Vector(w * w) /\ \A r \in Cells(w) : column(r) \in Vector(h)
      /\ \A r, k \in Cells(w) :
           N[w * r + k] = Add(Total(Weighed(column(r), M, h, w, k), 0, h - 1), IF r = k THEN alpha ELSE Zero)
  BY <1>1, TikhonovCells
<1>3. /\ \A i \in Cells(h), r \in Cells(w) : column(r)[i] = M[w * i + r]
      /\ Cells(h) = 0 .. h - 1 /\ Cells(w) = 0 .. w - 1 /\ 0 \in Int /\ h - 1 \in Int /\ w - 1 \in Int
      /\ 0 - 1 <= h - 1 /\ 0 - 1 <= w - 1
  BY DEF Cells
<1> HIDE DEF N, column
<1> SUFFICES ASSUME LeadingSingular(N, w) PROVE FALSE
  BY DEF N
<1>4. PICK x \in Vector(w), j \in Cells(w) :
        /\ x[j] # Zero
        /\ \A k \in Cells(w) : k > j => x[k] = Zero
        /\ \A r \in Cells(w) : r <= j => MatMul(N, x, w, w, 1)[r] = Zero
  BY DEF LeadingSingular
<1> DEFINE y == Image(M, h, w, x)
           E(r) == Total(Along(N, w, r, x), 0, w - 1)
           S(r) == Total(Weighed(y, M, h, w, r), 0, h - 1)
           z == [r \in Cells(w) |-> Mul(x[r], E(r))]
           z1 == [r \in Cells(w) |-> Mul(S(r), x[r])]
           x2 == [r \in Cells(w) |-> Mul(x[r], x[r])]
<1>5. /\ \A k \in Cells(w) : x[k] \in Number
      /\ y \in Vector(h) /\ \A i \in Cells(h) : y[i] \in Number
      /\ \A i \in Cells(h), k \in Cells(w) : M[w * i + k] \in Number
  <2>1. y \in Vector(h) /\ \A i \in Cells(h), k \in Cells(w) : M[w * i + k] \in Number
    BY ImageType
  <2> HIDE DEF y
  <2> QED
    BY <2>1 DEF Vector
<1>6. \A r \in Cells(w) : E(r) \in Number /\ (r <= j => E(r) = Zero)
  <2> TAKE r \in Cells(w)
  <2>1. Numbers(Along(N, w, r, x), 0, w - 1)
    BY <1>2, AlongNumbers
  <2>2. MatMul(N, x, w, w, 1)[r] = Total(Along(N, w, r, x), 0, w - 1)
    BY <1>2, MatVecRow
  <2> QED
    BY <1>3, <1>4, <2>1, <2>2, TotalType
<1>7. /\ \A r \in Cells(w) : S(r) \in Number
      /\ Total(z1, 0, w - 1) = Total(Squares(y, y, h), 0, h - 1)
  BY <1>5, Adjoint
<1>8. ASSUME NEW r \in Cells(w)
      PROVE  E(r) = Add(S(r), Mul(alpha, x[r]))
  <2> DEFINE G(k) == Total(Weighed(column(r), M, h, w, k), 0, h - 1)
             v1 == [k \in Cells(w) |-> Mul(G(k), x[k])]
             d(k) == IF r = k THEN alpha ELSE Zero
             v2 == [k \in Cells(w) |-> Mul(d(k), x[k])]
  <2>1. column(r) \in Vector(h)
    BY <1>2
  <2>2. /\ \A k \in Cells(w) : G(k) \in Number
        /\ Total(v1, 0, w - 1) = Total(Squares(column(r), y, h), 0, h - 1)
    BY <2>1, Adjoint
  <2>3. \A k \in Cells(w) : Along(N, w, r, x)[k] = Mul(Add(G(k), d(k)), x[k])
    BY <1>2 DEF Along
  <2>4. \A k \in Cells(w) : d(k) \in Number /\ (k # r => d(k) = Zero) /\ d(r) = alpha
    BY <1>1, NumbersClosed
  <2> HIDE DEF G, d, y
  <2>5. ASSUME NEW k \in Cells(w)
        PROVE  /\ Along(N, w, r, x)[k] = Add(v1[k], v2[k]) /\ v1[k] \in Number /\ v2[k] \in Number
               /\ (k # r => v2[k] = Zero)
    <3>1. G(k) \in Number /\ d(k) \in Number /\ x[k] \in Number
      BY <1>5, <2>2, <2>4
    <3>2. Mul(Add(G(k), d(k)), x[k]) = Add(Mul(G(k), x[k]), Mul(d(k), x[k]))
      <4>1. G(k) \in Fraction /\ d(k) \in Fraction /\ x[k] \in Fraction /\ Add(G(k), d(k)) \in Fraction
        BY <3>1, NumbersClosed DEF Number
      <4>2. Mul(x[k], Add(G(k), d(k))) = Add(Mul(x[k], G(k)), Mul(x[k], d(k)))
        BY <4>1, Distributes
      <4> QED
        BY <4>1, <4>2, AddCommutes
    <3>3. v1[k] = Mul(G(k), x[k]) /\ v2[k] = Mul(d(k), x[k])
      OBVIOUS
    <3>4. k # r => Mul(d(k), x[k]) = Zero
      BY <2>4, <3>1, OneIsNeutral
    <3> HIDE DEF v1, v2
    <3> QED
      BY <2>3, <3>1, <3>2, <3>3, <3>4, NumbersClosed
  <2>6. v2[r] = Mul(alpha, x[r])
    BY <2>4
  <2> HIDE DEF v1, v2
  <2>7. Numbers(v1, 0, w - 1) /\ Numbers(v2, 0, w - 1)
    BY <1>3, <2>5 DEF Numbers
  <2>8. Total(Along(N, w, r, x), 0, w - 1) = Add(Total(v1, 0, w - 1), Total(v2, 0, w - 1))
    BY <1>3, <2>5, <2>7, TotalAdds
  <2>9. Total(v2, 0, w - 1) = Mul(alpha, x[r])
    <3>1. r \in 0 .. w - 1 /\ v2[r] \in Number /\ \A k \in 0 .. w - 1 : k # r => v2[k] = Zero
      BY <1>3, <2>5
    <3>2. 0 \in Int /\ w - 1 \in Int
      BY <1>3
    <3>3. Total(v2, 0, w - 1) = v2[r]
      BY <3>1, <3>2, TotalSingle
    <3> QED
      BY <2>6, <3>3
  <2>10. Total(Squares(column(r), y, h), 0, h - 1) = S(r)
    <3>1. ASSUME NEW i \in 0 .. h - 1
          PROVE  /\ Squares(column(r), y, h)[i] = Weighed(y, M, h, w, r)[i]
                 /\ Squares(column(r), y, h)[i] \in Number
      <4>1. i \in Cells(h) /\ M[w * i + r] \in Number /\ y[i] \in Number
        BY <1>3, <1>5
      <4>2. Squares(column(r), y, h)[i] = Mul(M[w * i + r], y[i])
        BY <1>3, <4>1 DEF Squares
      <4>3. Weighed(y, M, h, w, r)[i] = Mul(y[i], M[w * i + r])
        BY <4>1 DEF Weighed
      <4>4. Mul(M[w * i + r], y[i]) = Mul(y[i], M[w * i + r])
        BY <4>1, AddCommutes DEF Number
      <4> QED
        BY <4>1, <4>2, <4>3, <4>4, NumbersClosed
    <3>2. Numbers(Squares(column(r), y, h), 0, h - 1)
      BY <3>1 DEF Numbers
    <3> QED
      BY <1>3, <3>1, <3>2, TotalAgree
  <2> QED
    BY <2>2, <2>8, <2>9, <2>10 DEF y
<1> HIDE DEF E, S, y
<1>9. \A r \in Cells(w) : z[r] = Zero
  <2> TAKE r \in Cells(w)
  <2>1. z[r] = Mul(x[r], E(r)) /\ x[r] \in Number /\ E(r) \in Number
    BY <1>5, <1>6
  <2>2. r <= j \/ r > j
    BY DEF Cells
  <2>3. x[r] = Zero \/ E(r) = Zero
    BY <1>4, <1>6, <2>2
  <2> HIDE DEF z
  <2> QED
    BY <2>1, <2>3, OneIsNeutral
<1>10. ASSUME NEW r \in Cells(w)
       PROVE  z[r] = Add(z1[r], Mul(alpha, x2[r])) /\ z1[r] \in Number /\ x2[r] \in NonNegative /\ (x[r] # Zero => x2[r] \in Positive)
  <2> DEFINE p == x[r]
             s == S(r)
  <2>1. p \in Number /\ s \in Number /\ E(r) = Add(s, Mul(alpha, p))
    BY <1>5, <1>7, <1>8
  <2>2. z[r] = Mul(p, E(r)) /\ z1[r] = Mul(s, p) /\ x2[r] = Mul(p, p)
    OBVIOUS
  <2>3. Mul(p, Add(s, Mul(alpha, p))) = Add(Mul(s, p), Mul(alpha, Mul(p, p)))
    <3> HIDE DEF p, s
    <3>1. p \in Fraction /\ s \in Fraction /\ Mul(alpha, p) \in Fraction
      BY <1>1, <2>1, NumbersClosed DEF Number
    <3>2. Mul(p, Add(s, Mul(alpha, p))) = Add(Mul(p, s), Mul(p, Mul(alpha, p)))
      BY <3>1, Distributes
    <3>3. Mul(p, s) = Mul(s, p) /\ Mul(p, Mul(alpha, p)) = Mul(Mul(alpha, p), p)
      BY <3>1, AddCommutes
    <3>4. Mul(Mul(alpha, p), p) = Mul(alpha, Mul(p, p))
      BY <1>1, <2>1, MulAssociative
    <3> QED
      BY <3>2, <3>3, <3>4
  <2>4. Zero \in NonNegative
    BY NumbersClosed DEF NonNegative, Zero, Whole
  <2>5. Mul(p, p) \in NonNegative /\ (p # Zero => Mul(p, p) \in Positive)
    BY <2>1, <2>4, SignMul
  <2> HIDE DEF z, z1, x2, p, s
  <2>6. z[r] = Add(z1[r], Mul(alpha, x2[r]))
    BY <2>1, <2>2, <2>3
  <2>7. z1[r] \in Number
    BY <2>1, <2>2, NumbersClosed
  <2> QED
    BY <2>2, <2>5, <2>6, <2>7 DEF p
<1> HIDE DEF z, z1, x2
<1>11. Total(z, 0, w - 1) = Zero
  BY <1>3, <1>9, TotalOfZeros
<1>12. Total(z, 0, w - 1) = Add(Total(z1, 0, w - 1), Mul(alpha, Total(x2, 0, w - 1)))
  <2>1. Numbers(z1, 0, w - 1) /\ Numbers(x2, 0, w - 1)
    BY <1>3, <1>10 DEF Numbers, NonNegative
  <2> QED
    BY <1>1, <1>3, <1>10, <2>1, TotalLinear
<1>13. Total(z1, 0, w - 1) \in NonNegative
  <2>1. ASSUME NEW i \in 0 .. h - 1 PROVE Squares(y, y, h)[i] \in NonNegative
    <3>1. Squares(y, y, h)[i] = Mul(y[i], y[i]) /\ y[i] \in Number
      BY <1>3, <1>5 DEF Squares
    <3>2. Zero \in NonNegative
      BY NumbersClosed DEF NonNegative, Zero, Whole
    <3> QED
      BY <3>1, <3>2, SignMul
  <2>2. Total(Squares(y, y, h), 0, h - 1) \in NonNegative
    BY <2>1, TotalSign
  <2> QED
    BY <1>7, <2>2
<1>14. Total(x2, 0, w - 1) \in Positive
  <2>1. j \in 0 .. w - 1 /\ x2[j] \in Positive /\ \A k \in 0 .. w - 1 : x2[k] \in NonNegative
    BY <1>3, <1>4, <1>10
  <2> QED
    BY <2>1, TotalSign
<1>15. Mul(alpha, Total(x2, 0, w - 1)) \in Positive /\ Positive \subseteq NonNegative
  <2>1. Positive \subseteq NonNegative
    BY NumberParts DEF Positive, NonNegative
  <2> QED
    BY <1>1, <1>14, <2>1, SignMul
<1>16. Zero \in Positive
  BY <1>11, <1>12, <1>13, <1>15, SignAdd
<1> QED
  BY <1>16 DEF Positive, Zero, Whole

-----------------------------------------------------------------------------
(* What lup, inv and gauss return of a regular system.                      *)

\* smls_linsolve_lup solves every regular system.
LEMMA LupSolves ==
  ASSUME NEW m \in Nat, m # 0, NEW M \in Vector(m * m), NEW b \in Vector(m), ~Singular(M, m)
  PROVE  LinsolveLup(M, b, m).ok /\ MatMul(M, LinsolveLup(M, b, m).x, m, m, 1) = b
<1>1. Solvable(Lup(M, m), m)
  BY SolvableWhereRegular
<1>2. Lup(M, m).ok
  BY <1>1 DEF Solvable
<1>3. LinsolveLup(M, b, m) = [ok |-> TRUE, x |-> Substituted(Lup(M, m), b, m)]
  BY <1>2 DEF LinsolveLup
<1> QED
  BY <1>1, <1>3, SubstitutedSolves

\* smls_mat_inv succeeds exactly on regular matrices.
LEMMA InvSucceeds ==
  ASSUME NEW m \in Nat, m # 0, NEW M \in Vector(m * m)
  PROVE  Inv(M, m).ok <=> ~Singular(M, m)
<1>1. Inv(M, m).ok <=> Solvable(Lup(M, m), m)
  BY DEF Inv
<1> QED
  BY <1>1, SolvableWhereRegular

\* smls_linsolve_gauss solves a square system whose leading blocks are regular,
\* and any system once it is regularized.
LEMMA GaussSolves ==
  ASSUME NEW h \in Nat, NEW w \in Nat, NEW M \in Vector(h * w), NEW b \in Vector(h), NEW alpha \in Number
  PROVE  LET x == LinsolveGauss(M, b, h, w, alpha)
             t == Tikhonov(M, b, h, w, alpha)
         IN  /\ Less(Zero, alpha) => MatMul(t.A, x, w, w, 1) = t.b
             /\ ~Less(Zero, alpha) /\ h = w /\ ~LeadingSingular(M, h) => MatMul(M, x, h, h, 1) = b
<1> DEFINE x == LinsolveGauss(M, b, h, w, alpha)
           t == Tikhonov(M, b, h, w, alpha)
<1>1. /\ alpha[1] \in Int /\ alpha[2] \in Nat /\ alpha[2] # 0 /\ IsNumber(alpha)
      /\ Zero[1] = 0 /\ Zero[2] = 1 /\ IsNumber(Zero)
  BY NumberParts DEF Number, Zero, Whole, IsNumber
<1>2. Less(Zero, alpha) <=> alpha[1] > 0
  BY <1>1 DEF Less
<1>3. LessEq(alpha, Zero) <=> ~(alpha[1] > 0)
  <2>1. Less(alpha, Zero) <=> alpha[1] < 0
    BY <1>1 DEF Less
  <2>2. alpha = Zero => alpha[1] = 0
    BY <1>1
  <2>3. alpha # Zero => alpha[1] # 0
    BY ZeroIsZero
  <2> QED
    BY <1>1, <2>1, <2>2, <2>3 DEF LessEq
<1>4. ASSUME Less(Zero, alpha)
      PROVE  MatMul(t.A, x, w, w, 1) = t.b
  <2>1. x = UpperTriangular(Triu(t.A, t.b, w).A, Triu(t.A, t.b, w).b, w)
    BY <1>2, <1>3, <1>4 DEF LinsolveGauss
  <2>2. alpha \in Positive
    BY <1>2, <1>4 DEF Positive
  <2>3. ~LeadingSingular(t.A, w)
    BY <2>2, RegularizedIsDefinite
  <2>4. t.A \in Vector(w * w) /\ t.b \in Vector(w)
    BY TikhonovCells
  <2> HIDE DEF t, x
  <2> QED
    BY <2>1, <2>3, <2>4, EliminationSolves
<1>5. ASSUME ~Less(Zero, alpha), h = w, ~LeadingSingular(M, h)
      PROVE  MatMul(M, x, h, h, 1) = b
  <2>1. x = UpperTriangular(Triu(M, b, h).A, Triu(M, b, h).b, h)
    BY <1>2, <1>3, <1>5 DEF LinsolveGauss
  <2> HIDE DEF x
  <2> QED
    BY <1>5, <2>1, EliminationSolves
<1> QED
  BY <1>4, <1>5

-----------------------------------------------------------------------------
(* Where a solver divides by zero: what it returns is not made of numbers. So what is*)
(* made of numbers solves.                                                           *)

\* The sum a triangular solver takes, of any fractions.
LEMMA RowSumFraction ==
  ASSUME NEW m \in Nat, NEW M \in FractionCells(m * m), NEW r \in Cells(m), NEW x \in FractionCells(m),
         NEW lo \in Nat, NEW hi \in Int, hi <= m - 1
  PROVE  RowSum(M, m, r, x, lo, hi) \in Fraction
<1> DEFINE e(j) == Mul(M[r * m + j], x[j])
           v == [j \in lo .. hi |-> e(j)]
           P(f) == f = [k \in lo - 1 .. hi |-> IF k < lo THEN Zero ELSE Add(f[k - 1], e(k))]
           z == CHOOSE f : P(f)
<1>1. RowSum(M, m, r, x, lo, hi) = IF hi < lo THEN Zero ELSE z[hi]
  BY DEF RowSum, SumOver, For
<1>2. v \in [lo .. hi -> Fraction]
  <2>1. ASSUME NEW j \in lo .. hi PROVE e(j) \in Fraction
    <3>1. j \in Cells(m) /\ r * m = m * r
      BY DEF Cells
    <3>2. m * r + j \in Cells(m * m)
      BY <3>1, CellOf
    <3>3. M[r * m + j] \in Fraction /\ x[j] \in Fraction
      BY <3>1, <3>2 DEF FractionCells
    <3> QED
      BY <3>3, Closed
  <2> QED
    BY <2>1
<1>3. \A k \in lo - 1 .. hi : ~(k < lo) => v[k] = e(k)
  OBVIOUS
<1> HIDE DEF e, v
<1>4. PICK s \in [lo - 1 .. hi -> Fraction] : Sums(s, v, lo, hi)
  BY <1>2, SumsExist
<1>5. P(s)
  <2>1. \A k \in lo - 1 .. hi : s[k] = IF k < lo THEN Zero ELSE Add(s[k - 1], e(k))
    BY <1>3, <1>4 DEF Sums
  <2> QED
    BY <2>1
<1> HIDE DEF P
<1>6. P(z)
  BY <1>5
<1> HIDE DEF z
<1>7. Sums(z, v, lo, hi)
  BY <1>3, <1>6 DEF P, Sums
<1>8. ~(hi < lo) => z[hi] = s[hi] /\ s[hi] \in Fraction
  <2>1. \A k \in lo - 1 .. hi : z[k] = s[k]
    BY <1>4, <1>7, SumsAgree
  <2> QED
    BY <1>4, <2>1
<1> QED
  BY <1>1, <1>8, ZeroIsNeutral

\* The rows that are solved have an element that is no number, or a diagonal to divide by.
UpperNumbersStage(M, m, s) ==
  {x \in FractionCells(m) : \A r \in Cells(m) : r >= m - 1 - s /\ IsNumber(x[r]) => M[r * m + r] \in Number \ {Zero}}

\* One row of the upper triangular solver: a zero divisor leaves no number, and what is
\* no number stays.
LEMMA UpperNumbersStep ==
  ASSUME NEW m \in Nat, NEW M \in FractionCells(m * m), NEW b \in FractionCells(m), NEW s \in Cells(m),
         NEW i, i = m - 1 - s, NEW x \in UpperNumbersStage(M, m, s - 1)
  PROVE  SolvedRow(M, b, m, x, i, i, m - 1) \in UpperNumbersStage(M, m, s)
<1> DEFINE d == M[i * m + i]
           p == Sub(b[i], RowSum(M, m, i, x, i, m - 1))
           y == [x EXCEPT ![i] = Div(p, d)]
<1>1. SolvedRow(M, b, m, x, i, i, m - 1) = y
  BY DEF SolvedRow
<1>2. i \in Cells(m) /\ i \in Nat /\ i = m - 1 - s /\ s \in Int
  BY DEF Cells
<1>3. x \in FractionCells(m)
  BY DEF UpperNumbersStage
<1>4. d \in Fraction
  <2>1. i * m = m * i /\ m * i + i \in Cells(m * m)
    BY <1>2, CellOf
  <2> QED
    BY <2>1 DEF FractionCells
<1>5. p \in Fraction
  <2>1. RowSum(M, m, i, x, i, m - 1) \in Fraction
    BY <1>2, <1>3, RowSumFraction
  <2>2. b[i] \in Fraction
    BY <1>2 DEF FractionCells
  <2> QED
    BY <2>1, <2>2, Closed
<1> HIDE DEF p
<1>6. Div(p, d) \in Fraction /\ (IsNumber(Div(p, d)) => d \in Number \ {Zero})
  BY <1>4, <1>5, DivClosed, DivNumber
<1>7. y \in FractionCells(m) /\ \A r \in Cells(m) : y[r] = IF r = i THEN Div(p, d) ELSE x[r]
  BY <1>2, <1>3, <1>6 DEF FractionCells
<1> HIDE DEF y
<1>8. ASSUME NEW r \in Cells(m), r >= m - 1 - s, IsNumber(y[r])
      PROVE  M[r * m + r] \in Number \ {Zero}
  <2>1. CASE r = i
    BY <1>6, <1>7, <1>8, <2>1
  <2>2. CASE r # i
    <3>1. r \in Int /\ r >= m - 1 - (s - 1)
      BY <1>2, <1>8, <2>2 DEF Cells
    <3> QED
      BY <1>7, <1>8, <2>2, <3>1 DEF UpperNumbersStage
  <2> QED
    BY <2>1, <2>2
<1> QED
  BY <1>1, <1>7, <1>8 DEF UpperNumbersStage

\* The loop of the upper triangular solver, likewise.
LEMMA UpperNumbersRuns ==
  ASSUME NEW m \in Nat, NEW M \in FractionCells(m * m), NEW b \in FractionCells(m)
  PROVE  UpperTriangular(M, b, m) \in UpperNumbersStage(M, m, m - 1)
<1> DEFINE lo == 0
           hi == m - 1
           start == Filled(m, Zero)
           B(x, i) == SolvedRow(M, b, m, x, m - 1 - i, m - 1 - i, m - 1)
           P(f) == f = [i \in lo - 1 .. hi |-> IF i < lo THEN start ELSE B(f[i - 1], i)]
           z == CHOOSE f : P(f)
           S == FractionCells(m)
           body == [q \in S \X Int |-> B(q[1], q[2])]
           Stage == [i \in lo - 1 .. hi |-> UpperNumbersStage(M, m, i)]
<1>1. UpperTriangular(M, b, m) = IF hi < lo THEN start ELSE z[hi]
  BY DEF UpperTriangular, For
<1>2. lo \in Int /\ hi \in Int /\ lo - 1 \in lo - 1 .. hi /\ hi \in lo - 1 .. hi /\ (hi < lo => hi = lo - 1)
  OBVIOUS
<1>3. start \in S /\ start \in UpperNumbersStage(M, m, lo - 1)
  <2>1. start \in S
    BY ZeroIsNeutral DEF Filled, FractionCells
  <2>2. \A r \in Cells(m) : ~(r >= m - 1 - (lo - 1))
    BY DEF Cells
  <2> HIDE DEF lo, start
  <2> QED
    BY <2>1, <2>2 DEF UpperNumbersStage
<1>4. ASSUME NEW i \in lo .. hi, NEW s \in UpperNumbersStage(M, m, i - 1)
      PROVE  B(s, i) \in UpperNumbersStage(M, m, i) /\ body[<<s, i>>] = B(s, i)
  <2>1. i \in Cells(m) /\ i \in Int
    BY DEF Cells
  <2>2. s \in S
    BY DEF UpperNumbersStage
  <2>3. B(s, i) \in UpperNumbersStage(M, m, i)
    BY <2>1, UpperNumbersStep
  <2> QED
    BY <2>1, <2>2, <2>3
<1>5. \A i \in lo - 1 .. hi : Stage[i] = UpperNumbersStage(M, m, i) /\ Stage[i] \subseteq S
  BY DEF UpperNumbersStage
<1>6. Stage[hi] = UpperNumbersStage(M, m, m - 1)
  BY <1>2, <1>5
<1> HIDE DEF Stage, body, start, lo, hi, B, S
<1>7. \A i \in lo .. hi : i \in lo - 1 .. hi /\ i - 1 \in lo - 1 .. hi /\ ~(i < lo)
  BY <1>2
<1>8. ASSUME NEW i \in lo .. hi, NEW s \in Stage[i - 1]
      PROVE  B(s, i) \in Stage[i] /\ body[<<s, i>>] = B(s, i)
  BY <1>4, <1>5, <1>7
<1>9. start \in Stage[lo - 1]
  BY <1>2, <1>3, <1>5
<1>10. PICK f : Runs(f, lo, hi, start, body) /\ \A i \in lo - 1 .. hi : f[i] \in Stage[i]
  <2>1. Leads(lo, hi, start, body, Stage)
    BY <1>8, <1>9 DEF Leads
  <2> QED
    BY <1>2, <1>3, <1>5, <2>1, LoopRuns
<1>11. P(f)
  <2>1. \A i \in lo - 1 .. hi : ~(i < lo) => body[<<f[i - 1], i>>] = B(f[i - 1], i)
    BY <1>2, <1>7, <1>8, <1>10
  <2> QED
    BY <1>10, <2>1 DEF Runs
<1> HIDE DEF P
<1>12. P(z)
  BY <1>11
<1> HIDE DEF z
<1>13. \A i \in lo - 1 .. hi : z[i] = IF i < lo THEN start ELSE B(z[i - 1], i)
  BY <1>12 DEF P
<1>14. \A i \in lo - 1 .. hi : z[i] \in Stage[i]
  <2>1. z[lo - 1] \in Stage[lo - 1]
    <3>1. lo - 1 \in lo - 1 .. hi /\ lo - 1 < lo
      BY <1>2
    <3>2. z[lo - 1] = start
      BY <1>13, <3>1
    <3> QED
      BY <1>9, <3>2
  <2>2. \A i \in lo .. hi : z[i - 1] \in Stage[i - 1] => z[i] \in Stage[i]
    BY <1>7, <1>8, <1>13
  <2> QED
    BY <1>2, <2>1, <2>2, StagesHold
<1> QED
  BY <1>1, <1>2, <1>6, <1>9, <1>14

\* An upper triangular system whose solution is made of numbers has no zero on its diagonal.
LEMMA UpperNumbers ==
  ASSUME NEW m \in Nat, NEW M \in FractionCells(m * m), NEW b \in FractionCells(m),
         MadeOfNumbers(UpperTriangular(M, b, m))
  PROVE  \A r \in Cells(m) : M[r * m + r] \in Number \ {Zero}
<1>1. UpperTriangular(M, b, m) \in UpperNumbersStage(M, m, m - 1)
  BY UpperNumbersRuns
<1>2. UpperTriangular(M, b, m) \in FractionCells(m)
  BY <1>1 DEF UpperNumbersStage
<1>3. \A r \in Cells(m) : IsNumber(UpperTriangular(M, b, m)[r])
  BY <1>2 DEF MadeOfNumbers, FractionCells
<1>4. \A r \in Cells(m) : r >= m - 1 - (m - 1)
  BY DEF Cells
<1> QED
  BY <1>1, <1>3, <1>4 DEF UpperNumbersStage

\* The inner loop of the substitutions, of any fractions.
LEMMA ReducedFraction ==
  ASSUME NEW m \in Nat, NEW LU \in FractionCells(m * m), NEW r \in Cells(m), NEW x \in FractionCells(m), NEW v \in Fraction,
         NEW lo \in Nat, NEW hi \in Int, hi <= m - 1, lo - 1 <= hi
  PROVE  Reduced(v, LU, m, r, x, lo, hi) \in Fraction
<1> DEFINE start == v
           B(w, j) == Sub(w, Mul(LU[m * r + j], x[j]))
           P(f) == f = [i \in lo - 1 .. hi |-> IF i < lo THEN start ELSE B(f[i - 1], i)]
           z == CHOOSE f : P(f)
           S == Fraction
           body == [q \in S \X Int |-> B(q[1], q[2])]
           Stage == [i \in lo - 1 .. hi |-> Fraction]
<1>1. Reduced(v, LU, m, r, x, lo, hi) = IF hi < lo THEN start ELSE z[hi]
  BY DEF Reduced, For
<1>2. lo \in Int /\ hi \in Int /\ lo - 1 \in lo - 1 .. hi /\ hi \in lo - 1 .. hi /\ (hi < lo => hi = lo - 1)
  OBVIOUS
<1>3. start \in S /\ start \in Fraction
  OBVIOUS
<1>4. ASSUME NEW i \in lo .. hi, NEW s \in Fraction
      PROVE  B(s, i) \in Fraction /\ body[<<s, i>>] = B(s, i)
  <2>1. i \in Cells(m) /\ i \in Int
    BY DEF Cells
  <2>2. m * r + i \in Cells(m * m)
    BY <2>1, CellOf
  <2>3. LU[m * r + i] \in Fraction /\ x[i] \in Fraction
    BY <2>1, <2>2 DEF FractionCells
  <2>4. B(s, i) \in Fraction
    BY <2>3, Closed
  <2> QED
    BY <2>1, <2>4
<1>5. \A i \in lo - 1 .. hi : Stage[i] = Fraction /\ Stage[i] \subseteq S
  OBVIOUS
<1>6. Stage[hi] = Fraction
  BY <1>2, <1>5
<1> HIDE DEF Stage, body, start, B, S
<1>7. \A i \in lo .. hi : i \in lo - 1 .. hi /\ i - 1 \in lo - 1 .. hi /\ ~(i < lo)
  BY <1>2
<1>8. ASSUME NEW i \in lo .. hi, NEW s \in Stage[i - 1]
      PROVE  B(s, i) \in Stage[i] /\ body[<<s, i>>] = B(s, i)
  BY <1>4, <1>5, <1>7
<1>9. start \in Stage[lo - 1]
  BY <1>2, <1>3, <1>5
<1>10. PICK f : Runs(f, lo, hi, start, body) /\ \A i \in lo - 1 .. hi : f[i] \in Stage[i]
  <2>1. Leads(lo, hi, start, body, Stage)
    BY <1>8, <1>9 DEF Leads
  <2> QED
    BY <1>2, <1>3, <1>5, <2>1, LoopRuns
<1>11. P(f)
  <2>1. \A i \in lo - 1 .. hi : ~(i < lo) => body[<<f[i - 1], i>>] = B(f[i - 1], i)
    BY <1>2, <1>7, <1>8, <1>10
  <2> QED
    BY <1>10, <2>1 DEF Runs
<1> HIDE DEF P
<1>12. P(z)
  BY <1>11
<1> HIDE DEF z
<1>13. \A i \in lo - 1 .. hi : z[i] = IF i < lo THEN start ELSE B(z[i - 1], i)
  BY <1>12 DEF P
<1>14. \A i \in lo - 1 .. hi : z[i] \in Stage[i]
  <2>1. z[lo - 1] \in Stage[lo - 1]
    <3>1. lo - 1 \in lo - 1 .. hi /\ lo - 1 < lo
      BY <1>2
    <3>2. z[lo - 1] = start
      BY <1>13, <3>1
    <3> QED
      BY <1>9, <3>2
  <2>2. \A i \in lo .. hi : z[i - 1] \in Stage[i - 1] => z[i] \in Stage[i]
    BY <1>7, <1>8, <1>13
  <2> QED
    BY <1>2, <2>1, <2>2, StagesHold
<1> QED
  BY <1>1, <1>2, <1>6, <1>9, <1>14

\* As UpperNumbersStage, for rows in the order of P.
BackwardNumbersStage(LU, P, m, s) ==
  {x \in FractionCells(m) : \A r \in Cells(m) : r >= m - 1 - s /\ IsNumber(x[r]) => LU[m * P[r] + r] # Zero}

\* One row of the backward substitution: a zero pivot leaves no number.
LEMMA BackwardNumbersStep ==
  ASSUME NEW m \in Nat, NEW LU \in FractionCells(m * m), NEW Q \in [Cells(m) -> Cells(m)], NEW s \in Cells(m),
         NEW i, i = m - 1 - s, NEW x \in BackwardNumbersStage(LU, Q, m, s - 1)
  PROVE  BackwardRow(LU, Q, m, x, i) \in BackwardNumbersStage(LU, Q, m, s)
<1> DEFINE d == LU[m * Q[i] + i]
           p == Reduced(x[i], LU, m, Q[i], x, i + 1, m - 1)
           y == [x EXCEPT ![i] = Div(p, d)]
<1>1. BackwardRow(LU, Q, m, x, i) = y
  BY DEF BackwardRow
<1>2. i \in Cells(m) /\ i \in Nat /\ i = m - 1 - s /\ s \in Int /\ Q[i] \in Cells(m) /\ i + 1 \in Nat /\ i + 1 - 1 <= m - 1
  BY DEF Cells
<1>3. x \in FractionCells(m) /\ x[i] \in Fraction
  BY <1>2 DEF BackwardNumbersStage, FractionCells
<1>4. d \in Fraction
  <2>1. m * Q[i] + i \in Cells(m * m)
    BY <1>2, CellOf
  <2> QED
    BY <2>1 DEF FractionCells
<1>5. p \in Fraction
  <2> DEFINE q == Q[i]
             v == x[i]
             lo == i + 1
             hi == m - 1
  <2>1. q \in Cells(m) /\ v \in Fraction /\ lo \in Nat /\ hi \in Int /\ hi <= m - 1 /\ lo - 1 <= hi
    BY <1>2, <1>3
  <2> HIDE DEF q, v, lo, hi
  <2>2. Reduced(v, LU, m, q, x, lo, hi) \in Fraction
    BY <1>3, <2>1, ReducedFraction
  <2> QED
    BY <2>2 DEF q, v, lo, hi
<1> HIDE DEF p
<1>6. Div(p, d) \in Fraction /\ (IsNumber(Div(p, d)) => d # Zero)
  BY <1>4, <1>5, DivClosed, DivNumber
<1>7. y \in FractionCells(m) /\ \A r \in Cells(m) : y[r] = IF r = i THEN Div(p, d) ELSE x[r]
  BY <1>2, <1>3, <1>6 DEF FractionCells
<1> HIDE DEF y
<1>8. ASSUME NEW r \in Cells(m), r >= m - 1 - s, IsNumber(y[r])
      PROVE  LU[m * Q[r] + r] # Zero
  <2>1. CASE r = i
    BY <1>6, <1>7, <1>8, <2>1
  <2>2. CASE r # i
    <3>1. r \in Int /\ r >= m - 1 - (s - 1)
      BY <1>2, <1>8, <2>2 DEF Cells
    <3> QED
      BY <1>7, <1>8, <2>2, <3>1 DEF BackwardNumbersStage
  <2> QED
    BY <2>1, <2>2
<1> QED
  BY <1>1, <1>7, <1>8 DEF BackwardNumbersStage

\* The loop of the backward substitution, likewise.
LEMMA BackwardNumbersRuns ==
  ASSUME NEW m \in Nat, NEW LU \in FractionCells(m * m), NEW Q \in [Cells(m) -> Cells(m)], NEW y \in FractionCells(m)
  PROVE  Backward(LU, Q, y, m) \in BackwardNumbersStage(LU, Q, m, m - 1)
<1> DEFINE lo == 0
           hi == m - 1
           start == y
           B(x, i) == BackwardRow(LU, Q, m, x, m - 1 - i)
           P(f) == f = [i \in lo - 1 .. hi |-> IF i < lo THEN start ELSE B(f[i - 1], i)]
           z == CHOOSE f : P(f)
           S == FractionCells(m)
           body == [q \in S \X Int |-> B(q[1], q[2])]
           Stage == [i \in lo - 1 .. hi |-> BackwardNumbersStage(LU, Q, m, i)]
<1>1. Backward(LU, Q, y, m) = IF hi < lo THEN start ELSE z[hi]
  BY DEF Backward, For
<1>2. lo \in Int /\ hi \in Int /\ lo - 1 \in lo - 1 .. hi /\ hi \in lo - 1 .. hi /\ (hi < lo => hi = lo - 1)
  OBVIOUS
<1>3. start \in S /\ start \in BackwardNumbersStage(LU, Q, m, lo - 1)
  <2>1. \A r \in Cells(m) : ~(r >= m - 1 - (lo - 1))
    BY DEF Cells
  <2> HIDE DEF lo
  <2> QED
    BY <2>1 DEF BackwardNumbersStage
<1>4. ASSUME NEW i \in lo .. hi, NEW s \in BackwardNumbersStage(LU, Q, m, i - 1)
      PROVE  B(s, i) \in BackwardNumbersStage(LU, Q, m, i) /\ body[<<s, i>>] = B(s, i)
  <2>1. i \in Cells(m) /\ i \in Int
    BY DEF Cells
  <2>2. s \in S
    BY DEF BackwardNumbersStage
  <2>3. B(s, i) \in BackwardNumbersStage(LU, Q, m, i)
    BY <2>1, BackwardNumbersStep
  <2> QED
    BY <2>1, <2>2, <2>3
<1>5. \A i \in lo - 1 .. hi : Stage[i] = BackwardNumbersStage(LU, Q, m, i) /\ Stage[i] \subseteq S
  BY DEF BackwardNumbersStage
<1>6. Stage[hi] = BackwardNumbersStage(LU, Q, m, m - 1)
  BY <1>2, <1>5
<1> HIDE DEF Stage, body, start, lo, hi, B, S
<1>7. \A i \in lo .. hi : i \in lo - 1 .. hi /\ i - 1 \in lo - 1 .. hi /\ ~(i < lo)
  BY <1>2
<1>8. ASSUME NEW i \in lo .. hi, NEW s \in Stage[i - 1]
      PROVE  B(s, i) \in Stage[i] /\ body[<<s, i>>] = B(s, i)
  BY <1>4, <1>5, <1>7
<1>9. start \in Stage[lo - 1]
  BY <1>2, <1>3, <1>5
<1>10. PICK f : Runs(f, lo, hi, start, body) /\ \A i \in lo - 1 .. hi : f[i] \in Stage[i]
  <2>1. Leads(lo, hi, start, body, Stage)
    BY <1>8, <1>9 DEF Leads
  <2> QED
    BY <1>2, <1>3, <1>5, <2>1, LoopRuns
<1>11. P(f)
  <2>1. \A i \in lo - 1 .. hi : ~(i < lo) => body[<<f[i - 1], i>>] = B(f[i - 1], i)
    BY <1>2, <1>7, <1>8, <1>10
  <2> QED
    BY <1>10, <2>1 DEF Runs
<1> HIDE DEF P
<1>12. P(z)
  BY <1>11
<1> HIDE DEF z
<1>13. \A i \in lo - 1 .. hi : z[i] = IF i < lo THEN start ELSE B(z[i - 1], i)
  BY <1>12 DEF P
<1>14. \A i \in lo - 1 .. hi : z[i] \in Stage[i]
  <2>1. z[lo - 1] \in Stage[lo - 1]
    <3>1. lo - 1 \in lo - 1 .. hi /\ lo - 1 < lo
      BY <1>2
    <3>2. z[lo - 1] = start
      BY <1>13, <3>1
    <3> QED
      BY <1>9, <3>2
  <2>2. \A i \in lo .. hi : z[i - 1] \in Stage[i - 1] => z[i] \in Stage[i]
    BY <1>7, <1>8, <1>13
  <2> QED
    BY <1>2, <2>1, <2>2, StagesHold
<1> QED
  BY <1>1, <1>2, <1>6, <1>9, <1>14

\* Where lup reports no error and the solution is made of numbers, the pivots can all
\* be divided by, the last one too.
LEMMA NumbersAreSolvable ==
  ASSUME NEW m \in Nat, m # 0, NEW M \in Vector(m * m), NEW b \in Vector(m), Lup(M, m).ok,
         MadeOfNumbers(Substituted(Lup(M, m), b, m))
  PROVE  Solvable(Lup(M, m), m)
<1> DEFINE f == Lup(M, m)
           LU == f.LU
           Q == f.P
           y == Forward(LU, Q, b, m)
           x == Backward(LU, Q, y, m)
<1>1. LU \in Vector(m * m) /\ Q \in [Cells(m) -> Cells(m)]
  BY LupFactors DEF Permutation
<1>2. Substituted(f, b, m) = x
  BY DEF Substituted
<1> HIDE DEF f, LU, Q
<1>3. y \in ForwardStage(LU, Q, b, m, m - 1)
  BY <1>1, ForwardRuns
<1> HIDE DEF y
<1>4. y \in FractionCells(m)
  <2>1. \A r \in Cells(m) : r <= m - 1
    BY DEF Cells
  <2>2. y \in [Cells(m) -> Number \cup {Unset}] /\ \A r \in Cells(m) : y[r] \in Number
    BY <1>3, <2>1 DEF ForwardStage
  <2> QED
    BY <2>2 DEF FractionCells, Number
<1>5. LU \in FractionCells(m * m)
  BY <1>1 DEF FractionCells, Vector, Number
<1>6. x \in BackwardNumbersStage(LU, Q, m, m - 1)
  BY <1>1, <1>4, <1>5, BackwardNumbersRuns
<1> HIDE DEF x
<1>7. x \in FractionCells(m) /\ \A r \in Cells(m) : IsNumber(x[r]) => LU[m * Q[r] + r] # Zero
  <2>1. \A r \in Cells(m) : r >= m - 1 - (m - 1)
    BY DEF Cells
  <2> QED
    BY <1>6, <2>1 DEF BackwardNumbersStage
<1>8. \A r \in Cells(m) : IsNumber(x[r])
  BY <1>2, <1>7 DEF MadeOfNumbers, FractionCells, f
<1> QED
  BY <1>7, <1>8 DEF Solvable, f, LU, Q

\* smls_linsolve_lup returns solutions, wherever it returns numbers.
LEMMA LupNumbersSolve ==
  ASSUME NEW m \in Nat, m # 0, NEW M \in Vector(m * m), NEW b \in Vector(m),
         LinsolveLup(M, b, m).ok, MadeOfNumbers(LinsolveLup(M, b, m).x)
  PROVE  /\ LinsolveLup(M, b, m).x \in Vector(m)
         /\ \A r \in Cells(m) : Total(Along(M, m, r, LinsolveLup(M, b, m).x), 0, m - 1) = b[r]
         /\ MatMul(M, LinsolveLup(M, b, m).x, m, m, 1) = b
<1>1. LinsolveLup(M, b, m).ok = Lup(M, m).ok /\
      LinsolveLup(M, b, m).x = IF Lup(M, m).ok THEN Substituted(Lup(M, m), b, m) ELSE Filled(m, Unset)
  BY DEF LinsolveLup
<1>2. Lup(M, m).ok /\ LinsolveLup(M, b, m).x = Substituted(Lup(M, m), b, m)
  BY <1>1
<1>3. Solvable(Lup(M, m), m)
  BY <1>2, NumbersAreSolvable
<1> QED
  BY <1>2, <1>3, SubstitutedSolves

\* The elimination met a pivot that was zero, and the row it lies in has kept it.
Stuck(s, m, j) == \E r \in Cells(m) : r <= j /\ s.A[r * m + r] = Zero

\* A pivot row that is done is not changed any more.
LEMMA StuckStays ==
  ASSUME NEW m \in Nat, NEW s, NEW j \in Cells(m), Stuck(s, m, j - 1)
  PROVE  Stuck(TriuColumn(s, m, j), m, j)
<1>1. PICK r \in Cells(m) : r <= j - 1 /\ s.A[r * m + r] = Zero
  BY DEF Stuck
<1>2. r <= j /\ ~(r > j)
  BY <1>1 DEF Cells
<1>3. TriuColumn(s, m, j).A[r * m + r] = Zero
  BY <1>1, <1>2, TriuChanges
<1> QED
  BY <1>2, <1>3 DEF Stuck

\* The elimination reaches its last stage, or meets a zero pivot.
LEMMA TriuNumbersRuns ==
  ASSUME NEW m \in Nat, NEW M \in Vector(m * m), NEW b \in Vector(m)
  PROVE  /\ Triu(M, b, m) \in System(m)
         /\ Triu(M, b, m) \in TriuStage(M, b, m, m - 1) \/ Stuck(Triu(M, b, m), m, m - 1)
<1> DEFINE lo == 0
           hi == m - 1
           start == [A |-> M, b |-> b]
           B(s, j) == TriuColumn(s, m, j)
           P(f) == f = [i \in lo - 1 .. hi |-> IF i < lo THEN start ELSE B(f[i - 1], i)]
           z == CHOOSE f : P(f)
           S == System(m)
           W(j) == {s \in System(m) : s \in TriuStage(M, b, m, j) \/ Stuck(s, m, j)}
           body == [q \in S \X Int |-> B(q[1], q[2])]
           Stage == [i \in lo - 1 .. hi |-> W(i)]
<1> SUFFICES Triu(M, b, m) \in W(m - 1)
  OBVIOUS
<1>1. Triu(M, b, m) = IF hi < lo THEN start ELSE z[hi]
  BY DEF Triu, For
<1>2. lo \in Int /\ hi \in Int /\ lo - 1 \in lo - 1 .. hi /\ hi \in lo - 1 .. hi /\ (hi < lo => hi = lo - 1)
  OBVIOUS
<1>3. start \in S /\ start \in W(lo - 1)
  <2>1. start \in System(m) /\ start.A = M /\ start.b = b
    BY DEF System, Vector, Number
  <2>2. \A k \in Cells(m) : ~(k <= lo - 1)
    BY DEF Cells
  <2> HIDE DEF lo
  <2>3. start \in TriuStage(M, b, m, lo - 1)
    BY <2>1, <2>2 DEF TriuStage
  <2> QED
    BY <2>1, <2>3
<1>4. ASSUME NEW i \in lo .. hi, NEW s \in W(i - 1)
      PROVE  B(s, i) \in W(i) /\ body[<<s, i>>] = B(s, i)
  <2>1. i \in Cells(m) /\ i \in Int /\ i <= i
    BY DEF Cells
  <2>2. s \in S /\ B(s, i) \in S
    BY <2>1, TriuType
  <2>3. B(s, i) \in TriuStage(M, b, m, i) \/ Stuck(B(s, i), m, i)
    <3>1. CASE Stuck(s, m, i - 1)
      BY <2>1, <3>1, StuckStays
    <3>2. CASE s \in TriuStage(M, b, m, i - 1) /\ s.A[i * m + i] # Zero
      BY <2>1, <3>2, TriuStep
    <3>3. CASE s.A[i * m + i] = Zero
      <4>1. ~(i > i)
        BY <2>1
      <4>2. B(s, i).A[i * m + i] = Zero
        BY <2>1, <3>3, <4>1, TriuChanges
      <4> QED
        BY <2>1, <4>2 DEF Stuck
    <3> QED
      BY <3>1, <3>2, <3>3
  <2> QED
    BY <2>1, <2>2, <2>3
<1>5. \A i \in lo - 1 .. hi : Stage[i] = W(i) /\ Stage[i] \subseteq S
  OBVIOUS
<1>6. Stage[hi] = W(m - 1)
  BY <1>2, <1>5
<1> HIDE DEF W
<1> HIDE DEF Stage, body, start, lo, hi, B, S
<1>7. \A i \in lo .. hi : i \in lo - 1 .. hi /\ i - 1 \in lo - 1 .. hi /\ ~(i < lo)
  BY <1>2
<1>8. ASSUME NEW i \in lo .. hi, NEW s \in Stage[i - 1]
      PROVE  B(s, i) \in Stage[i] /\ body[<<s, i>>] = B(s, i)
  BY <1>4, <1>5, <1>7
<1>9. start \in Stage[lo - 1]
  BY <1>2, <1>3, <1>5
<1>10. PICK f : Runs(f, lo, hi, start, body) /\ \A i \in lo - 1 .. hi : f[i] \in Stage[i]
  <2>1. Leads(lo, hi, start, body, Stage)
    BY <1>8, <1>9 DEF Leads
  <2> QED
    BY <1>2, <1>3, <1>5, <2>1, LoopRuns
<1>11. P(f)
  <2>1. \A i \in lo - 1 .. hi : ~(i < lo) => body[<<f[i - 1], i>>] = B(f[i - 1], i)
    BY <1>2, <1>7, <1>8, <1>10
  <2> QED
    BY <1>10, <2>1 DEF Runs
<1> HIDE DEF P
<1>12. P(z)
  BY <1>11
<1> HIDE DEF z
<1>13. \A i \in lo - 1 .. hi : z[i] = IF i < lo THEN start ELSE B(z[i - 1], i)
  BY <1>12 DEF P
<1>14. \A i \in lo - 1 .. hi : z[i] \in Stage[i]
  <2>1. z[lo - 1] \in Stage[lo - 1]
    <3>1. lo - 1 \in lo - 1 .. hi /\ lo - 1 < lo
      BY <1>2
    <3>2. z[lo - 1] = start
      BY <1>13, <3>1
    <3> QED
      BY <1>9, <3>2
  <2>2. \A i \in lo .. hi : z[i - 1] \in Stage[i - 1] => z[i] \in Stage[i]
    BY <1>7, <1>8, <1>13
  <2> QED
    BY <1>2, <2>1, <2>2, StagesHold
<1> QED
  BY <1>1, <1>2, <1>6, <1>9, <1>14

\* Elimination without row exchanges solves the system wherever it ends in numbers.
LEMMA EliminationNumbersSolve ==
  ASSUME NEW m \in Nat, NEW M \in Vector(m * m), NEW b \in Vector(m),
         MadeOfNumbers(UpperTriangular(Triu(M, b, m).A, Triu(M, b, m).b, m))
  PROVE  MatMul(M, UpperTriangular(Triu(M, b, m).A, Triu(M, b, m).b, m), m, m, 1) = b
<1> DEFINE s == Triu(M, b, m)
           x == UpperTriangular(s.A, s.b, m)
<1>1. s \in System(m) /\ (s \in TriuStage(M, b, m, m - 1) \/ Stuck(s, m, m - 1))
  BY TriuNumbersRuns
<1>2. MadeOfNumbers(x)
  OBVIOUS
<1> HIDE DEF s
<1>3. s.A \in FractionCells(m * m) /\ s.b \in FractionCells(m)
  BY <1>1 DEF System, FractionCells
<1>4. \A r \in Cells(m) : s.A[r * m + r] # Zero
  BY <1>2, <1>3, UpperNumbers
<1>5. s \in TriuStage(M, b, m, m - 1)
  BY <1>1, <1>4 DEF Stuck
<1>6. s.A \in Vector(m * m) /\ s.b \in Vector(m)
  BY <1>5 DEF TriuStage
<1>7. \A r, k \in Cells(m) : k < r => s.A[r * m + k] = Zero
  <2>1. \A k \in Cells(m) : k <= m - 1
    BY DEF Cells
  <2> QED
    BY <1>5, <2>1 DEF TriuStage
<1>8. x \in Vector(m) /\ \A r \in Cells(m) : Total(Along(s.A, m, r, x), 0, m - 1) = s.b[r]
  BY <1>4, <1>6, <1>7, UpperSolves
<1> HIDE DEF x
<1>9. Solves([A |-> M, b |-> b], m, x)
  BY <1>5, <1>8 DEF TriuStage, Solves
<1>10. \A r \in Cells(m) : Total(Along(M, m, r, x), 0, m - 1) = b[r]
  BY <1>9 DEF Solves
<1>11. b = [r \in Cells(m) |-> b[r]]
  BY DEF Vector
<1> QED
  BY <1>8, <1>10, <1>11, MatVec DEF x, s

\* smls_linsolve_gauss: a solution made of numbers is one, of the system or of the
\* regularized one.
LEMMA GaussNumbersSolve ==
  ASSUME NEW h \in Nat, NEW w \in Nat, NEW M \in Vector(h * w), NEW b \in Vector(h), NEW alpha \in Number,
         MadeOfNumbers(LinsolveGauss(M, b, h, w, alpha))
  PROVE  LET x == LinsolveGauss(M, b, h, w, alpha)
             t == Tikhonov(M, b, h, w, alpha)
         IN  IF LessEq(alpha, Zero) /\ h = w THEN MatMul(M, x, h, h, 1) = b ELSE MatMul(t.A, x, w, w, 1) = t.b
<1> DEFINE x == LinsolveGauss(M, b, h, w, alpha)
           t == Tikhonov(M, b, h, w, alpha)
<1>1. CASE LessEq(alpha, Zero) /\ h = w
  <2>1. x = UpperTriangular(Triu(M, b, h).A, Triu(M, b, h).b, h)
    BY <1>1 DEF LinsolveGauss
  <2>2. MatMul(M, UpperTriangular(Triu(M, b, h).A, Triu(M, b, h).b, h), h, h, 1) = b
    BY <1>1, <2>1, EliminationNumbersSolve
  <2> QED
    BY <1>1, <2>1, <2>2
<1>2. CASE ~(LessEq(alpha, Zero) /\ h = w)
  <2>1. x = UpperTriangular(Triu(t.A, t.b, w).A, Triu(t.A, t.b, w).b, w)
    BY <1>2 DEF LinsolveGauss
  <2>2. t.A \in Vector(w * w) /\ t.b \in Vector(w)
    BY TikhonovCells
  <2> HIDE DEF t
  <2>3. MatMul(t.A, UpperTriangular(Triu(t.A, t.b, w).A, Triu(t.A, t.b, w).b, w), w, w, 1) = t.b
    BY <2>1, <2>2, EliminationNumbersSolve
  <2> QED
    BY <1>2, <2>1, <2>3 DEF t
<1> QED
  BY <1>1, <1>2

-----------------------------------------------------------------------------
(* The Lyapunov equation (dlyap): its matrix is one less the Kronecker product.*)

\* A number or storage nobody has written.
Stored == Number \cup {Unset}

\* The cell of row p, column q in block k, l.
InBlock(N, m, k, l, p, q) == At(N, m * m, m * k + p, m * l + q)

\* Blocks up to c hold W times an element of W.
KroneckerStage(W, m, c) ==
  {N \in [Cells((m * m) * (m * m)) -> Stored] :
     \A k, l, p, q \in Cells(m) : m * k + l <= c => InBlock(N, m, k, l, p, q) = Mul(At(W, m, k, l), At(W, m, p, q))}

\* The iteration for block c.
KroneckerCell(N, W, m, c) ==
  Insert(N, LyapunovBlock(W, m, c \div m, c % m), m, m, m * m, m * (c \div m), m * (c % m))

\* Which rows block k has.
LEMMA BlockRows ==
  ASSUME NEW m \in Nat, NEW k \in Cells(m), NEW p \in Cells(m), NEW g \in Cells(m)
  PROVE  /\ m * k + p \in Cells(m * m)
         /\ m * k + p \in m * g .. m * g + m - 1 <=> k = g
         /\ m * k + p - m * k = p
<1>1. m * k + p \in Cells(m * m) /\ m * k + p \in Int
  BY CellOf
<1>2. m \in Int /\ k \in Int /\ p \in Int /\ g \in Int /\ 0 <= p /\ p <= m - 1 /\ m * k \in Int /\ m * g \in Int
  BY DEF Cells
<1>3. k = g => m * k + p \in m * g .. m * g + m - 1
  BY <1>2
<1>4. ASSUME m * k + p \in m * g .. m * g + m - 1 PROVE k = g
  <2> DEFINE o == m * k
             a == m * g
             t == o + p - a
  <2>1. t \in 0 .. m - 1 /\ o + p = a + t
    BY <1>2, <1>4
  <2> HIDE DEF t
  <2>2. (m * g + t) \div m = g /\ (m * k + p) \div m = k
    <3>1. p \in 0 .. m - 1
      BY DEF Cells
    <3> QED
      BY <1>2, <2>1, <3>1, DivModUnique
  <2> QED
    BY <2>1, <2>2
<1> QED
  BY <1>1, <1>2, <1>3, <1>4

\* One block of the loop of dlyap.
LEMMA KroneckerStep ==
  ASSUME NEW m \in Nat, NEW W \in Matrices(m, m), NEW c \in Cells(m * m), NEW N \in KroneckerStage(W, m, c - 1)
  PROVE  KroneckerCell(N, W, m, c) \in KroneckerStage(W, m, c)
<1> DEFINE g == c \div m
           e == c % m
           C == LyapunovBlock(W, m, g, e)
           nn == m * m
           Z == Insert(N, C, m, m, nn, m * g, m * e)
<1>1. g \in Cells(m) /\ e \in Cells(m) /\ c = m * g + e
  BY PartsOf
<1>2. KroneckerCell(N, W, m, c) = Z
  BY DEF KroneckerCell
<1> HIDE DEF g, e
<1>3. \A p, q \in Cells(m) : At(C, m, p, q) = Mul(At(W, m, g, e), At(W, m, p, q)) /\ At(C, m, p, q) \in Number
  <2> TAKE p, q \in Cells(m)
  <2>1. m * p + q \in Cells(m * m) /\ DOMAIN W = Cells(m * m)
    BY CellOf DEF Matrices, Vector
  <2>2. At(C, m, p, q) = Mul(At(W, m, g, e), At(W, m, p, q))
    BY <2>1 DEF LyapunovBlock, Scaled, At
  <2>3. At(W, m, g, e) \in Number /\ At(W, m, p, q) \in Number
    BY <1>1, AtNumber
  <2> QED
    BY <2>2, <2>3, NumbersClosed
<1>4. C \in [Cells(m * m) -> Stored]
  <2>1. C = [x \in Cells(m * m) |-> C[x]]
    BY DEF LyapunovBlock, Scaled, Matrices, Vector
  <2> HIDE DEF C
  <2>2. C \in Matrices(m, m)
    BY <1>3, <2>1, MatrixByCells
  <2> QED
    BY <2>2 DEF Matrices, Vector, Stored
<1> HIDE DEF C
<1>5. N \in [Cells(nn * nn) -> Stored]
  BY DEF KroneckerStage
<1>6. BlockIn(nn, nn, m * g, m * e, m, m)
  <2>1. \A k \in Cells(m) : m * k \in Nat /\ m * k + m <= m * m
    <3> TAKE k \in Cells(m)
    <3>1. k \in Nat /\ k + 1 <= m
      BY DEF Cells
    <3>2. m * (k + 1) <= m * m
      BY <3>1
    <3> QED
      BY <3>1, <3>2
  <2>2. nn \in Nat
    OBVIOUS
  <2> QED
    BY <1>1, <2>1, <2>2 DEF BlockIn
<1>7. Z \in [Cells(nn * nn) -> Stored] /\ InsertGives(Z, N, C, nn, nn, m * g, m * e, m, m)
  BY <1>4, <1>5, <1>6, InsertCells
<1> HIDE DEF Z
<1>8. ASSUME NEW k \in Cells(m), NEW l \in Cells(m), NEW p \in Cells(m), NEW q \in Cells(m), m * k + l <= c
      PROVE  InBlock(Z, m, k, l, p, q) = Mul(At(W, m, k, l), At(W, m, p, q))
  <2> DEFINE r == m * k + p
             t == m * l + q
  <2>1. r \in Cells(nn) /\ t \in Cells(nn) /\ (r \in m * g .. m * g + m - 1 <=> k = g) /\ (t \in m * e .. m * e + m - 1 <=> l = e)
    BY <1>1, BlockRows
  <2>2. At(Z, nn, r, t) = IF k = g /\ l = e THEN At(C, m, r - m * g, t - m * e) ELSE At(N, nn, r, t)
    BY <1>7, <2>1 DEF InsertGives
  <2>3. CASE k = g /\ l = e
    <3>1. r - m * g = p /\ t - m * e = q
      BY <1>1, <2>3, BlockRows
    <3> QED
      BY <1>3, <2>2, <2>3, <3>1 DEF InBlock
  <2>4. CASE ~(k = g /\ l = e)
    <3>1. (m * k + l) \div m = k /\ (m * k + l) % m = l /\ m * k + l \in Cells(m * m)
      BY CellOf
    <3>2. m * k + l # c
      BY <2>4, <3>1 DEF g, e
    <3>3. m * k + l <= c - 1
      <4>1. m * k + l \in Int /\ c \in Int
        BY <3>1 DEF Cells
      <4> QED
        BY <1>8, <3>2, <4>1
    <3>4. InBlock(N, m, k, l, p, q) = Mul(At(W, m, k, l), At(W, m, p, q))
      BY <3>3 DEF KroneckerStage
    <3> QED
      BY <2>2, <2>4, <3>4 DEF InBlock
  <2> QED
    BY <2>3, <2>4
<1> QED
  BY <1>2, <1>7, <1>8 DEF KroneckerStage

\* All blocks.
Kronecker(W, m) ==
  For(0, m * m - 1,
      LAMBDA N, c : Insert(N, LyapunovBlock(W, m, c \div m, c % m), m, m, m * m, m * (c \div m), m * (c % m)),
      Filled((m * m) * (m * m), Unset))

\* The loop of dlyap fills in the Kronecker product of W with itself.
LEMMA KroneckerRuns ==
  ASSUME NEW m \in Nat, NEW W \in Matrices(m, m)
  PROVE  Kronecker(W, m) \in KroneckerStage(W, m, m * m - 1)
<1> DEFINE lo == 0
           hi == m * m - 1
           start == Filled((m * m) * (m * m), Unset)
           B(s, c) == KroneckerCell(s, W, m, c)
           P(f) == f = [i \in lo - 1 .. hi |-> IF i < lo THEN start ELSE B(f[i - 1], i)]
           z == CHOOSE f : P(f)
           S == [Cells((m * m) * (m * m)) -> Stored]
           body == [q \in S \X Int |-> B(q[1], q[2])]
           Stage == [i \in lo - 1 .. hi |-> KroneckerStage(W, m, i)]
<1>1. Kronecker(W, m) = IF hi < lo THEN start ELSE z[hi]
  BY DEF Kronecker, For, KroneckerCell
<1>2. m * m \in Nat
  OBVIOUS
<1>3. lo \in Int /\ hi \in Int /\ lo - 1 \in lo - 1 .. hi /\ hi \in lo - 1 .. hi /\ (hi < lo => hi = lo - 1)
  BY <1>2
<1>4. start \in S /\ start \in KroneckerStage(W, m, lo - 1)
  <2>1. start \in S
    BY DEF Filled, Stored
  <2>2. \A k, l \in Cells(m) : ~(m * k + l <= lo - 1)
    <3> TAKE k, l \in Cells(m)
    <3>1. m * k + l \in Cells(m * m)
      BY CellOf
    <3> QED
      BY <3>1 DEF Cells
  <2> HIDE DEF lo, start
  <2> QED
    BY <2>1, <2>2 DEF KroneckerStage
<1>5. ASSUME NEW i \in lo .. hi, NEW s \in KroneckerStage(W, m, i - 1)
      PROVE  B(s, i) \in KroneckerStage(W, m, i) /\ body[<<s, i>>] = B(s, i)
  <2>1. i \in Cells(m * m) /\ i \in Int
    BY <1>3 DEF Cells
  <2>2. s \in S
    BY DEF KroneckerStage
  <2>3. B(s, i) \in KroneckerStage(W, m, i)
    BY <2>1, KroneckerStep
  <2> QED
    BY <2>1, <2>2, <2>3
<1>6. \A i \in lo - 1 .. hi : Stage[i] = KroneckerStage(W, m, i) /\ Stage[i] \subseteq S
  BY DEF KroneckerStage
<1>7. Stage[hi] = KroneckerStage(W, m, m * m - 1)
  BY <1>3, <1>6
<1> HIDE DEF Stage, body, start, lo, hi, B, S
<1>8. \A i \in lo .. hi : i \in lo - 1 .. hi /\ i - 1 \in lo - 1 .. hi /\ ~(i < lo)
  BY <1>3
<1>9. ASSUME NEW i \in lo .. hi, NEW s \in Stage[i - 1]
      PROVE  B(s, i) \in Stage[i] /\ body[<<s, i>>] = B(s, i)
  BY <1>5, <1>6, <1>8
<1>10. start \in Stage[lo - 1]
  BY <1>3, <1>4, <1>6
<1>11. PICK f : Runs(f, lo, hi, start, body) /\ \A i \in lo - 1 .. hi : f[i] \in Stage[i]
  <2>1. Leads(lo, hi, start, body, Stage)
    BY <1>9, <1>10 DEF Leads
  <2> QED
    BY <1>3, <1>4, <1>6, <2>1, LoopRuns
<1>12. P(f)
  <2>1. \A i \in lo - 1 .. hi : ~(i < lo) => body[<<f[i - 1], i>>] = B(f[i - 1], i)
    BY <1>3, <1>8, <1>9, <1>11
  <2> QED
    BY <1>11, <2>1 DEF Runs
<1> HIDE DEF P
<1>13. P(z)
  BY <1>12
<1> HIDE DEF z
<1>14. \A i \in lo - 1 .. hi : z[i] = IF i < lo THEN start ELSE B(z[i - 1], i)
  BY <1>13 DEF P
<1>15. \A i \in lo - 1 .. hi : z[i] \in Stage[i]
  <2>1. z[lo - 1] \in Stage[lo - 1]
    <3>1. lo - 1 \in lo - 1 .. hi /\ lo - 1 < lo
      BY <1>3
    <3>2. z[lo - 1] = start
      BY <1>14, <3>1
    <3> QED
      BY <1>10, <3>2
  <2>2. \A i \in lo .. hi : z[i - 1] \in Stage[i - 1] => z[i] \in Stage[i]
    BY <1>8, <1>9, <1>14
  <2> QED
    BY <1>3, <2>1, <2>2, StagesHold
<1> QED
  BY <1>1, <1>3, <1>7, <1>10, <1>15

\* The system dlyap hands to lup.
LessKronecker(W, m) ==
  [c \in Cells((m * m) * (m * m)) |->
     IF c \div (m * m) = c % (m * m) THEN Add(Neg(Kronecker(W, m)[c]), One) ELSE Neg(Kronecker(W, m)[c])]

\* Its negative with one added on the diagonal, cell by cell.
LEMMA LessKroneckerCells ==
  ASSUME NEW m \in Nat, NEW W \in Matrices(m, m), NEW d, d = m * m
  PROVE  /\ \A k, l, p, q \in Cells(m) : At(Kronecker(W, m), d, m * k + p, m * l + q) = Mul(At(W, m, k, l), At(W, m, p, q))
         /\ Kronecker(W, m) \in Matrices(d, d) /\ LessKronecker(W, m) \in Matrices(d, d)
         /\ \A r, c \in Cells(d) :
              At(LessKronecker(W, m), d, r, c) =
                IF r = c THEN Add(Neg(At(Kronecker(W, m), d, r, c)), One) ELSE Neg(At(Kronecker(W, m), d, r, c))
<1> DEFINE K == Kronecker(W, m)
           I == LessKronecker(W, m)
<1>1. K \in KroneckerStage(W, m, m * m - 1)
  BY KroneckerRuns
<1> HIDE DEF K
<1>2. d \in Nat
  OBVIOUS
<1>3. ASSUME NEW k \in Cells(m), NEW l \in Cells(m), NEW p \in Cells(m), NEW q \in Cells(m)
      PROVE  At(K, d, m * k + p, m * l + q) = Mul(At(W, m, k, l), At(W, m, p, q))
  <2>1. m * k + l \in Cells(m * m)
    BY CellOf
  <2>2. m * k + l <= m * m - 1
    BY <2>1 DEF Cells
  <2> QED
    BY <1>1, <2>2 DEF KroneckerStage, InBlock
<1>4. ASSUME NEW r \in Cells(d), NEW c \in Cells(d)
      PROVE  At(K, d, r, c) \in Number
  <2>1. r \div m \in Cells(m) /\ r % m \in Cells(m) /\ r = m * (r \div m) + (r % m)
    BY PartsOf
  <2>2. c \div m \in Cells(m) /\ c % m \in Cells(m) /\ c = m * (c \div m) + (c % m)
    BY PartsOf
  <2>3. At(K, d, r, c) = Mul(At(W, m, r \div m, c \div m), At(W, m, r % m, c % m))
    BY <1>3, <2>1, <2>2
  <2>4. At(W, m, r \div m, c \div m) \in Number /\ At(W, m, r % m, c % m) \in Number
    BY <2>1, <2>2, AtNumber
  <2> QED
    BY <2>3, <2>4, NumbersClosed
<1>5. K \in Matrices(d, d)
  <2>1. K = [c \in Cells(d * d) |-> K[c]]
    BY <1>1 DEF KroneckerStage
  <2> QED
    BY <1>2, <1>4, <2>1, MatrixByCells
<1>6. \A r, c \in Cells(d) : At(I, d, r, c) = IF r = c THEN Add(Neg(At(K, d, r, c)), One) ELSE Neg(At(K, d, r, c))
  <2> TAKE r, c \in Cells(d)
  <2>1. d * r + c \in Cells(d * d) /\ (d * r + c) \div d = r /\ (d * r + c) % d = c
    BY <1>2, CellOf
  <2> QED
    BY <2>1 DEF At, LessKronecker, K
<1>7. I = [c \in Cells(d * d) |-> I[c]]
  BY DEF LessKronecker
<1> HIDE DEF I
<1>8. \A r, c \in Cells(d) : At(I, d, r, c) \in Number
  <2> TAKE r, c \in Cells(d)
  <2>1. Neg(At(K, d, r, c)) \in Number /\ One \in Number
    BY <1>4, NumbersClosed
  <2>2. Add(Neg(At(K, d, r, c)), One) \in Number
    BY <2>1, NumbersClosed
  <2> QED
    BY <1>6, <2>1, <2>2
<1>9. I \in Matrices(d, d)
  BY <1>2, <1>7, <1>8, MatrixByCells
<1> QED
  BY <1>3, <1>5, <1>6, <1>9 DEF K, I

\* The products of row r of the blocks with the unknowns.
Weighted(K, d, r, x) == [c \in Cells(d) |-> Mul(At(K, d, r, c), x[c])]

\* Row r of the system says that x[r] is Q[r] and the weighted unknowns.
LEMMA LyapunovRow ==
  ASSUME NEW d \in Nat, NEW K \in Matrices(d, d), NEW I \in Matrices(d, d), NEW x \in Vector(d), NEW r \in Cells(d),
         \A c \in Cells(d) : At(I, d, r, c) = IF r = c THEN Add(Neg(At(K, d, r, c)), One) ELSE Neg(At(K, d, r, c))
  PROVE  Weighted(K, d, r, x) \in Vector(d) /\ Add(SumOf(Along(I, d, r, x), d), SumOf(Weighted(K, d, r, x), d)) = x[r]
<1> DEFINE u == Weighted(K, d, r, x)
           a == Along(I, d, r, x)
           e == [c \in Cells(d) |-> IF c = r THEN x[r] ELSE Zero]
<1>1. \A c \in Cells(d) : At(K, d, r, c) \in Number /\ At(I, d, r, c) \in Number /\ x[c] \in Number
  BY AtNumber DEF Vector
<1>2. \A c \in Cells(d) : u[c] = Mul(At(K, d, r, c), x[c]) /\ a[c] = Mul(At(I, d, r, c), x[c])
  BY DEF Weighted, Along, At
<1>3. u \in Vector(d) /\ a \in Vector(d)
  <2>1. u = [c \in Cells(d) |-> u[c]] /\ a = [c \in Cells(d) |-> a[c]]
    BY DEF Weighted, Along
  <2>2. \A c \in Cells(d) : u[c] \in Number /\ a[c] \in Number
    BY <1>1, <1>2, NumbersClosed
  <2> HIDE DEF u, a
  <2> QED
    BY <2>1, <2>2 DEF Vector
<1> HIDE DEF u, a
<1>4. ASSUME NEW c \in Cells(d) PROVE e[c] = Add(a[c], u[c])
  BY <1>1, <1>2, Cancelled
<1>5. SumOf(e, d) = e[r]
  <2>1. e[r] \in Number
    BY <1>1
  <2> QED
    BY <2>1, SumOfOne
<1>6. e[r] = x[r]
  OBVIOUS
<1> HIDE DEF e
<1>7. SumOf(e, d) = Add(SumOf(a, d), SumOf(u, d))
  BY <1>3, <1>4, SumAdded
<1> QED
  BY <1>3, <1>5, <1>6, <1>7 DEF u, a

\* The weighted unknowns of row m * k + p are element k, p of W X W'.
LEMMA KroneckerImage ==
  ASSUME NEW m \in Nat, NEW W \in Matrices(m, m), NEW d, d = m * m, NEW x \in Vector(d),
         NEW k \in Cells(m), NEW p \in Cells(m)
  PROVE  SumOf(Weighted(Kronecker(W, m), d, m * k + p, x), d) =
           At(MatMul(MatMul(W, x, m, m, m), Transpose(W, m, m), m, m, m), m, k, p)
<1> DEFINE K == Kronecker(W, m)
           r == m * k + p
           u == Weighted(K, d, r, x)
           WX == MatMul(W, x, m, m, m)
           T == Transpose(W, m, m)
           E == [lq \in Cells(m) \X Cells(m) |-> Mul(Mul(At(W, m, k, lq[1]), At(W, m, p, lq[2])), At(x, m, lq[1], lq[2]))]
           R == RowSums(u, m, m)
           C == Pairs(WX, T, m, m, k, p)
<1>1. d \in Nat /\ r \in Cells(d) /\ x \in Matrices(m, m)
  BY CellOf DEF Matrices
<1>2. /\ K \in Matrices(d, d)
      /\ \A l, q \in Cells(m) : At(K, d, r, m * l + q) = Mul(At(W, m, k, l), At(W, m, p, q))
  BY LessKroneckerCells
<1> HIDE DEF K, r
<1>3. u \in Matrices(m, m)
  <2>1. \A c \in Cells(d) : At(K, d, r, c) \in Number /\ x[c] \in Number
    BY <1>1, <1>2, AtNumber DEF Vector
  <2>2. \A c \in Cells(d) : Mul(At(K, d, r, c), x[c]) \in Number
    BY <2>1, NumbersClosed
  <2> QED
    BY <2>2 DEF Weighted, Vector, Matrices
<1>4. \A l, q \in Cells(m) : At(u, m, l, q) = E[<<l, q>>]
  <2> TAKE l, q \in Cells(m)
  <2>1. m * l + q \in Cells(d)
    BY CellOf
  <2>2. u[m * l + q] = Mul(At(K, d, r, m * l + q), x[m * l + q])
    BY <2>1 DEF Weighted
  <2>3. At(K, d, r, m * l + q) = Mul(At(W, m, k, l), At(W, m, p, q))
    BY <1>2
  <2> QED
    BY <2>2, <2>3 DEF At
<1> HIDE DEF u
<1>5. \A l, q \in Cells(m) : /\ At(W, m, k, l) \in Number /\ At(W, m, p, q) \in Number /\ At(x, m, l, q) \in Number
                             /\ E[<<l, q>>] = Mul(Mul(At(W, m, k, l), At(W, m, p, q)), At(x, m, l, q))
                             /\ E[<<l, q>>] \in Number
  <2> TAKE l, q \in Cells(m)
  <2>1. At(W, m, k, l) \in Number /\ At(W, m, p, q) \in Number /\ At(x, m, l, q) \in Number
    BY <1>1, AtNumber
  <2> QED
    BY <2>1, NumbersClosed
<1> HIDE DEF E
<1>6. /\ \A l \in Cells(m) : RowPart(u, m, l) \in Vector(m) /\ R[l] = SumOf(RowPart(u, m, l), m)
      /\ SumOf(u, d) = SumOf(R, m)
  BY <1>3, RowSumsNumbers, SumByRows
<1>7. \A l \in Cells(m) : R[l] = SumOf(AlongRow(E, m, l), m)
  <2> TAKE l \in Cells(m)
  <2>1. \A q \in Cells(m) : AlongRow(E, m, l)[q] = RowPart(u, m, l)[q]
    BY <1>4 DEF AlongRow, RowPart, Cells
  <2> QED
    BY <1>6, <2>1, SumsOfEqual
<1> HIDE DEF R
<1>8. WX \in Matrices(m, m) /\ T \in Matrices(m, m) /\ \A q \in Cells(m) : At(T, m, q, p) = At(W, m, p, q)
  BY <1>1, ProductType, TransposeCells
<1>9. \A q \in Cells(m) : C[q] = SumOf(AlongColumn(E, m, q), m)
  <2> TAKE q \in Cells(m)
  <2> DEFINE v == Pairs(W, x, m, m, k, q)
  <2>1. C[q] = Mul(At(WX, m, k, q), At(W, m, p, q))
    BY <1>8, PairsAreNumbers
  <2>2. At(WX, m, k, q) = SumOf(v, m)
    BY <1>1, ProductCell
  <2>3. v \in Vector(m) /\ \A l \in Cells(m) : v[l] = Mul(At(W, m, k, l), At(x, m, l, q))
    BY <1>1, PairsAreNumbers
  <2> HIDE DEF v
  <2>4. \A l \in Cells(m) : AlongColumn(E, m, q)[l] = Mul(At(W, m, p, q), v[l])
    <3> TAKE l \in Cells(m)
    <3>1. AlongColumn(E, m, q)[l] = Mul(Mul(At(W, m, k, l), At(W, m, p, q)), At(x, m, l, q))
      BY <1>5 DEF AlongColumn, Cells
    <3>2. /\ At(W, m, k, l) \in Number /\ At(W, m, p, q) \in Number /\ At(x, m, l, q) \in Number
          /\ At(W, m, k, l) \in Fraction /\ At(W, m, p, q) \in Fraction
      BY <1>5 DEF Number
    <3>3. Mul(At(W, m, k, l), At(W, m, p, q)) = Mul(At(W, m, p, q), At(W, m, k, l))
      BY <3>2, AddCommutes
    <3>4. Mul(Mul(At(W, m, p, q), At(W, m, k, l)), At(x, m, l, q)) = Mul(At(W, m, p, q), Mul(At(W, m, k, l), At(x, m, l, q)))
      BY <3>2, MulAssociative
    <3> QED
      BY <2>3, <3>1, <3>3, <3>4
  <2>5. At(W, m, p, q) \in Number
    BY <1>5
  <2>6. SumOf(AlongColumn(E, m, q), m) = Mul(At(W, m, p, q), SumOf(v, m))
    BY <2>3, <2>4, <2>5, SumScaled
  <2>7. SumOf(v, m) \in Fraction /\ At(W, m, p, q) \in Fraction
    BY <2>3, <2>5, SumOfNumbers DEF Number
  <2>8. Mul(SumOf(v, m), At(W, m, p, q)) = Mul(At(W, m, p, q), SumOf(v, m))
    BY <2>7, AddCommutes
  <2> QED
    BY <2>1, <2>2, <2>6, <2>8
<1>10. At(MatMul(WX, T, m, m, m), m, k, p) = SumOf(C, m)
  BY <1>8, ProductCell
<1> HIDE DEF WX, T, C
<1>11. Margins(E, R, C, m, m)
  BY <1>5, <1>7, <1>9 DEF Margins
<1>12. SumOf(R, m) = SumOf(C, m)
  BY <1>11, SumSwap
<1> QED
  BY <1>6, <1>10, <1>12 DEF K, r, u, WX, T

\* smls_mat_dlyap: what it returns made of numbers solves the equation.
LEMMA LyapunovSolves ==
  ASSUME NEW m \in Nat, m # 0, NEW W \in Vector(m * m), NEW Q \in Vector(m * m),
         Dlyap(W, Q, m).ok, MadeOfNumbers(Dlyap(W, Q, m).x)
  PROVE  LET x == Dlyap(W, Q, m).x
         IN  MatAdd(MatMul(MatMul(W, x, m, m, m), Transpose(W, m, m), m, m, m), Q) = x
<1> DEFINE d == m * m
           K == Kronecker(W, m)
           I == LessKronecker(W, m)
           x == LinsolveLup(I, Q, d).x
           J == MatMul(MatMul(W, x, m, m, m), Transpose(W, m, m), m, m, m)
<1>1. Dlyap(W, Q, m) = LinsolveLup(I, Q, d)
  BY DEF Dlyap, LessKronecker, Kronecker
<1>2. W \in Matrices(m, m) /\ d \in Nat /\ d # 0
  BY DEF Matrices
<1>3. /\ K \in Matrices(d, d) /\ I \in Matrices(d, d)
      /\ \A r, c \in Cells(d) : At(I, d, r, c) = IF r = c THEN Add(Neg(At(K, d, r, c)), One) ELSE Neg(At(K, d, r, c))
  BY <1>2, LessKroneckerCells
<1> HIDE DEF K, I
<1>4. I \in Vector(d * d) /\ Q \in Vector(d) /\ LinsolveLup(I, Q, d).ok /\ MadeOfNumbers(x)
  BY <1>1, <1>3 DEF Matrices
<1>5. x \in Vector(d) /\ \A r \in Cells(d) : Total(Along(I, d, r, x), 0, d - 1) = Q[r]
  <2> HIDE DEF d
  <2> QED
    BY <1>2, <1>4, LupNumbersSolve
<1> HIDE DEF x
<1>6. x \in Matrices(m, m) /\ Q \in Matrices(m, m) /\ J \in Matrices(m, m)
  <2>1. x \in Matrices(m, m)
    BY <1>5 DEF Matrices
  <2> QED
    BY <1>2, <2>1, ProductType, TransposeCells DEF Matrices
<1>7. \A k, p \in Cells(m) : At(J, m, k, p) = SumOf(Weighted(K, d, m * k + p, x), d)
  BY <1>2, <1>5, KroneckerImage DEF K
<1> HIDE DEF J
<1>8. ASSUME NEW c \in Cells(d) PROVE Add(J[c], Q[c]) = x[c]
  <2> DEFINE s == SumOf(Weighted(K, d, c, x), d)
  <2>1. c \div m \in Cells(m) /\ c % m \in Cells(m) /\ c = m * (c \div m) + (c % m)
    BY PartsOf
  <2>2. J[c] = s
    BY <1>7, <2>1 DEF At
  <2>3. Weighted(K, d, c, x) \in Vector(d) /\ Add(SumOf(Along(I, d, c, x), d), s) = x[c]
    <3> HIDE DEF d
    <3> QED
      BY <1>2, <1>3, <1>5, LyapunovRow
  <2>4. SumOf(Along(I, d, c, x), d) = Q[c]
    BY <1>5 DEF SumOf
  <2>5. s \in Fraction /\ Q[c] \in Fraction
    <3>1. s \in Number
      BY <1>2, <2>3, SumOfNumbers
    <3>2. Q[c] \in Number
      BY <1>4 DEF Vector
    <3> QED
      BY <3>1, <3>2 DEF Number
  <2>6. Add(s, Q[c]) = Add(Q[c], s)
    BY <2>5, AddCommutes
  <2> QED
    BY <2>2, <2>3, <2>4, <2>6
<1>9. MatAdd(J, Q) = x
  <2>1. DOMAIN J = Cells(d) /\ x = [c \in Cells(d) |-> x[c]]
    BY <1>5, <1>6 DEF Matrices, Vector
  <2> QED
    BY <1>8, <2>1 DEF MatAdd
<1> QED
  BY <1>1, <1>9 DEF J, x

-----------------------------------------------------------------------------
(* Reflections (qr). A reflection is the identity and a multiple of v * v'. A column with*)
(* nothing left to reflect leaves no number anywhere.                                    *)

\* The sum qr takes of the squares of column k, and its terms, from the diagonal on.
TailSum(R, k, h, w) == SumOver(k, h - 1, LAMBDA i : Mul(R[i * w + k], R[i * w + k]))
TailTerms(R, k, h, w) == [i \in Cells(h) |-> IF i < k THEN Zero ELSE Mul(At(R, w, i, k), At(R, w, i, k))]

\* It is the sum of the terms.
LEMMA TailSumIs ==
  ASSUME NEW h \in Nat, NEW w \in Nat, NEW k \in Cells(h), k \in Cells(w), NEW R \in FractionCells(h * w)
  PROVE  /\ TailSum(R, k, h, w) \in Fraction
         /\ R \in Matrices(h, w) => TailTerms(R, k, h, w) \in Vector(h) /\ TailSum(R, k, h, w) = SumOf(TailTerms(R, k, h, w), h)
<1> DEFINE lo == k
           hi == h - 1
           e(i) == Mul(R[i * w + k], R[i * w + k])
           v == [i \in lo .. hi |-> e(i)]
           u == TailTerms(R, k, h, w)
           P(f) == f = [i \in lo - 1 .. hi |-> IF i < lo THEN Zero ELSE Add(f[i - 1], e(i))]
           z == CHOOSE f : P(f)
<1>1. TailSum(R, k, h, w) = IF hi < lo THEN Zero ELSE z[hi]
  BY DEF TailSum, SumOver, For
<1>2. lo \in Nat /\ hi \in Int /\ lo <= hi /\ ~(hi < lo)
  BY DEF Cells
<1>3. \A i \in lo .. hi : i \in Cells(h) /\ i * w = w * i /\ ~(i < k)
  BY <1>2 DEF Cells
<1>4. \A i \in lo .. hi : e(i) = Mul(At(R, w, i, k), At(R, w, i, k)) /\ At(R, w, i, k) \in Fraction
  <2> TAKE i \in lo .. hi
  <2>1. w * i + k \in Cells(h * w)
    BY <1>3, CellOf
  <2> QED
    BY <1>3, <2>1 DEF At, FractionCells
<1>5. v \in [lo .. hi -> Fraction]
  <2>1. \A i \in lo .. hi : e(i) \in Fraction
    BY <1>4, Closed
  <2> QED
    BY <2>1
<1>6. \A i \in lo - 1 .. hi : ~(i < lo) => v[i] = e(i)
  BY <1>2
<1>7. \A i \in lo .. hi : v[i] = e(i)
  OBVIOUS
<1> HIDE DEF e, v, lo, hi
<1>8. PICK s \in [lo - 1 .. hi -> Fraction] : Sums(s, v, lo, hi)
  BY <1>2, <1>5, SumsExist
<1>9. P(s)
  <2>1. \A i \in lo - 1 .. hi : s[i] = IF i < lo THEN Zero ELSE Add(s[i - 1], e(i))
    BY <1>6, <1>8 DEF Sums
  <2> QED
    BY <2>1
<1> HIDE DEF P
<1>10. P(z)
  BY <1>9
<1> HIDE DEF z
<1>11. Sums(z, v, lo, hi)
  BY <1>6, <1>10 DEF P, Sums
<1>12. z[hi] \in Fraction
  <2>1. \A i \in lo - 1 .. hi : z[i] = s[i]
    BY <1>2, <1>8, <1>11, SumsAgree
  <2>2. hi \in lo - 1 .. hi
    BY <1>2
  <2> QED
    BY <1>8, <2>1, <2>2
<1>13. ASSUME R \in Matrices(h, w)
       PROVE  u \in Vector(h) /\ TailSum(R, k, h, w) = SumOf(u, h)
  <2>1. \A i \in Cells(h) : At(R, w, i, k) \in Number
    BY <1>13, AtNumber
  <2>2. u \in Vector(h)
    <3>1. \A i \in Cells(h) : Mul(At(R, w, i, k), At(R, w, i, k)) \in Number /\ Zero \in Number
      BY <2>1, NumbersClosed
    <3> QED
      BY <3>1 DEF TailTerms, Vector
  <2>3. \A i \in lo .. hi : u[i] = v[i]
    BY <1>3, <1>4, <1>7 DEF TailTerms
  <2>4. \A i \in 0 .. k - 1 : u[i] = Zero
    <3>1. \A i \in 0 .. k - 1 : i \in Cells(h) /\ i < k
      BY <1>2 DEF Cells, lo, hi
    <3> QED
      BY <3>1 DEF TailTerms
  <2>5. Numbers(u, 0, h - 1)
    BY <2>2, SumOfNumbers
  <2> HIDE DEF u
  <2>6. 0 <= k /\ k <= (h - 1) + 1 /\ k \in Int /\ h - 1 \in Int
    BY <1>2 DEF lo, hi
  <2>7. SumOf(u, h) = Total(u, lo, hi)
    BY <2>4, <2>5, <2>6, TotalDropsZeros DEF SumOf, lo, hi
  <2>8. Numbers(u, lo, hi)
    <3>1. \A i \in lo .. hi : i \in 0 .. h - 1
      BY <1>2 DEF hi
    <3> QED
      BY <2>5, <3>1 DEF Numbers
  <2>9. Numbers(v, lo, hi)
    BY <2>3, <2>8 DEF Numbers
  <2>10. Total(v, lo, hi) = z[hi] /\ Total(u, lo, hi) = Total(v, lo, hi)
    BY <1>2, <1>11, <2>3, <2>8, <2>9, TotalIs, TotalAgree
  <2> QED
    BY <1>1, <1>2, <2>2, <2>7, <2>10
<1> QED
  BY <1>1, <1>2, <1>12, <1>13 DEF u

\* The length with its sign is a root of the sum, where it is a number.
LEMMA SignedSquare ==
  ASSUME NEW h \in Nat, NEW w \in Nat, NEW k \in Cells(h), k \in Cells(w), NEW R \in FractionCells(h * w)
  PROVE  /\ SignedNorm(R, k, h, w) \in Fraction
         /\ IsNumber(SignedNorm(R, k, h, w)) =>
              Mul(SignedNorm(R, k, h, w), SignedNorm(R, k, h, w)) = TailSum(R, k, h, w)
<1> DEFINE z == TailSum(R, k, h, w)
           t == Root(z)
           s == SignedNorm(R, k, h, w)
<1>1. s = Neg(t) \/ s = t
  BY DEF SignedNorm, TailNorm, TailSum
<1>2. z \in Fraction
  BY TailSumIs
<1> HIDE DEF z, s
<1>3. t \in Fraction
  BY <1>2, RootIsFraction
<1>4. s \in Fraction /\ (IsNumber(s) <=> IsNumber(t))
  BY <1>1, <1>3, Closed
<1>5. ASSUME IsNumber(t) PROVE Mul(s, s) = z
  <2>1. t \in Number /\ Mul(t, t) = z
    BY <1>2, <1>3, <1>5, RootSquared DEF Number
  <2> HIDE DEF t
  <2>2. Mul(Neg(t), Neg(t)) = Mul(t, t)
    <3>1. PICK d \in Int, i \in Int : d # 0 /\ Stands(t, i, d)
      BY <2>1, CommonDenominator
    <3>2. Stands(Neg(t), -i, d) /\ -i \in Int
      BY <3>1, NegStands
    <3>3. Stands(Mul(t, t), i * i, d * d) /\ Stands(Mul(Neg(t), Neg(t)), (-i) * (-i), d * d)
      BY <3>1, <3>2, MulStands
    <3>4. (-i) * (-i) = i * i /\ i * i \in Int /\ d * d \in Int /\ d * d # 0
      BY <3>1
    <3> QED
      BY <3>3, <3>4, StandsUnique
  <2> QED
    BY <1>1, <2>1, <2>2
<1> QED
  BY <1>4, <1>5 DEF s, z

\* What a reflection divides by, and its vector.
Divisor(R, k, h, w) == Mul(Whole(2), Mul(SignedNorm(R, k, h, w), Add(R[k * w + k], SignedNorm(R, k, h, w))))
Normal(R, k, h, w) ==
  [i \in Cells(h) |-> IF i < k THEN Zero ELSE IF i = k THEN Add(R[k * w + k], SignedNorm(R, k, h, w)) ELSE R[i * w + k]]

\* Element r, c of a reflection.
LEMMA ReflectionCell ==
  ASSUME NEW h \in Nat, NEW w, NEW k, NEW R
  PROVE  /\ Reflection(R, k, h, w) = [c \in Cells(h * h) |-> Reflection(R, k, h, w)[c]]
         /\ \A r, c \in Cells(h) :
              At(Reflection(R, k, h, w), h, r, c) =
                Add(Mul(Whole(-2), Div(Mul(Normal(R, k, h, w)[r], Normal(R, k, h, w)[c]), Divisor(R, k, h, w))),
                    IF r = c THEN One ELSE Zero)
<1> DEFINE v == Normal(R, k, h, w)
           d == Divisor(R, k, h, w)
           WW == [c \in Cells(h * h) |-> Div(Mul(v[c \div h], v[c % h]), d)]
<1>1. Reflection(R, k, h, w) = MatAdd(Scaled(WW, Whole(-2)), Identity(h))
  BY DEF Reflection, Normal, Divisor
<1> HIDE DEF v, d
<1>2. Reflection(R, k, h, w) = [c \in Cells(h * h) |-> Add(Mul(Whole(-2), WW[c]), Identity(h)[c])]
  BY <1>1 DEF MatAdd, Scaled
<1>3. \A r, c \in Cells(h) : At(Reflection(R, k, h, w), h, r, c) =
        Add(Mul(Whole(-2), Div(Mul(v[r], v[c]), d)), IF r = c THEN One ELSE Zero)
  <2> TAKE r, c \in Cells(h)
  <2> DEFINE e == h * r + c
  <2>1. e \in Cells(h * h) /\ e \div h = r /\ e % h = c
    BY CellOf
  <2> HIDE DEF e
  <2>2. WW[e] = Div(Mul(v[r], v[c]), d)
    BY <2>1
  <2>3. Identity(h)[e] = IF r = c THEN One ELSE Zero
    BY IdentityCells DEF At, e
  <2> QED
    BY <1>2, <2>1, <2>2, <2>3 DEF At, e
<1> QED
  BY <1>2, <1>3 DEF v, d

\* The vector of a reflection.
LEMMA NormalFractions ==
  ASSUME NEW h \in Nat, NEW w \in Nat, NEW k \in Cells(h), k \in Cells(w), NEW R \in FractionCells(h * w)
  PROVE  /\ R[k * w + k] \in Fraction /\ R[k * w + k] = At(R, w, k, k) /\ Divisor(R, k, h, w) \in Fraction
         /\ \A i \in Cells(h) : /\ Normal(R, k, h, w)[i] \in Fraction
                                /\ Normal(R, k, h, w)[i] =
                                     IF i < k THEN Zero ELSE IF i = k THEN Add(At(R, w, k, k), SignedNorm(R, k, h, w)) ELSE At(R, w, i, k)
<1> DEFINE s == SignedNorm(R, k, h, w)
           a == R[k * w + k]
<1>1. \A i \in Cells(h) : R[i * w + k] \in Fraction /\ R[i * w + k] = At(R, w, i, k)
  <2> TAKE i \in Cells(h)
  <2>1. i * w = w * i /\ w * i + k \in Cells(h * w)
    BY CellOf DEF Cells
  <2> QED
    BY <2>1 DEF FractionCells, At
<1>2. s \in Fraction /\ a \in Fraction /\ Zero \in Fraction /\ Whole(2) \in Fraction
  BY <1>1, SignedSquare, ZeroIsNeutral, Twos DEF Number
<1>3. Divisor(R, k, h, w) = Mul(Whole(2), Mul(s, Add(a, s)))
  BY DEF Divisor
<1> HIDE DEF s, a
<1>4. Add(a, s) \in Fraction /\ Mul(s, Add(a, s)) \in Fraction /\ Mul(Whole(2), Mul(s, Add(a, s))) \in Fraction
  <2>1. Add(a, s) \in Fraction
    BY <1>2, Closed
  <2>2. Mul(s, Add(a, s)) \in Fraction
    BY <1>2, <2>1, Closed
  <2> QED
    BY <1>2, <2>1, <2>2, Closed
<1>5. \A i \in Cells(h) : Normal(R, k, h, w)[i] = IF i < k THEN Zero ELSE IF i = k THEN Add(a, s) ELSE R[i * w + k]
  BY DEF Normal, a, s
<1> QED
  BY <1>1, <1>2, <1>3, <1>4, <1>5 DEF a, s

\* Without a divisor there is no number in a reflection.
LEMMA ReflectionFractions ==
  ASSUME NEW h \in Nat, NEW w \in Nat, NEW k \in Cells(h), k \in Cells(w), NEW R \in FractionCells(h * w)
  PROVE  /\ Reflection(R, k, h, w) \in FractionCells(h * h)
         /\ Divisor(R, k, h, w) \notin Number \ {Zero} => \A r, c \in Cells(h) : ~IsNumber(At(Reflection(R, k, h, w), h, r, c))
<1> DEFINE v == Normal(R, k, h, w)
           d == Divisor(R, k, h, w)
           P == Reflection(R, k, h, w)
           q(r, c) == Div(Mul(v[r], v[c]), d)
           o(r, c) == IF r = c THEN One ELSE Zero
<1>1. d \in Fraction /\ (\A i \in Cells(h) : v[i] \in Fraction)
  BY NormalFractions
<1>2. /\ P = [c \in Cells(h * h) |-> P[c]]
      /\ \A r, c \in Cells(h) : At(P, h, r, c) = Add(Mul(Whole(-2), q(r, c)), o(r, c))
  BY ReflectionCell
<1> HIDE DEF v, d, P
<1>3. ASSUME NEW r \in Cells(h), NEW c \in Cells(h)
      PROVE  At(P, h, r, c) \in Fraction /\ (d \notin Number \ {Zero} => ~IsNumber(At(P, h, r, c)))
  <2>1. Mul(v[r], v[c]) \in Fraction
    BY <1>1, Closed
  <2>2. q(r, c) \in Fraction /\ (d \notin Number \ {Zero} => ~IsNumber(q(r, c)))
    BY <1>1, <2>1, DivClosed, DivNumber
  <2>3. Whole(-2) \in Fraction /\ o(r, c) \in Fraction
    BY Twos, NumbersClosed DEF Number
  <2> HIDE DEF q, o
  <2>4. Mul(Whole(-2), q(r, c)) \in Fraction /\ (IsNumber(Mul(Whole(-2), q(r, c))) => IsNumber(q(r, c)))
    BY <2>2, <2>3, Closed
  <2>5. /\ Add(Mul(Whole(-2), q(r, c)), o(r, c)) \in Fraction
        /\ IsNumber(Add(Mul(Whole(-2), q(r, c)), o(r, c))) => IsNumber(Mul(Whole(-2), q(r, c)))
    BY <2>3, <2>4, Closed
  <2> QED
    BY <1>2, <2>2, <2>4, <2>5
<1>4. P \in FractionCells(h * h)
  <2>1. \A e \in Cells(h * h) : P[e] \in Fraction
    <3> TAKE e \in Cells(h * h)
    <3>1. e \div h \in Cells(h) /\ e % h \in Cells(h) /\ e = h * (e \div h) + (e % h)
      BY PartsOf
    <3> QED
      BY <1>3, <3>1 DEF At
  <2> QED
    BY <1>2, <2>1 DEF FractionCells
<1> QED
  BY <1>3, <1>4 DEF P, d

\* With one, a reflection turns column k into its first element.
LEMMA ReflectionIs ==
  ASSUME NEW h \in Nat, NEW w \in Nat, NEW k \in Cells(h), k \in Cells(w), NEW R \in Matrices(h, w),
         Divisor(R, k, h, w) \in Number \ {Zero}
  PROVE  \E v, beta : /\ Reflects(Reflection(R, k, h, w), v, beta, h)
                      /\ Mul(beta, SumOf(SquaresOf(v, h), h)) = Whole(-2)
                      /\ Mul(beta, SumOf(Dot(v, R, h, w, k), h)) = Neg(One)
                      /\ \A i \in Cells(h) : (i < k => v[i] = Zero) /\ (i > k => v[i] = At(R, w, i, k))
<1> DEFINE v == Normal(R, k, h, w)
           d == Divisor(R, k, h, w)
           s == SignedNorm(R, k, h, w)
           a == At(R, w, k, k)
           b == Add(a, s)
           o == Div(One, d)
           beta == Mul(Whole(-2), o)
           P == Reflection(R, k, h, w)
           T == TailTerms(R, k, h, w)
           V == SquaresOf(v, h)
           U == Dot(v, R, h, w, k)
<1>1. R \in FractionCells(h * w)
  BY DEF Matrices, Vector, FractionCells, Number
<1>2. /\ d = Mul(Whole(2), Mul(s, b)) /\ s \in Fraction /\ a \in Number
      /\ \A i \in Cells(h) : v[i] = IF i < k THEN Zero ELSE IF i = k THEN b ELSE At(R, w, i, k)
  <2>1. s \in Fraction
    BY <1>1, SignedSquare
  <2>2. a \in Number
    BY AtNumber
  <2>3. R[k * w + k] = a
    BY <1>1, NormalFractions
  <2>4. d = Mul(Whole(2), Mul(s, b))
    BY <2>3 DEF Divisor
  <2>5. \A i \in Cells(h) : v[i] = IF i < k THEN Zero ELSE IF i = k THEN b ELSE At(R, w, i, k)
    BY <1>1, NormalFractions
  <2> QED
    BY <2>1, <2>2, <2>4, <2>5
<1>3. s \in Number /\ Mul(s, s) = SumOf(T, h) /\ T \in Vector(h)
  <2> DEFINE g == Add(a, s)
  <2>1. a \in Fraction /\ Whole(2) \in Fraction
    BY <1>2, Twos DEF Number
  <2>2. b \in Fraction
    BY <1>2, <2>1, Closed
  <2> HIDE DEF b, s, d
  <2>3. Mul(s, b) \in Fraction /\ (IsNumber(Mul(s, b)) => IsNumber(s))
    BY <1>2, <2>2, Closed
  <2>4. IsNumber(d) => IsNumber(Mul(s, b))
    BY <1>2, <2>1, <2>3, Closed
  <2>5. IsNumber(s)
    BY <2>3, <2>4 DEF d, Number
  <2> QED
    BY <1>1, <1>2, <2>5, SignedSquare, TailSumIs DEF Number, s
<1>4. b \in Number /\ Zero \in Number /\ One \in Number /\ \A i \in Cells(h) : At(R, w, i, k) \in Number
  BY <1>2, <1>3, NumbersClosed, AtNumber
<1>5. v \in Vector(h)
  <2>1. v = [i \in Cells(h) |-> v[i]]
    BY DEF Normal
  <2>2. \A i \in Cells(h) : v[i] \in Number
    BY <1>2, <1>4
  <2> HIDE DEF v
  <2> QED
    BY <2>1, <2>2 DEF Vector
<1>6. d \in Number /\ d # Zero
  OBVIOUS
<1>7. /\ P = [c \in Cells(h * h) |-> P[c]]
      /\ \A r, c \in Cells(h) : At(P, h, r, c) = Add(Mul(Whole(-2), Div(Mul(v[r], v[c]), d)), IF r = c THEN One ELSE Zero)
  BY ReflectionCell
<1> HIDE DEF v, d, s, a, P, T
<1>8. o \in Number /\ Mul(o, d) = One /\ beta \in Number /\ Mul(beta, d) = Whole(-2)
  <2>1. o \in Number /\ Mul(o, d) = One
    BY <1>4, <1>6, DivIsMul
  <2> HIDE DEF o
  <2>2. Mul(Mul(Whole(-2), o), d) = Mul(Whole(-2), Mul(o, d))
    BY <1>6, <2>1, Twos, MulAssociative
  <2>3. Mul(Whole(-2), One) = Whole(-2)
    BY Twos, OneIsNeutral
  <2> QED
    BY <2>1, <2>2, <2>3, Twos, NumbersClosed
<1>9. \A r, c \in Cells(h) : /\ At(P, h, r, c) = Add(Mul(beta, Mul(v[r], v[c])), IF r = c THEN One ELSE Zero)
                             /\ At(P, h, r, c) \in Number
  <2> TAKE r, c \in Cells(h)
  <2> DEFINE m == Mul(v[r], v[c])
             i == IF r = c THEN One ELSE Zero
  <2>1. m \in Number /\ i \in Number
    BY <1>4, <1>5, NumbersClosed DEF Vector
  <2>2. At(P, h, r, c) = Add(Mul(Whole(-2), Div(m, d)), i)
    BY <1>7
  <2> HIDE DEF m, i
  <2>3. Div(m, d) = Mul(o, m)
    BY <1>6, <2>1, DivIsMul
  <2>4. Mul(Whole(-2), Mul(o, m)) = Mul(beta, m)
    <3> HIDE DEF o
    <3> QED
      BY <1>8, <2>1, Twos, MulAssociative
  <2>5. Mul(beta, m) \in Number
    BY <1>8, <2>1, NumbersClosed
  <2>6. Add(Mul(beta, m), i) \in Number
    BY <2>1, <2>5, NumbersClosed
  <2> QED
    BY <2>2, <2>3, <2>4, <2>6 DEF m, i
<1>10. Reflects(P, v, beta, h)
  <2>1. P \in Matrices(h, h)
    BY <1>7, <1>9, MatrixByCells
  <2> QED
    BY <1>5, <1>8, <1>9, <2>1 DEF Reflects
<1> HIDE DEF b
<1>11. V \in Vector(h) /\ U \in Vector(h) /\ SumOf(V, h) \in Number /\ SumOf(U, h) \in Number
       /\ \A i \in Cells(h) : V[i] = Mul(v[i], v[i]) /\ U[i] = Mul(v[i], At(R, w, i, k))
  <2>1. \A i \in Cells(h) : V[i] = Mul(v[i], v[i]) /\ U[i] = Mul(v[i], At(R, w, i, k))
    BY DEF SquaresOf, Dot
  <2>2. V \in Vector(h) /\ U \in Vector(h) /\ SumOf(V, h) \in Number /\ SumOf(U, h) \in Number
    BY <1>5, DotNumbers
  <2> QED
    BY <2>1, <2>2
<1>12. \A i \in Cells(h) : T[i] = IF i < k THEN Zero ELSE Mul(At(R, w, i, k), At(R, w, i, k))
  BY DEF TailTerms, T
<1> HIDE DEF V, U
<1>13. T[k] = Mul(a, a) /\ V[k] = Mul(b, b) /\ U[k] = Mul(b, a)
  <2>1. ~(k < k)
    BY DEF Cells
  <2> QED
    BY <1>2, <1>11, <1>12, <2>1 DEF a
<1>14. \A i \in Cells(h) : i # k => V[i] = T[i] /\ U[i] = T[i]
  BY <1>2, <1>4, <1>11, <1>12, OneIsNeutral
<1>15. /\ Add(SumOf(V, h), Mul(a, a)) = Add(Mul(s, s), Mul(b, b))
       /\ Add(SumOf(U, h), Mul(a, a)) = Add(Mul(s, s), Mul(b, a))
  BY <1>3, <1>11, <1>13, <1>14, SumChanged
<1>16. SumOf(V, h) = d /\ Mul(Whole(2), SumOf(U, h)) = d
  BY <1>2, <1>3, <1>11, <1>15, ReflectedLengths DEF b
<1>17. Mul(beta, SumOf(U, h)) = Neg(One)
  <2> DEFINE t == Mul(beta, SumOf(U, h))
  <2>1. t \in Number
    BY <1>8, <1>11, NumbersClosed
  <2>2. Mul(Whole(2), t) = Whole(-2)
    <3>1. Mul(Whole(2), Mul(beta, SumOf(U, h))) = Mul(Mul(Whole(2), beta), SumOf(U, h))
      BY <1>8, <1>11, Twos, MulAssociative
    <3>2. Mul(Whole(2), beta) = Mul(beta, Whole(2))
      BY <1>8, Twos, AddCommutes DEF Number
    <3>3. Mul(Mul(beta, Whole(2)), SumOf(U, h)) = Mul(beta, Mul(Whole(2), SumOf(U, h)))
      BY <1>8, <1>11, Twos, MulAssociative
    <3> QED
      BY <1>8, <1>16, <3>1, <3>2, <3>3
  <2> HIDE DEF t
  <2>3. Mul(Whole(2), Neg(One)) = Whole(-2) /\ Neg(One) \in Number
    <3>1. Stands(One, 1, 1)
      BY WholeStands DEF One
    <3>2. Stands(Neg(One), -1, 1)
      BY <3>1, NegStands
    <3>3. Stands(Mul(Whole(2), Neg(One)), 2 * (-1), 1 * 1)
      BY <3>2, Twos, MulStands
    <3>4. 2 * (-1) = -2 /\ 1 * 1 = 1 /\ 1 # 0 /\ -2 \in Int
      OBVIOUS
    <3> QED
      BY <1>4, <3>3, <3>4, Twos, StandsUnique, NumbersClosed
  <2>4. Whole(2) # Zero
    BY DEF Whole, Zero
  <2> QED
    BY <2>1, <2>2, <2>3, <2>4, Twos, MulCancels DEF t
<1>18. \A i \in Cells(h) : (i < k => v[i] = Zero) /\ (i > k => v[i] = At(R, w, i, k))
  <2>1. \A i \in Cells(h) : i > k => ~(i < k) /\ i # k
    BY DEF Cells
  <2> QED
    BY <1>2, <2>1
<1>19. Mul(beta, SumOf(V, h)) = Whole(-2)
  BY <1>8, <1>16
<1> QED
  BY <1>10, <1>17, <1>18, <1>19 DEF P, V, U

\* A matrix with a left inverse maps only zero to zero.
LEMMA LeftInverseRegular ==
  ASSUME NEW m \in Nat, NEW H \in Matrices(m, m), NEW B \in Matrices(m, m), MatMul(B, H, m, m, m) = Identity(m)
  PROVE  ~Singular(H, m)
<1> SUFFICES ASSUME NEW x \in Vector(m), MatMul(H, x, m, m, 1) = Filled(m, Zero), NEW k \in Cells(m), x[k] # Zero
             PROVE  FALSE
  <2> SUFFICES ASSUME NEW x \in Vector(m), x # Filled(m, Zero), MatMul(H, x, m, m, 1) = Filled(m, Zero)
               PROVE  FALSE
    BY DEF Singular
  <2>1. x = [k \in Cells(m) |-> x[k]]
    BY DEF Vector
  <2>2. \E k \in Cells(m) : x[k] # Zero
    BY <2>1 DEF Filled
  <2> QED
    BY <2>2
<1> DEFINE z == Filled(m, Zero)
<1>1. m * 1 = m /\ 1 \in Nat /\ 1 * k + 0 = k /\ 0 \in Cells(1)
  BY DEF Cells
<1>2. x \in Matrices(m, 1) /\ z \in Matrices(m, 1)
  BY <1>1, NumbersClosed DEF Matrices, Vector, Filled
<1>3. MatMul(MatMul(B, H, m, m, m), x, m, m, 1) = MatMul(B, MatMul(H, x, m, m, 1), m, m, 1)
  BY <1>1, <1>2, ProductAssociative
<1>4. MatMul(Identity(m), x, m, m, 1) = x
  BY <1>1, <1>2, IdentityIsNeutral
<1>5. x = MatMul(B, z, m, m, 1)
  BY <1>3, <1>4
<1> DEFINE p == Pairs(B, z, m, 1, k, 0)
<1>6. At(MatMul(B, z, m, m, 1), 1, k, 0) = SumOf(p, m)
  BY <1>1, <1>2, ProductCell
<1>7. p \in Vector(m) /\ \A i \in Cells(m) : p[i] = Mul(At(B, m, k, i), At(z, 1, i, 0))
  BY <1>1, <1>2, PairsAreNumbers
<1> HIDE DEF p
<1>8. \A i \in Cells(m) : p[i] = Zero
  <2> TAKE i \in Cells(m)
  <2>1. 1 * i + 0 = i
    BY DEF Cells
  <2>2. At(z, 1, i, 0) = Zero
    BY <2>1 DEF At, Filled
  <2>3. At(B, m, k, i) \in Number
    BY AtNumber
  <2> QED
    BY <1>7, <2>2, <2>3, OneIsNeutral
<1>9. SumOf(p, m) = p[k]
  BY <1>7, <1>8, NumbersClosed, SumOfOne
<1> QED
  BY <1>1, <1>5, <1>6, <1>8, <1>9 DEF At

\* The inverse of a matrix with a left inverse is that one.
LEMMA InverseIs ==
  ASSUME NEW m \in Nat, m # 0, NEW H \in Matrices(m, m), NEW B \in Matrices(m, m), MatMul(B, H, m, m, m) = Identity(m)
  PROVE  Inv(H, m).ok /\ Inv(H, m).Ai = B
<1>1. H \in Vector(m * m)
  BY DEF Matrices
<1>2. Inv(H, m).ok
  BY <1>1, LeftInverseRegular, InvSucceeds
<1>3. MatMul(H, Inv(H, m).Ai, m, m, m) = Identity(m)
  BY <1>1, <1>2, InvInverts
<1>4. Inv(H, m).Ai \in Matrices(m, m)
  <2> DEFINE Ai == Inv(H, m).Ai
             X(r) == Substituted(Lup(H, m), Unit(m, r), m)
  <2>1. Solvable(Lup(H, m), m)
    BY <1>2 DEF Inv
  <2>2. \A r \in Cells(m) : Unit(m, r) \in Vector(m)
    BY NumbersClosed DEF Unit, Vector
  <2>3. \A r \in Cells(m) : X(r) \in Vector(m)
    BY <1>1, <2>1, <2>2, SubstitutedSolves
  <2>4. \A r, k \in Cells(m) : Ai[r + k * m] = X(r)[k]
    BY <2>1, <2>3, InverseColumns
  <2>5. Ai = [c \in Cells(m * m) |-> Ai[c]]
    BY <2>1 DEF Inv, Transpose
  <2> HIDE DEF Ai, X
  <2>6. \A k, r \in Cells(m) : At(Ai, m, k, r) \in Number
    <3> TAKE k, r \in Cells(m)
    <3>1. r + k * m = m * k + r
      BY DEF Cells
    <3> QED
      BY <2>3, <2>4, <3>1 DEF At, Vector
  <2> QED
    BY <2>5, <2>6, MatrixByCells DEF Ai
<1>5. MatMul(MatMul(B, H, m, m, m), Inv(H, m).Ai, m, m, m) = MatMul(B, MatMul(H, Inv(H, m).Ai, m, m, m), m, m, m)
  BY <1>4, ProductAssociative
<1>6. MatMul(Identity(m), Inv(H, m).Ai, m, m, m) = Inv(H, m).Ai /\ MatMul(B, Identity(m), m, m, m) = B
  BY <1>4, IdentityIsNeutral
<1> QED
  BY <1>2, <1>3, <1>5, <1>6

\* After the reflections up to column k: H turns M into R, keeps lengths, and the
\* columns up to k are zero under the diagonal; or R holds no number any more.
QrGood(s, M, h, w, k) ==
  /\ s.H \in Matrices(h, h) /\ s.R \in Matrices(h, w)
  /\ MatMul(Transpose(s.H, h, h), s.H, h, h, h) = Identity(h)
  /\ MatMul(s.H, M, h, h, w) = s.R
  /\ \A r \in Cells(h), c \in Cells(w) : c <= k /\ r > c => At(s.R, w, r, c) = Zero
QrVoid(s, h, w) == \A r \in Cells(h), c \in Cells(w) : ~IsNumber(At(s.R, w, r, c))
QrStates(h, w) == [H : FractionCells(h * h), R : FractionCells(h * w)]
QrStage(M, h, w, k) == {s \in QrStates(h, w) : QrVoid(s, h, w) \/ QrGood(s, M, h, w, k)}

\* The iteration for column k.
QrColumn(s, k, h, w) ==
  LET Hi == Reflection(s.R, k, h, w) IN [H |-> MatMul(Hi, s.H, h, h, h), R |-> MatMul(Hi, s.R, h, h, w)]

\* One reflection of smls_mat_qr.
LEMMA QrStep ==
  ASSUME NEW h \in Nat, NEW w \in Nat, NEW M \in Matrices(h, w), NEW k \in Cells(h), k \in Cells(w),
         NEW s \in QrStage(M, h, w, k - 1)
  PROVE  QrColumn(s, k, h, w) \in QrStage(M, h, w, k)
<1> DEFINE P == Reflection(s.R, k, h, w)
           d == Divisor(s.R, k, h, w)
           H2 == MatMul(P, s.H, h, h, h)
           R2 == MatMul(P, s.R, h, h, w)
<1>1. s.H \in FractionCells(h * h) /\ s.R \in FractionCells(h * w) /\ (QrVoid(s, h, w) \/ QrGood(s, M, h, w, k - 1))
  BY DEF QrStage, QrStates
<1>2. QrColumn(s, k, h, w) = [H |-> H2, R |-> R2]
  BY DEF QrColumn
<1>3. h # 0 /\ k \in Int
  BY DEF Cells
<1>4. /\ P \in FractionCells(h * h)
      /\ d \notin Number \ {Zero} => \A r, c \in Cells(h) : ~IsNumber(At(P, h, r, c))
  BY <1>1, ReflectionFractions
<1>5. QrVoid(s, h, w) => d \notin Number
  <2> SUFFICES ASSUME QrVoid(s, h, w) PROVE ~IsNumber(d)
    BY DEF Number
  <2> DEFINE a == s.R[k * w + k]
             g == SignedNorm(s.R, k, h, w)
  <2>1. a \in Fraction /\ g \in Fraction /\ ~IsNumber(a)
    BY <1>1, NormalFractions, SignedSquare DEF QrVoid
  <2>2. d = Mul(Whole(2), Mul(g, Add(a, g))) /\ Whole(2) \in Fraction
    BY Twos DEF Divisor, Number
  <2> HIDE DEF a, g, d
  <2>3. Add(a, g) = NaN
    BY <2>1, NotANumberStays
  <2>4. Mul(g, NaN) = NaN
    BY <2>1, NanIsFraction, NotANumberStays
  <2>5. Mul(Whole(2), NaN) = NaN
    BY <2>2, NanIsFraction, NotANumberStays
  <2> QED
    BY <2>2, <2>3, <2>4, <2>5, NanIsFraction
<1>6. H2 \in FractionCells(h * h) /\ R2 \in FractionCells(h * w)
  BY <1>1, <1>4, ProductFractions
<1>7. CASE d \notin Number \ {Zero}
  <2>1. \A r \in Cells(h), c \in Cells(w) : ~IsNumber(At(R2, w, r, c))
    BY <1>1, <1>3, <1>4, <1>7, ProductFractions
  <2> HIDE DEF H2, R2
  <2> QED
    BY <1>2, <1>6, <2>1 DEF QrStage, QrStates, QrVoid
<1>8. CASE d \in Number \ {Zero}
  <2>1. QrGood(s, M, h, w, k - 1)
    BY <1>1, <1>5, <1>8
  <2>2. s.H \in Matrices(h, h) /\ s.R \in Matrices(h, w)
    BY <2>1 DEF QrGood
  <2>3. PICK v, beta : /\ Reflects(P, v, beta, h)
                       /\ Mul(beta, SumOf(SquaresOf(v, h), h)) = Whole(-2)
                       /\ Mul(beta, SumOf(Dot(v, s.R, h, w, k), h)) = Neg(One)
                       /\ \A i \in Cells(h) : (i < k => v[i] = Zero) /\ (i > k => v[i] = At(s.R, w, i, k))
    BY <1>8, <2>2, ReflectionIs
  <2> HIDE DEF P, d
  <2>4. P \in Matrices(h, h) /\ v \in Vector(h) /\ beta \in Number /\ \A i \in Cells(h) : v[i] \in Number
    BY <2>3 DEF Reflects, Vector
  <2>5. H2 \in Matrices(h, h) /\ R2 \in Matrices(h, w)
    BY <2>2, <2>4, ProductType
  <2>6. MatMul(Transpose(H2, h, h), H2, h, h, h) = Identity(h)
    <3> DEFINE HT == Transpose(s.H, h, h)
    <3>1. Transpose(P, h, h) = P /\ MatMul(P, P, h, h, h) = Identity(h)
      BY <2>3, ReflectionTwice
    <3>2. HT \in Matrices(h, h)
      BY <2>2, TransposeCells
    <3>3. Transpose(H2, h, h) = MatMul(HT, P, h, h, h)
      BY <2>2, <2>4, <3>1, TransposeProduct
    <3>4. MatMul(MatMul(HT, P, h, h, h), H2, h, h, h) = MatMul(HT, MatMul(P, H2, h, h, h), h, h, h)
      BY <2>4, <2>5, <3>2, ProductAssociative
    <3>5. MatMul(P, H2, h, h, h) = MatMul(MatMul(P, P, h, h, h), s.H, h, h, h)
      BY <2>2, <2>4, ProductAssociative
    <3>6. MatMul(Identity(h), s.H, h, h, h) = s.H
      BY <2>2, IdentityIsNeutral
    <3>7. MatMul(HT, s.H, h, h, h) = Identity(h)
      BY <2>1 DEF QrGood
    <3> QED
      BY <3>1, <3>3, <3>4, <3>5, <3>6, <3>7
  <2>7. MatMul(H2, M, h, h, w) = R2
    <3>1. MatMul(H2, M, h, h, w) = MatMul(P, MatMul(s.H, M, h, h, w), h, h, w)
      BY <2>2, <2>4, ProductAssociative
    <3> QED
      BY <2>1, <3>1 DEF QrGood
  <2>8. ASSUME NEW r \in Cells(h), NEW c \in Cells(w), c <= k, r > c
        PROVE  At(R2, w, r, c) = Zero
    <3> DEFINE u == Dot(v, s.R, h, w, c)
               g == Mul(beta, v[r])
    <3>1. At(R2, w, r, c) = Add(Mul(g, SumOf(u, h)), At(s.R, w, r, c))
      BY <2>2, <2>3, ReflectedCell
    <3>2. g \in Number /\ SumOf(u, h) \in Number /\ u \in Vector(h)
      BY <2>2, <2>4, DotNumbers, NumbersClosed
    <3>3. \A j \in Cells(h) : u[j] = Mul(v[j], At(s.R, w, j, c)) /\ At(s.R, w, j, c) \in Number
      BY <2>2, AtNumber DEF Dot
    <3> HIDE DEF u
    <3>4. CASE c = k
      <4>1. Mul(g, SumOf(u, h)) = Mul(v[r], Neg(One))
        <5>1. g = Mul(v[r], beta)
          BY <2>4, AddCommutes DEF Number
        <5>2. Mul(Mul(v[r], beta), SumOf(u, h)) = Mul(v[r], Mul(beta, SumOf(u, h)))
          BY <2>4, <3>2, MulAssociative
        <5> QED
          BY <2>3, <3>4, <5>1, <5>2 DEF u
      <4>2. v[r] = At(s.R, w, r, c) /\ v[r] \in Number
        BY <2>3, <2>4, <2>8, <3>4
      <4>3. Add(Mul(v[r], Neg(One)), v[r]) = Zero
        <5>1. Mul(v[r], Neg(One)) = Mul(Neg(One), v[r]) /\ One \in Number /\ Neg(One) \in Number
          BY <4>2, NumbersClosed, AddCommutes DEF Number
        <5>2. Mul(One, v[r]) = v[r]
          BY <4>2, OneIsNeutral
        <5> QED
          BY <4>2, <5>1, <5>2, Cancelled
      <4> QED
        BY <3>1, <4>1, <4>2, <4>3
    <3>5. CASE c # k
      <4>1. c \in Int /\ r \in Int /\ c <= k - 1 /\ c < k
        BY <1>3, <2>8, <3>5 DEF Cells
      <4>2. \A j \in Cells(h) : u[j] = Zero
        <5> TAKE j \in Cells(h)
        <5>1. CASE j < k
          BY <2>3, <3>3, <5>1, OneIsNeutral
        <5>2. CASE ~(j < k)
          <6>1. j > c
            BY <1>3, <4>1, <5>2 DEF Cells
          <6>2. At(s.R, w, j, c) = Zero
            BY <2>1, <4>1, <6>1 DEF QrGood
          <6> QED
            BY <2>4, <3>3, <6>2, OneIsNeutral
        <5> QED
          BY <5>1, <5>2
      <4>3. SumOf(u, h) = Zero
        <5>1. SumOf(u, h) = u[r]
          BY <3>2, <4>2, NumbersClosed, SumOfOne
        <5> QED
          BY <4>2, <5>1
      <4>4. At(s.R, w, r, c) = Zero
        BY <2>1, <2>8, <4>1 DEF QrGood
      <4> QED
        BY <3>1, <3>2, <4>3, <4>4, OneIsNeutral, NumbersClosed
    <3> QED
      BY <3>4, <3>5
  <2> HIDE DEF H2, R2
  <2>9. QrGood([H |-> H2, R |-> R2], M, h, w, k)
    BY <2>5, <2>6, <2>7, <2>8 DEF QrGood
  <2> QED
    BY <1>2, <1>6, <2>9 DEF QrStage, QrStates
<1> QED
  BY <1>7, <1>8

\* The number of reflections.
Reflections(h, w) == IF h - 1 < w THEN h - 1 ELSE w

\* All reflections.
Reflected(M, h, w) ==
  For(0, Reflections(h, w) - 1,
      LAMBDA s, k : LET Hi == Reflection(s.R, k, h, w)
                    IN  [H |-> MatMul(Hi, s.H, h, h, h), R |-> MatMul(Hi, s.R, h, h, w)],
      [H |-> Identity(h), R |-> M])

\* The loop of smls_mat_qr keeps its stage.
LEMMA ReflectedRuns ==
  ASSUME NEW h \in Nat, h # 0, NEW w \in Nat, NEW M \in Matrices(h, w)
  PROVE  Reflected(M, h, w) \in QrStage(M, h, w, Reflections(h, w) - 1)
<1> DEFINE lo == 0
           hi == Reflections(h, w) - 1
           start == [H |-> Identity(h), R |-> M]
           B(s, c) == QrColumn(s, c, h, w)
           P(f) == f = [i \in lo - 1 .. hi |-> IF i < lo THEN start ELSE B(f[i - 1], i)]
           z == CHOOSE f : P(f)
           S == QrStates(h, w)
           body == [q \in S \X Int |-> B(q[1], q[2])]
           Stage == [i \in lo - 1 .. hi |-> QrStage(M, h, w, i)]
<1>1. Reflected(M, h, w) = IF hi < lo THEN start ELSE z[hi]
  BY DEF Reflected, For, QrColumn
<1>2. lo \in Int /\ hi \in Int /\ lo - 1 \in lo - 1 .. hi /\ hi \in lo - 1 .. hi /\ (hi < lo => hi = lo - 1)
      /\ hi <= h - 2 /\ hi <= w - 1
  BY DEF Reflections
<1>3. start \in S /\ start \in QrStage(M, h, w, lo - 1)
  <2>1. Identity(h) \in Matrices(h, h) /\ MatMul(Identity(h), M, h, h, w) = M
    BY IdentityCells, IdentityIsNeutral
  <2>2. Identity(h) \in FractionCells(h * h) /\ M \in FractionCells(h * w)
    BY <2>1 DEF Matrices, Vector, FractionCells, Number
  <2>3. Transpose(Identity(h), h, h) = Identity(h)
    <3>1. Transpose(Identity(h), h, h) \in Matrices(h, h) /\ \A i, j \in Cells(h) : At(Transpose(Identity(h), h, h), h, j, i) = At(Identity(h), h, i, j)
      BY <2>1, TransposeCells
    <3>2. \A i, j \in Cells(h) : At(Identity(h), h, i, j) = At(Identity(h), h, j, i)
      BY IdentityCells
    <3> QED
      BY <2>1, <3>1, <3>2, SameMatrix
  <2>4. MatMul(Identity(h), Identity(h), h, h, h) = Identity(h)
    BY <2>1, IdentityIsNeutral
  <2>5. \A r \in Cells(h), c \in Cells(w) : ~(c <= lo - 1)
    BY DEF Cells
  <2> HIDE DEF lo
  <2>6. QrGood(start, M, h, w, lo - 1)
    BY <2>1, <2>3, <2>4, <2>5 DEF QrGood
  <2> QED
    BY <2>2, <2>6 DEF QrStage, QrStates
<1>4. ASSUME NEW i \in lo .. hi, NEW s \in QrStage(M, h, w, i - 1)
      PROVE  B(s, i) \in QrStage(M, h, w, i) /\ body[<<s, i>>] = B(s, i)
  <2>1. i \in Cells(h) /\ i \in Cells(w) /\ i \in Int
    BY <1>2 DEF Cells
  <2>2. s \in S
    BY DEF QrStage
  <2>3. B(s, i) \in QrStage(M, h, w, i)
    BY <2>1, QrStep
  <2> QED
    BY <2>1, <2>2, <2>3
<1>5. \A i \in lo - 1 .. hi : Stage[i] = QrStage(M, h, w, i) /\ Stage[i] \subseteq S
  BY DEF QrStage
<1>6. Stage[hi] = QrStage(M, h, w, Reflections(h, w) - 1)
  BY <1>2, <1>5
<1> HIDE DEF Stage, body, start, lo, hi, B, S
<1>7. \A i \in lo .. hi : i \in lo - 1 .. hi /\ i - 1 \in lo - 1 .. hi /\ ~(i < lo)
  BY <1>2
<1>8. ASSUME NEW i \in lo .. hi, NEW s \in Stage[i - 1]
      PROVE  B(s, i) \in Stage[i] /\ body[<<s, i>>] = B(s, i)
  BY <1>4, <1>5, <1>7
<1>9. start \in Stage[lo - 1]
  BY <1>2, <1>3, <1>5
<1>10. PICK f : Runs(f, lo, hi, start, body) /\ \A i \in lo - 1 .. hi : f[i] \in Stage[i]
  <2>1. Leads(lo, hi, start, body, Stage)
    BY <1>8, <1>9 DEF Leads
  <2> QED
    BY <1>2, <1>3, <1>5, <2>1, LoopRuns
<1>11. P(f)
  <2>1. \A i \in lo - 1 .. hi : ~(i < lo) => body[<<f[i - 1], i>>] = B(f[i - 1], i)
    BY <1>2, <1>7, <1>8, <1>10
  <2> QED
    BY <1>10, <2>1 DEF Runs
<1> HIDE DEF P
<1>12. P(z)
  BY <1>11
<1> HIDE DEF z
<1>13. \A i \in lo - 1 .. hi : z[i] = IF i < lo THEN start ELSE B(z[i - 1], i)
  BY <1>12 DEF P
<1>14. \A i \in lo - 1 .. hi : z[i] \in Stage[i]
  <2>1. z[lo - 1] \in Stage[lo - 1]
    <3>1. lo - 1 \in lo - 1 .. hi /\ lo - 1 < lo
      BY <1>2
    <3>2. z[lo - 1] = start
      BY <1>13, <3>1
    <3> QED
      BY <1>9, <3>2
  <2>2. \A i \in lo .. hi : z[i - 1] \in Stage[i - 1] => z[i] \in Stage[i]
    BY <1>7, <1>8, <1>13
  <2> QED
    BY <1>2, <2>1, <2>2, StagesHold
<1> QED
  BY <1>1, <1>2, <1>6, <1>9, <1>14

\* What smls_mat_qr returns: without numbers in R, or the two factors.
LEMMA QrGives ==
  ASSUME NEW h \in Nat, h # 0, NEW w \in Nat, NEW M \in Matrices(h, w)
  PROVE  LET f == Qr(M, h, w)
         IN  /\ f.R \in FractionCells(h * w)
             /\ \/ \A r \in Cells(h), c \in Cells(w) : ~IsNumber(At(f.R, w, r, c))
                \/ /\ f.ok /\ f.Q \in Matrices(h, h) /\ f.R \in Matrices(h, w)
                   /\ MatMul(f.Q, Transpose(f.Q, h, h), h, h, h) = Identity(h)
                   /\ \A r \in Cells(h), c \in Cells(w) : r > c => At(f.R, w, r, c) = Zero
                   /\ MatMul(f.Q, f.R, h, h, w) = M
<1> DEFINE s == Reflected(M, h, w)
           H == s.H
           R == s.R
           f == Qr(M, h, w)
           Q == Transpose(H, h, h)
<1>1. f = [ok |-> Inv(H, h).ok, Q |-> Inv(H, h).Ai, R |-> R]
  BY DEF Qr, Reflected, Reflections
<1>2. s \in QrStage(M, h, w, Reflections(h, w) - 1)
  BY ReflectedRuns
<1> HIDE DEF s
<1>3. R \in FractionCells(h * w) /\ (QrVoid(s, h, w) \/ QrGood(s, M, h, w, Reflections(h, w) - 1))
  BY <1>2 DEF QrStage, QrStates
<1>4. CASE QrVoid(s, h, w)
  BY <1>1, <1>3, <1>4 DEF QrVoid
<1>5. CASE QrGood(s, M, h, w, Reflections(h, w) - 1)
  <2>1. H \in Matrices(h, h) /\ R \in Matrices(h, w) /\ MatMul(Q, H, h, h, h) = Identity(h) /\ MatMul(H, M, h, h, w) = R
    BY <1>5 DEF QrGood
  <2>2. \A r \in Cells(h), c \in Cells(w) : r > c => At(R, w, r, c) = Zero
    <3> TAKE r \in Cells(h), c \in Cells(w)
    <3>1. r > c => c <= Reflections(h, w) - 1
      BY DEF Cells, Reflections
    <3> QED
      BY <1>5, <3>1 DEF QrGood
  <2>3. Q \in Matrices(h, h) /\ Transpose(Q, h, h) = H
    BY <2>1, TransposeCells, TransposeTwice
  <2> HIDE DEF H, R, Q
  <2>4. Inv(H, h).ok /\ Inv(H, h).Ai = Q
    BY <2>1, <2>3, InverseIs
  <2>5. MatMul(Q, R, h, h, w) = M
    <3>1. MatMul(MatMul(Q, H, h, h, h), M, h, h, w) = MatMul(Q, MatMul(H, M, h, h, w), h, h, w)
      BY <2>1, <2>3, ProductAssociative
    <3>2. MatMul(Identity(h), M, h, h, w) = M
      BY IdentityIsNeutral
    <3> QED
      BY <2>1, <3>1, <3>2
  <2>6. f.ok /\ f.Q = Q /\ f.R = R
    BY <1>1, <2>4
  <2> HIDE DEF f
  <2>7. R \in FractionCells(h * w) /\ MatMul(Q, Transpose(Q, h, h), h, h, h) = Identity(h)
    BY <1>3, <2>1, <2>3 DEF R
  <2> QED
    BY <2>1, <2>2, <2>3, <2>5, <2>6, <2>7 DEF f
<1> QED
  BY <1>3, <1>4, <1>5

\* The rows a triangular solver divides by no number.
VoidStage(m, s) == {x \in [Cells(m) -> {Zero, NaN}] : \A r \in Cells(m) : r >= m - 1 - s => x[r] = NaN}

\* A triangular matrix without numbers on its diagonal gives no number.
LEMMA UpperVoid ==
  ASSUME NEW m \in Nat, m # 0, NEW M, NEW b, \A r \in Cells(m) : ~IsNumber(M[r * m + r])
  PROVE  ~MadeOfNumbers(UpperTriangular(M, b, m))
<1> DEFINE lo == 0
           hi == m - 1
           start == Filled(m, Zero)
           B(x, i) == SolvedRow(M, b, m, x, m - 1 - i, m - 1 - i, m - 1)
           P(f) == f = [i \in lo - 1 .. hi |-> IF i < lo THEN start ELSE B(f[i - 1], i)]
           z == CHOOSE f : P(f)
           S == [Cells(m) -> {Zero, NaN}]
           body == [q \in S \X Int |-> B(q[1], q[2])]
           Stage == [i \in lo - 1 .. hi |-> VoidStage(m, i)]
<1> SUFFICES UpperTriangular(M, b, m) \in VoidStage(m, m - 1)
  <2> DEFINE x == UpperTriangular(M, b, m)
  <2> HIDE DEF x
  <2>1. ASSUME x \in VoidStage(m, m - 1) PROVE ~MadeOfNumbers(x)
    <3>1. 0 \in Cells(m) /\ 0 >= m - 1 - (m - 1)
      BY DEF Cells
    <3>2. DOMAIN x = Cells(m) /\ x[0] = NaN
      BY <2>1, <3>1 DEF VoidStage
    <3> QED
      BY <3>1, <3>2, NanIsFraction DEF MadeOfNumbers
  <2> QED
    BY <2>1 DEF x
<1>1. UpperTriangular(M, b, m) = IF hi < lo THEN start ELSE z[hi]
  BY DEF UpperTriangular, For
<1>2. lo \in Int /\ hi \in Int /\ lo - 1 \in lo - 1 .. hi /\ hi \in lo - 1 .. hi /\ (hi < lo => hi = lo - 1)
  OBVIOUS
<1>3. start \in S /\ start \in VoidStage(m, lo - 1)
  <2>1. start \in S
    BY DEF Filled
  <2>2. \A r \in Cells(m) : ~(r >= m - 1 - (lo - 1))
    BY DEF Cells
  <2> HIDE DEF lo, start
  <2> QED
    BY <2>1, <2>2 DEF VoidStage
<1>4. ASSUME NEW i \in lo .. hi, NEW s \in VoidStage(m, i - 1)
      PROVE  B(s, i) \in VoidStage(m, i) /\ body[<<s, i>>] = B(s, i)
  <2> DEFINE k == m - 1 - i
             y == [s EXCEPT ![k] = NaN]
  <2>1. k \in Cells(m) /\ i \in Int
    BY DEF Cells
  <2>2. s \in S
    BY DEF VoidStage
  <2>3. B(s, i) = y
    <3>1. SolvedRow(M, b, m, s, k, k, m - 1) = y
      <4> HIDE DEF k
      <4>1. ~IsNumber(M[k * m + k])
        BY <2>1
      <4> QED
        BY <4>1 DEF SolvedRow, Div
    <3> QED
      BY <3>1
  <2>4. y \in VoidStage(m, i)
    <3>1. y \in S /\ \A r \in Cells(m) : y[r] = IF r = k THEN NaN ELSE s[r]
      BY <2>1, <2>2
    <3>2. \A r \in Cells(m) : r >= m - 1 - i /\ r # k => r >= m - 1 - (i - 1)
      BY <2>1 DEF Cells
    <3> HIDE DEF y, k
    <3>3. \A r \in Cells(m) : r >= m - 1 - i => y[r] = NaN
      BY <3>1, <3>2 DEF VoidStage
    <3> QED
      BY <3>1, <3>3 DEF VoidStage
  <2> QED
    BY <2>1, <2>2, <2>3, <2>4
<1>5. \A i \in lo - 1 .. hi : Stage[i] = VoidStage(m, i) /\ Stage[i] \subseteq S
  BY DEF VoidStage
<1>6. Stage[hi] = VoidStage(m, m - 1)
  BY <1>2, <1>5
<1> HIDE DEF Stage, body, start, lo, hi, B, S
<1>7. \A i \in lo .. hi : i \in lo - 1 .. hi /\ i - 1 \in lo - 1 .. hi /\ ~(i < lo)
  BY <1>2
<1>8. ASSUME NEW i \in lo .. hi, NEW s \in Stage[i - 1]
      PROVE  B(s, i) \in Stage[i] /\ body[<<s, i>>] = B(s, i)
  BY <1>4, <1>5, <1>7
<1>9. start \in Stage[lo - 1]
  BY <1>2, <1>3, <1>5
<1>10. PICK f : Runs(f, lo, hi, start, body) /\ \A i \in lo - 1 .. hi : f[i] \in Stage[i]
  <2>1. Leads(lo, hi, start, body, Stage)
    BY <1>8, <1>9 DEF Leads
  <2> QED
    BY <1>2, <1>3, <1>5, <2>1, LoopRuns
<1>11. P(f)
  <2>1. \A i \in lo - 1 .. hi : ~(i < lo) => body[<<f[i - 1], i>>] = B(f[i - 1], i)
    BY <1>2, <1>7, <1>8, <1>10
  <2> QED
    BY <1>10, <2>1 DEF Runs
<1> HIDE DEF P
<1>12. P(z)
  BY <1>11
<1> HIDE DEF z
<1>13. \A i \in lo - 1 .. hi : z[i] = IF i < lo THEN start ELSE B(z[i - 1], i)
  BY <1>12 DEF P
<1>14. \A i \in lo - 1 .. hi : z[i] \in Stage[i]
  <2>1. z[lo - 1] \in Stage[lo - 1]
    <3>1. lo - 1 \in lo - 1 .. hi /\ lo - 1 < lo
      BY <1>2
    <3>2. z[lo - 1] = start
      BY <1>13, <3>1
    <3> QED
      BY <1>9, <3>2
  <2>2. \A i \in lo .. hi : z[i - 1] \in Stage[i - 1] => z[i] \in Stage[i]
    BY <1>7, <1>8, <1>13
  <2> QED
    BY <1>2, <2>1, <2>2, StagesHold
<1> QED
  BY <1>1, <1>2, <1>6, <1>9, <1>14

\* smls_linsolve_qr: a solution made of numbers is one.
LEMMA QrNumbersSolve ==
  ASSUME NEW m \in Nat, m # 0, NEW M \in Matrices(m, m), NEW b \in Vector(m), MadeOfNumbers(LinsolveQr(M, b, m, m))
  PROVE  MatMul(M, LinsolveQr(M, b, m, m), m, m, 1) = b
<1> DEFINE f == Qr(M, m, m)
           Q == f.Q
           R == f.R
           c == MatMul(Transpose(Q, m, m), b, m, m, 1)
           x == UpperTriangular(R, c, m)
<1>1. LinsolveQr(M, b, m, m) = x
  BY DEF LinsolveQr
<1>2. /\ R \in FractionCells(m * m)
      /\ \/ \A r, k \in Cells(m) : ~IsNumber(At(R, m, r, k))
         \/ /\ Q \in Matrices(m, m) /\ R \in Matrices(m, m)
            /\ MatMul(Q, Transpose(Q, m, m), m, m, m) = Identity(m)
            /\ \A r, k \in Cells(m) : r > k => At(R, m, r, k) = Zero
            /\ MatMul(Q, R, m, m, m) = M
  BY QrGives
<1> HIDE DEF f
<1>3. \A r \in Cells(m) : r * m = m * r
  BY DEF Cells
<1>4. ~\A r, k \in Cells(m) : ~IsNumber(At(R, m, r, k))
  <2> SUFFICES ASSUME \A r, k \in Cells(m) : ~IsNumber(At(R, m, r, k)) PROVE FALSE
    OBVIOUS
  <2>1. \A r \in Cells(m) : ~IsNumber(R[r * m + r])
    BY <1>3 DEF At
  <2> HIDE DEF R, c
  <2> QED
    BY <1>1, <2>1, UpperVoid
<1>5. /\ Q \in Matrices(m, m) /\ R \in Matrices(m, m)
      /\ MatMul(Q, Transpose(Q, m, m), m, m, m) = Identity(m)
      /\ \A r, k \in Cells(m) : r > k => At(R, m, r, k) = Zero
      /\ MatMul(Q, R, m, m, m) = M
  BY <1>2, <1>4
<1>6. m * 1 = m /\ 1 \in Nat
  OBVIOUS
<1>7. b \in Matrices(m, 1) /\ Transpose(Q, m, m) \in Matrices(m, m)
  BY <1>5, <1>6, TransposeCells DEF Matrices
<1>8. c \in Matrices(m, 1) /\ c \in Vector(m)
  <2>1. c \in Matrices(m, 1)
    BY <1>6, <1>7, ProductType
  <2> QED
    BY <1>6, <2>1 DEF Matrices
<1> HIDE DEF Q, R
<1>9. x \in Vector(m) /\ MatMul(R, x, m, m, 1) = c
  <2> HIDE DEF c
  <2>1. c \in FractionCells(m)
    BY <1>8 DEF Vector, FractionCells, Number
  <2>2. \A r \in Cells(m) : R[r * m + r] # Zero
    BY <1>1, <1>2, <2>1, UpperNumbers
  <2>3. \A r, k \in Cells(m) : k < r => R[r * m + k] = Zero
    BY <1>3, <1>5 DEF At, Cells
  <2>4. R \in Vector(m * m)
    BY <1>5 DEF Matrices
  <2> QED
    BY <1>8, <2>2, <2>3, <2>4, UpperSolves
<1> HIDE DEF x
<1>10. x \in Matrices(m, 1)
  BY <1>6, <1>9 DEF Matrices
<1>11. MatMul(MatMul(Q, R, m, m, m), x, m, m, 1) = MatMul(Q, MatMul(R, x, m, m, 1), m, m, 1)
  BY <1>5, <1>6, <1>10, ProductAssociative
<1>12. MatMul(MatMul(Q, Transpose(Q, m, m), m, m, m), b, m, m, 1) = MatMul(Q, c, m, m, 1)
  BY <1>5, <1>6, <1>7, ProductAssociative
<1>13. MatMul(Identity(m), b, m, m, 1) = b
  BY <1>6, <1>7, IdentityIsNeutral
<1> QED
  BY <1>1, <1>5, <1>9, <1>11, <1>12, <1>13

-----------------------------------------------------------------------------
(* The Cholesky factor (chol, linsolve_chol). It is the one the matrix was made of.*)

\* Lower triangular with a positive diagonal, by its cells.
Triangle(L, m) ==
  /\ \A i, j \in Cells(m) : j > i => At(L, m, i, j) = Zero
  /\ \A i \in Cells(m) : At(L, m, i, i) \in Positive

\* What the model calls a factor, by rows and columns.
LEMMA TriangleIs ==
  ASSUME NEW m \in Nat, NEW L \in Matrices(m, m)
  PROVE  IsCholeskyFactor(L, m) <=> Triangle(L, m)
<1>1. ASSUME NEW i \in Cells(m)
      PROVE  Less(Zero, L[m * i + i]) <=> At(L, m, i, i) \in Positive
  <2>1. At(L, m, i, i) \in Fraction
    BY AtNumber DEF Number
  <2> QED
    BY <2>1, PositiveIs DEF At
<1>2. ASSUME NEW i \in Cells(m), NEW j \in Cells(m), IsCholeskyFactor(L, m), j > i
      PROVE  At(L, m, i, j) = Zero
  <2>1. m * i + j \in Cells(m * m) /\ (m * i + j) \div m = i /\ (m * i + j) % m = j
    BY CellOf
  <2> QED
    BY <1>2, <2>1 DEF IsCholeskyFactor, At
<1>3. ASSUME Triangle(L, m), NEW c \in Cells(m * m), c % m > c \div m
      PROVE  L[c] = Zero
  <2>1. c \div m \in Cells(m) /\ c % m \in Cells(m) /\ c = m * (c \div m) + (c % m)
    BY PartsOf
  <2> QED
    BY <1>3, <2>1 DEF Triangle, At
<1> QED
  BY <1>1, <1>2, <1>3 DEF IsCholeskyFactor, Triangle

\* The part of row i times row j of L in front of column j.
CholSum(L, m, i, j) == SumOver(0, j - 1, LAMBDA k : Mul(L[m * i + k], L[m * j + k]))

\* What the loop adds up, where the elements it reads are those of v.
LEMMA CholSumIs ==
  ASSUME NEW m \in Nat, NEW L, NEW i \in Cells(m), NEW j \in Cells(m), NEW v \in Vector(m),
         \A k \in Cells(m) : k < j => Mul(At(L, m, i, k), At(L, m, j, k)) = v[k]
  PROVE  CholSum(L, m, i, j) = Total(v, 0, j - 1)
<1> DEFINE lo == 0
           hi == j - 1
           e(k) == Mul(L[m * i + k], L[m * j + k])
           P(f) == f = [k \in lo - 1 .. hi |-> IF k < lo THEN Zero ELSE Add(f[k - 1], e(k))]
           z == CHOOSE f : P(f)
<1>1. CholSum(L, m, i, j) = IF hi < lo THEN Zero ELSE z[hi]
  BY DEF CholSum, SumOver, For
<1>2. lo \in Int /\ hi \in Int /\ lo - 1 <= hi /\ hi <= m - 1
  BY DEF Cells
<1>3. \A k \in lo - 1 .. hi : ~(k < lo) => v[k] = e(k)
  <2> TAKE k \in lo - 1 .. hi
  <2> HAVE ~(k < lo)
  <2>1. k \in Cells(m) /\ k < j
    BY <1>2 DEF Cells
  <2> QED
    BY <2>1 DEF At
<1>4. Numbers(v, lo, hi)
  <2>1. \A k \in Cells(m) : v[k] \in Number
    BY SumOfNumbers
  <2>2. \A k \in lo .. hi : k \in Cells(m)
    BY <1>2 DEF Cells
  <2> QED
    BY <2>1, <2>2 DEF Numbers
<1> HIDE DEF e, lo, hi
<1>5. PICK s \in [lo - 1 .. hi -> Number] : Sums(s, v, lo, hi)
  BY <1>2, <1>4, NumberSumsExist
<1>6. P(s)
  <2>1. \A k \in lo - 1 .. hi : s[k] = IF k < lo THEN Zero ELSE Add(s[k - 1], e(k))
    BY <1>3, <1>5 DEF Sums
  <2> QED
    BY <2>1
<1> HIDE DEF P
<1>7. P(z)
  BY <1>6
<1> HIDE DEF z
<1>8. Sums(z, v, lo, hi)
  BY <1>3, <1>7 DEF P, Sums
<1>9. Total(v, lo, hi) = z[hi]
  BY <1>2, <1>4, <1>8, TotalIs
<1>10. CASE hi < lo
  <2>1. hi = lo - 1
    BY <1>2, <1>10
  <2> QED
    BY <1>1, <1>2, <1>10, <2>1, TotalEmpty DEF lo, hi
<1>11. CASE ~(hi < lo)
  BY <1>1, <1>9, <1>11 DEF lo, hi
<1> QED
  BY <1>10, <1>11

\* An array that changes in p, and then in q.
TwoChanged(L, p, x, q, y) == [L EXCEPT ![p] = x, ![q] = y]

\* The second change only, where the first one changes nothing.
LEMMA OneChanged ==
  ASSUME NEW L, NEW p, NEW q, NEW y
  PROVE  TwoChanged(L, p, L[p], q, y) = [e \in DOMAIN L |-> IF e = q THEN y ELSE L[e]]
BY SMT DEF TwoChanged

\* One cell of the loop.
CholCell(L, W, m, c) ==
  LET i == c \div m
      j == c % m
      rest == Sub(W[m * i + j], CholSum(L, m, i, j))
      diagonal == IF L[m * j + j] = Zero THEN <<1, 8388608>> ELSE L[m * j + j]
  IN  IF j > i THEN L
      ELSE IF i = j THEN [L EXCEPT ![c] = Root(rest)]
      ELSE [L EXCEPT ![m * j + j] = diagonal, ![c] = Mul(Div(One, diagonal), rest)]

\* The cells up to c are those of L, the others still zero.
CholKept(L, m, c) == [e \in Cells(m * m) |-> IF e <= c THEN L[e] ELSE Zero]

\* Where row i, column j is behind every cell of row i in front of it and of the rows above.
LEMMA CellsBefore ==
  ASSUME NEW m \in Nat, NEW i \in Cells(m), NEW j \in Cells(m), NEW k \in Cells(m)
  PROVE  /\ k < j => m * i + k <= m * i + j - 1
         /\ j < i => m * j + k <= m * i + j - 1
<1>1. i \in Nat /\ j \in Nat /\ k \in Nat /\ k <= m - 1
  BY DEF Cells
<1>2. ASSUME j < i PROVE m * j + k <= m * i + j - 1
  <2>1. j + 1 <= i
    BY <1>1, <1>2
  <2>2. m * (j + 1) <= m * i
    BY <1>1, <2>1
  <2>3. m * (j + 1) = m * j + m
    BY <1>1
  <2> QED
    BY <1>1, <2>2, <2>3
<1>3. m * i \in Int
  BY <1>1
<1> QED
  BY <1>1, <1>2, <1>3

\* What is left of a cell of L * L' when the columns before j are taken away.
LEMMA CholRest ==
  ASSUME NEW m \in Nat, NEW L \in Matrices(m, m), Triangle(L, m), NEW i \in Cells(m), NEW j \in Cells(m)
  PROVE  Sub(SumOf(RowsTimes(L, m, i, j), m), Total(RowsTimes(L, m, i, j), 0, j - 1)) = Mul(At(L, m, i, j), At(L, m, j, j))
<1> DEFINE v == RowsTimes(L, m, i, j)
<1>1. v \in Vector(m) /\ \A k \in Cells(m) : v[k] = Mul(At(L, m, i, k), At(L, m, j, k))
  BY RowsTimesNumbers
<1> HIDE DEF v
<1>2. Numbers(v, 0, m - 1) /\ \A k \in Cells(m) : v[k] \in Number
  BY <1>1, SumOfNumbers
<1>3. j \in Int /\ 0 <= j /\ j <= m - 1
  BY DEF Cells
<1>4. \A k \in j + 1 .. m - 1 : v[k] = Zero
  <2> TAKE k \in j + 1 .. m - 1
  <2>1. k \in Cells(m) /\ k > j
    BY <1>3 DEF Cells
  <2>2. At(L, m, j, k) = Zero /\ At(L, m, i, k) \in Number
    BY <2>1, AtNumber DEF Triangle
  <2> QED
    BY <1>1, <2>1, <2>2, OneIsNeutral
<1>5. SumOf(v, m) = Total(v, 0, j)
  BY <1>2, <1>3, <1>4, TotalStops DEF SumOf
<1>6. Numbers(v, 0, j) /\ Numbers(v, 0, j - 1)
  <2>1. \A k \in 0 .. j : k \in Cells(m)
    BY <1>3 DEF Cells
  <2>2. \A k \in 0 .. j - 1 : k \in Cells(m)
    BY <1>3 DEF Cells
  <2> QED
    BY <1>2, <2>1, <2>2 DEF Numbers
<1>7. Total(v, 0, j) = Add(Total(v, 0, j - 1), v[j])
  BY <1>3, <1>6, TotalLast
<1> DEFINE t == Total(v, 0, j - 1)
<1>8. t \in Number
  BY <1>3, <1>6, TotalType
<1> HIDE DEF t
<1>9. v[j] \in Number
  BY <1>2
<1>10. Add(t, v[j]) = Add(v[j], t)
  BY <1>8, <1>9, AddCommutes DEF Number
<1>11. Sub(Add(v[j], t), t) = v[j]
  BY <1>8, <1>9, SubUndoes
<1> QED
  BY <1>1, <1>5, <1>7, <1>10, <1>11 DEF t, v

\* Each cell comes out as that of the factor.
LEMMA CholStep ==
  ASSUME NEW m \in Nat, NEW L \in Matrices(m, m), Triangle(L, m), NEW W,
         \A i, j \in Cells(m) : At(W, m, i, j) = SumOf(RowsTimes(L, m, i, j), m),
         NEW c \in Cells(m * m)
  PROVE  CholCell(CholKept(L, m, c - 1), W, m, c) = CholKept(L, m, c)
<1> DEFINE i == c \div m
           j == c % m
           K == CholKept(L, m, c - 1)
           v == RowsTimes(L, m, i, j)
           rest == Sub(W[m * i + j], CholSum(K, m, i, j))
           diagonal == IF K[m * j + j] = Zero THEN <<1, 8388608>> ELSE K[m * j + j]
<1> SUFFICES CholCell(K, W, m, c) = CholKept(L, m, c)
  OBVIOUS
<1>1. /\ j > i => CholCell(K, W, m, c) = K
      /\ ~(j > i) /\ i = j => CholCell(K, W, m, c) = [K EXCEPT ![c] = Root(rest)]
      /\ ~(j > i) /\ i # j => CholCell(K, W, m, c) = TwoChanged(K, m * j + j, diagonal, c, Mul(Div(One, diagonal), rest))
  BY SMT DEF CholCell, TwoChanged
<1> HIDE DEF rest, diagonal
<1>2. i \in Cells(m) /\ j \in Cells(m) /\ c = m * i + j
  BY PartsOf
<1> HIDE DEF i, j
<1>3. c \in Int /\ c \in Cells(m * m) /\ \A e \in Cells(m * m) : e \in Int
  BY DEF Cells
<1>4. \A e \in Cells(m * m) : K[e] = IF e <= c - 1 THEN L[e] ELSE Zero
  BY DEF CholKept
<1>5. DOMAIN K = Cells(m * m)
  BY DEF CholKept
<1> HIDE DEF K
<1>6. ASSUME NEW q \in Cells(m), NEW k \in Cells(m), m * q + k <= c - 1
      PROVE  At(K, m, q, k) = At(L, m, q, k)
  <2>1. m * q + k \in Cells(m * m)
    BY CellOf
  <2> QED
    BY <1>4, <1>6, <2>1 DEF At
<1>7. i \in Int /\ j \in Int
  BY <1>2, CellOrder
<1>8. L[c] = At(L, m, i, j) /\ L[c] \in Number
  BY <1>2, AtNumber DEF At
<1>9. [K EXCEPT ![c] = L[c]] = CholKept(L, m, c)
  <2> DEFINE N == [K EXCEPT ![c] = L[c]]
  <2>1. \A e \in Cells(m * m) : N[e] = IF e = c THEN L[c] ELSE K[e]
    BY <1>5
  <2>2. \A e \in Cells(m * m) : N[e] = IF e <= c THEN L[e] ELSE Zero
    <3> TAKE e \in Cells(m * m)
    <3>1. e \in Int
      BY <1>3
    <3> HIDE DEF N
    <3>2. CASE e = c
      BY <1>3, <2>1, <3>2
    <3>3. CASE e < c
      <4>1. e <= c - 1 /\ e <= c /\ e # c
        BY <1>3, <3>1, <3>3
      <4> QED
        BY <1>4, <2>1, <4>1
    <3>4. CASE e > c
      <4>1. ~(e <= c - 1) /\ ~(e <= c) /\ e # c
        BY <1>3, <3>1, <3>4
      <4> QED
        BY <1>4, <2>1, <4>1
    <3> QED
      BY <1>3, <3>1, <3>2, <3>3, <3>4
  <2>3. N = [e \in Cells(m * m) |-> N[e]]
    BY <1>5
  <2> HIDE DEF N
  <2>4. N = CholKept(L, m, c)
    BY <2>2, <2>3 DEF CholKept
  <2> QED
    BY <2>4 DEF N
<1>10. j <= i => rest = Mul(At(L, m, i, j), At(L, m, j, j))
  <2> HAVE j <= i
  <2>1. v \in Vector(m) /\ \A k \in Cells(m) : v[k] = Mul(At(L, m, i, k), At(L, m, j, k))
    BY <1>2, RowsTimesNumbers
  <2>2. ASSUME NEW k \in Cells(m), k < j
        PROVE  Mul(At(K, m, i, k), At(K, m, j, k)) = v[k]
    <3>1. m * i + k <= c - 1
      BY <1>2, <2>2, CellsBefore
    <3>2. m * j + k <= c - 1
      <4>1. CASE j < i
        BY <1>2, <4>1, CellsBefore
      <4>2. CASE j = i
        BY <3>1, <4>2
      <4> QED
        BY <1>7, <4>1, <4>2
    <3>3. At(K, m, i, k) = At(L, m, i, k) /\ At(K, m, j, k) = At(L, m, j, k)
      BY <1>2, <1>6, <3>1, <3>2
    <3> QED
      BY <2>1, <3>3
  <2> HIDE DEF v
  <2>3. CholSum(K, m, i, j) = Total(v, 0, j - 1)
    BY <1>2, <2>1, <2>2, CholSumIs
  <2>4. W[m * i + j] = SumOf(v, m)
    BY <1>2 DEF At, v
  <2>5. Sub(SumOf(v, m), Total(v, 0, j - 1)) = Mul(At(L, m, i, j), At(L, m, j, j))
    BY <1>2, CholRest DEF v
  <2> QED
    BY <2>3, <2>4, <2>5 DEF rest
<1> DEFINE d == At(L, m, j, j)
<1>11. d \in Positive /\ d \in Number /\ d # Zero
  BY <1>2, PositiveIs DEF Triangle, Positive, Number
<1>12. CASE j > i
  <2>1. L[c] = Zero
    BY <1>2, <1>8, <1>12 DEF Triangle
  <2>2. K[c] = L[c]
    <3>1. ~(c <= c - 1)
      BY <1>3
    <3> QED
      BY <1>4, <2>1, <3>1
  <2>3. K = CholKept(L, m, c)
    <3>1. [K EXCEPT ![c] = K[c]] = [e \in DOMAIN K |-> K[e]]
      OBVIOUS
    <3>2. [e \in DOMAIN K |-> K[e]] = K
      BY DEF K, CholKept
    <3>3. [K EXCEPT ![c] = K[c]] = CholKept(L, m, c)
      BY <1>9, <2>2
    <3> QED
      BY <3>1, <3>2, <3>3
  <2> QED
    BY <1>1, <1>12, <2>3
<1>13. CASE i = j
  <2>1. rest = Mul(d, d) /\ L[c] = d
    BY <1>7, <1>8, <1>10, <1>13
  <2>2. d \in NonNegative
    BY <1>11, NumberParts DEF NonNegative, Positive
  <2>3. Root(rest) = L[c]
    BY <2>1, <2>2, RootOfSquares
  <2>4. ~(j > i)
    BY <1>7, <1>13
  <2> QED
    BY <1>1, <1>9, <1>13, <2>3, <2>4
<1>14. CASE j < i
  <2>1. m * j + j <= c - 1 /\ m * j + j \in Cells(m * m)
    BY <1>2, <1>14, CellsBefore, CellOf
  <2>2. K[m * j + j] = d
    BY <1>2, <1>6, <2>1 DEF At
  <2>3. diagonal = d
    BY <1>11, <2>2 DEF diagonal
  <2>4. rest = Mul(At(L, m, i, j), d)
    BY <1>7, <1>10, <1>14
  <2> HIDE DEF d
  <2>5. Mul(Div(One, diagonal), rest) = L[c]
    <3> DEFINE a == At(L, m, i, j)
               p == Div(One, d)
    <3>1. a \in Number /\ L[c] = a
      BY <1>8
    <3>2. p \in Number /\ Mul(p, d) = One
      BY <1>11, DivUndoes, NumbersClosed
    <3>3. Mul(p, rest) = Mul(p, Mul(a, d))
      BY <2>4
    <3> HIDE DEF a, p
    <3>4. Mul(a, d) = Mul(d, a)
      BY <1>11, <3>1, AddCommutes DEF Number
    <3>5. Mul(Mul(p, d), a) = Mul(p, Mul(d, a))
      BY <1>11, <3>1, <3>2, MulAssociative
    <3>6. Mul(One, a) = a
      BY <3>1, OneIsNeutral
    <3> QED
      BY <2>3, <3>1, <3>2, <3>3, <3>4, <3>5, <3>6 DEF p
  <2>6. TwoChanged(K, m * j + j, diagonal, c, Mul(Div(One, diagonal), rest)) = [K EXCEPT ![c] = L[c]]
    <3>1. TwoChanged(K, m * j + j, K[m * j + j], c, L[c]) = [e \in DOMAIN K |-> IF e = c THEN L[c] ELSE K[e]]
      BY OneChanged
    <3>2. [K EXCEPT ![c] = L[c]] = [e \in DOMAIN K |-> IF e = c THEN L[c] ELSE K[e]]
      OBVIOUS
    <3> QED
      BY <2>2, <2>3, <2>5, <3>1, <3>2
  <2>7. ~(j > i) /\ i # j
    BY <1>7, <1>14
  <2> QED
    BY <1>1, <1>9, <2>6, <2>7
<1> QED
  BY <1>7, <1>12, <1>13, <1>14

\* All cells: of L * L' the routine returns L.
LEMMA CholIs ==
  ASSUME NEW m \in Nat, NEW L \in Matrices(m, m), Triangle(L, m), NEW W,
         \A i, j \in Cells(m) : At(W, m, i, j) = SumOf(RowsTimes(L, m, i, j), m)
  PROVE  Chol(W, m) = L
<1> DEFINE lo == 0
           hi == m * m - 1
           start == Filled(m * m, Zero)
           B(s, c) == CholCell(s, W, m, c)
           P(f) == f = [i \in lo - 1 .. hi |-> IF i < lo THEN start ELSE B(f[i - 1], i)]
           z == CHOOSE f : P(f)
           S == [Cells(m * m) -> Number]
           body == [q \in S \X Int |-> B(q[1], q[2])]
           Stage == [i \in lo - 1 .. hi |-> {CholKept(L, m, i)}]
<1>1. Chol(W, m) = IF hi < lo THEN start ELSE z[hi]
  BY DEF Chol, For, CholCell, CholSum
<1>2. m * m \in Nat
  OBVIOUS
<1>3. lo \in Int /\ hi \in Int /\ lo - 1 \in lo - 1 .. hi /\ hi \in lo - 1 .. hi /\ (hi < lo => hi = lo - 1)
  BY <1>2
<1>4. L \in S /\ \A e \in Cells(m * m) : e \in Int /\ 0 <= e /\ e <= hi
  BY <1>2 DEF Matrices, Vector, Cells
<1>5. \A i \in lo - 1 .. hi : CholKept(L, m, i) \in S
  BY <1>4, NumbersClosed DEF CholKept
<1>6. start \in S /\ start \in {CholKept(L, m, lo - 1)}
  <2>1. \A e \in Cells(m * m) : ~(e <= lo - 1)
    BY <1>4
  <2>2. start = CholKept(L, m, lo - 1)
    BY <2>1 DEF Filled, CholKept
  <2> QED
    BY <1>3, <1>5, <2>2
<1>7. ASSUME NEW i \in lo .. hi, NEW s \in {CholKept(L, m, i - 1)}
      PROVE  B(s, i) \in {CholKept(L, m, i)} /\ body[<<s, i>>] = B(s, i)
  <2>1. i \in Cells(m * m) /\ i \in Int /\ i - 1 \in lo - 1 .. hi
    BY <1>3 DEF Cells
  <2>2. s \in S
    BY <1>5, <2>1
  <2>3. B(s, i) = CholKept(L, m, i)
    BY <2>1, CholStep
  <2> QED
    BY <2>1, <2>2, <2>3
<1>8. \A i \in lo - 1 .. hi : Stage[i] = {CholKept(L, m, i)} /\ Stage[i] \subseteq S
  BY <1>5
<1>9. Stage[hi] = {L}
  <2>1. CholKept(L, m, hi) = L
    BY <1>4 DEF CholKept
  <2> QED
    BY <1>3, <1>8, <2>1
<1> HIDE DEF Stage, body, start, lo, hi, B, S
<1>10. \A i \in lo .. hi : i \in lo - 1 .. hi /\ i - 1 \in lo - 1 .. hi /\ ~(i < lo)
  BY <1>3
<1>11. ASSUME NEW i \in lo .. hi, NEW s \in Stage[i - 1]
      PROVE  B(s, i) \in Stage[i] /\ body[<<s, i>>] = B(s, i)
  BY <1>7, <1>8, <1>10
<1>12. start \in Stage[lo - 1]
  BY <1>3, <1>6, <1>8
<1>13. PICK f : Runs(f, lo, hi, start, body) /\ \A i \in lo - 1 .. hi : f[i] \in Stage[i]
  <2>1. Leads(lo, hi, start, body, Stage)
    BY <1>11, <1>12 DEF Leads
  <2> QED
    BY <1>3, <1>6, <1>8, <2>1, LoopRuns
<1>14. P(f)
  <2>1. \A i \in lo - 1 .. hi : ~(i < lo) => body[<<f[i - 1], i>>] = B(f[i - 1], i)
    BY <1>3, <1>10, <1>11, <1>13
  <2> QED
    BY <1>13, <2>1 DEF Runs
<1> HIDE DEF P
<1>15. P(z)
  BY <1>14
<1> HIDE DEF z
<1>16. \A i \in lo - 1 .. hi : z[i] = IF i < lo THEN start ELSE B(z[i - 1], i)
  BY <1>15 DEF P
<1>17. \A i \in lo - 1 .. hi : z[i] \in Stage[i]
  <2>1. z[lo - 1] \in Stage[lo - 1]
    <3>1. lo - 1 \in lo - 1 .. hi /\ lo - 1 < lo
      BY <1>3
    <3>2. z[lo - 1] = start
      BY <1>16, <3>1
    <3> QED
      BY <1>12, <3>2
  <2>2. \A i \in lo .. hi : z[i - 1] \in Stage[i - 1] => z[i] \in Stage[i]
    BY <1>10, <1>11, <1>16
  <2> QED
    BY <1>3, <2>1, <2>2, StagesHold
<1> QED
  BY <1>1, <1>3, <1>9, <1>12, <1>17

\* L is the Cholesky factor of W.
Factor(L, W, m) ==
  /\ L \in Matrices(m, m) /\ Triangle(L, m)
  /\ \A i, j \in Cells(m) : SumOf(RowsTimes(L, m, i, j), m) = At(W, m, i, j)

\* What smls_mat_chol returns.
LEMMA CholFactors ==
  ASSUME NEW m \in Nat, NEW L \in Vector(m * m), IsCholeskyFactor(L, m), NEW W,
         W = MatMul(L, Transpose(L, m, m), m, m, m)
  PROVE  W \in Matrices(m, m) /\ Factor(Chol(W, m), W, m) /\ Chol(W, m) = L
<1>1. L \in Matrices(m, m)
  BY DEF Matrices
<1>2. Triangle(L, m)
  BY <1>1, TriangleIs
<1>3. W \in Matrices(m, m) /\ \A i, j \in Cells(m) : At(W, m, i, j) = SumOf(RowsTimes(L, m, i, j), m)
  BY <1>1, GramCells
<1>4. Chol(W, m) = L
  BY <1>1, <1>2, <1>3, CholIs
<1> QED
  BY <1>1, <1>2, <1>3, <1>4 DEF Factor

\* smls_linsolve_chol: the two triangular systems of a factor solve that of the matrix.
LEMMA CholSolves ==
  ASSUME NEW m \in Nat, NEW L \in Vector(m * m), IsCholeskyFactor(L, m), NEW W,
         W = MatMul(L, Transpose(L, m, m), m, m, m), NEW b \in Vector(m)
  PROVE  MatMul(W, LinsolveChol(W, b, m), m, m, 1) = b
<1> DEFINE T == Transpose(L, m, m)
           y == LowerTriangular(L, b, m)
           x == UpperTriangular(T, y, m)
<1>1. L \in Matrices(m, m) /\ Chol(W, m) = L /\ Triangle(L, m)
  BY CholFactors DEF Factor
<1>2. LinsolveChol(W, b, m) = x
  BY <1>1 DEF LinsolveChol
<1>3. T \in Matrices(m, m) /\ \A i, j \in Cells(m) : At(T, m, j, i) = At(L, m, i, j)
  BY <1>1, TransposeCells
<1>4. \A i, j \in Cells(m) : i * m = m * i /\ (j > i \/ ~(j > i))
  BY DEF Cells
<1>5. \A r \in Cells(m) : At(L, m, r, r) # Zero
  <2> TAKE r \in Cells(m)
  <2>1. At(L, m, r, r) \in Positive
    BY <1>1 DEF Triangle
  <2> QED
    BY <2>1, PositiveIs DEF Positive, Number
<1>6. y \in Vector(m) /\ MatMul(L, y, m, m, 1) = b
  <2>1. \A r \in Cells(m) : L[r * m + r] # Zero
    BY <1>4, <1>5 DEF At
  <2>2. \A r, k \in Cells(m) : k > r => L[r * m + k] = Zero
    BY <1>1, <1>4 DEF At, Triangle
  <2> QED
    BY <2>1, <2>2, LowerSolves
<1> HIDE DEF T, y
<1>7. x \in Vector(m) /\ MatMul(T, x, m, m, 1) = y
  <2>1. \A r \in Cells(m) : T[r * m + r] # Zero
    BY <1>3, <1>4, <1>5 DEF At
  <2>2. ASSUME NEW r \in Cells(m), NEW k \in Cells(m), k < r
        PROVE  T[r * m + k] = Zero
    <3>1. At(T, m, r, k) = At(L, m, k, r) /\ r > k
      BY <1>3, <2>2 DEF Cells
    <3>2. At(L, m, k, r) = Zero
      BY <1>1, <3>1 DEF Triangle
    <3> QED
      BY <1>4, <3>1, <3>2 DEF At
  <2>3. T \in Vector(m * m)
    BY <1>3 DEF Matrices
  <2> QED
    BY <1>6, <2>1, <2>2, <2>3, UpperSolves
<1> HIDE DEF x
<1>8. m * 1 = m /\ 1 \in Nat
  OBVIOUS
<1>9. x \in Matrices(m, 1)
  BY <1>7, <1>8 DEF Matrices
<1>10. MatMul(MatMul(L, T, m, m, m), x, m, m, 1) = MatMul(L, MatMul(T, x, m, m, 1), m, m, 1)
  BY <1>1, <1>3, <1>8, <1>9, ProductAssociative
<1> QED
  BY <1>2, <1>6, <1>7, <1>10 DEF T

-----------------------------------------------------------------------------
(* Its updates (chol_update). Column k turns the column and what is left of x, so that*)
(* L * L' and x * x' keep their sum.                                                  *)

\* Column k of N and the rest of y are made from L and x.
UpdateOf(N, y, L, x, m, k, sg, r, t, c) ==
  /\ \A i, j \in Cells(m) :
       At(N, m, i, j) = IF j # k \/ i < k THEN At(L, m, i, j)
                        ELSE IF i = k THEN r ELSE Div(Add(At(L, m, i, k), Mul(sg, Mul(t, x[i]))), c)
  /\ \A i \in Cells(m) :
       y[i] = IF i <= k THEN x[i]
              ELSE Sub(Mul(c, x[i]), Mul(t, Div(Add(At(L, m, i, k), Mul(sg, Mul(t, x[i]))), c)))

\* What UpdatedColumn computes with: the square of the new diagonal, and the turn.
NewSquare(s, k, m, sg) == Add(Mul(At(s.L, m, k, k), At(s.L, m, k, k)), Mul(sg, Mul(s.x[k], s.x[k])))
Slope(s, k, m) == Div(s.x[k], At(s.L, m, k, k))
Stretch(s, k, m, sg) == Div(Root(NewSquare(s, k, m, sg)), At(s.L, m, k, k))

\* Column k of the update, as a record of the two new arrays.
ColumnGives(f, s, k, m, sg) ==
  /\ f = [stop |-> FALSE, L |-> f.L, x |-> f.x]
  /\ f.L = [e \in Cells(m * m) |-> f.L[e]] /\ f.x = [i \in Cells(m) |-> f.x[i]]
  /\ UpdateOf(f.L, f.x, s.L, s.x, m, k, sg, Root(NewSquare(s, k, m, sg)), Slope(s, k, m), Stretch(s, k, m, sg))

\* Column k of the matrix and what is left of x after it.
LEMMA UpdatedCells ==
  ASSUME NEW m \in Nat, NEW k \in Cells(m), NEW s, NEW sg
  PROVE  IF s.stop \/ LessEq(NewSquare(s, k, m, sg), Zero) THEN UpdatedColumn(s, k, m, sg) = [s EXCEPT !.stop = TRUE]
         ELSE DOMAIN s.L = Cells(m * m) => ColumnGives(UpdatedColumn(s, k, m, sg), s, k, m, sg)
<1> DEFINE f == UpdatedColumn(s, k, m, sg)
           l == At(s.L, m, k, k)
           t == Slope(s, k, m)
           z == NewSquare(s, k, m, sg)
           c == Stretch(s, k, m, sg)
<1> DEFINE Lik(i) == Div(Add(s.L[i * m + k], Mul(sg, Mul(t, s.x[i]))), c)
           g == [stop |-> FALSE,
                 L |-> [e \in DOMAIN s.L |-> IF e % m # k \/ e \div m < k THEN s.L[e]
                                             ELSE IF e \div m = k THEN Root(z) ELSE Lik(e \div m)],
                 x |-> [i \in Cells(m) |-> IF i <= k THEN s.x[i] ELSE Sub(Mul(c, s.x[i]), Mul(t, Lik(i)))]]
<1>1. \A i \in Cells(m) : i * m + k = m * i + k /\ s.L[i * m + k] = At(s.L, m, i, k)
  BY DEF At, Cells
<1>2. l = s.L[k * m + k]
  BY <1>1
<1>3. f = IF s.stop \/ LessEq(z, Zero) THEN [s EXCEPT !.stop = TRUE] ELSE g
  BY <1>2 DEF UpdatedColumn, NewSquare, Slope, Stretch
<1> SUFFICES ASSUME ~s.stop, ~LessEq(z, Zero), DOMAIN s.L = Cells(m * m)
             PROVE  ColumnGives(f, s, k, m, sg)
  BY <1>3
<1> HIDE DEF f, l, t, z, c
<1>4. f = g
  BY <1>3
<1>5. DOMAIN s.L = Cells(m * m)
  OBVIOUS
<1>6. ASSUME NEW i \in Cells(m), NEW j \in Cells(m)
      PROVE  At(f.L, m, i, j) = IF j # k \/ i < k THEN At(s.L, m, i, j) ELSE IF i = k THEN Root(z) ELSE Lik(i)
  <2>1. m * i + j \in Cells(m * m) /\ (m * i + j) \div m = i /\ (m * i + j) % m = j
    BY CellOf
  <2> HIDE DEF Lik
  <2> QED
    BY <1>4, <1>5, <2>1 DEF At
<1>7. f = [stop |-> FALSE, L |-> f.L, x |-> f.x] /\ f.L = [e \in Cells(m * m) |-> f.L[e]] /\ f.x = [i \in Cells(m) |-> f.x[i]]
  <2> HIDE DEF Lik
  <2> QED
    BY <1>4, <1>5
<1>8. \A i \in Cells(m) : f.x[i] = IF i <= k THEN s.x[i] ELSE Sub(Mul(c, s.x[i]), Mul(t, Lik(i)))
  <2> HIDE DEF Lik
  <2> QED
    BY <1>4
<1>9. \A i \in Cells(m) : Lik(i) = Div(Add(At(s.L, m, i, k), Mul(sg, Mul(t, s.x[i]))), c)
  BY <1>1
<1> HIDE DEF Lik, g
<1>10. UpdateOf(f.L, f.x, s.L, s.x, m, k, sg, Root(z), t, c)
  BY <1>6, <1>8, <1>9 DEF UpdateOf
<1> QED
  BY <1>7, <1>10 DEF ColumnGives, z, t, c

\* What is left of x * x' after column k.
Rest(x, k, i, j) == IF i > k /\ j > k THEN Mul(x[i], x[j]) ELSE Zero

\* After columns 0 to k: L * L' and what is left of x * x' add up to G.
Follows(s, G, m, sg, k) ==
  /\ s.L \in Matrices(m, m) /\ s.x \in Vector(m) /\ Triangle(s.L, m)
  /\ \A i, j \in Cells(m) : Add(SumOf(RowsTimes(s.L, m, i, j), m), Mul(sg, Rest(s.x, k, i, j))) = At(G, m, i, j)

\* What an update holds on its way.
Updates(m) == [stop : BOOLEAN, L : [Cells(m * m) -> Fraction], x : [Cells(m) -> Fraction]]

\* A root among columns 0 to k was no number.
Broken(L, m, k) == \E i, j \in Cells(m) : j <= k /\ ~IsNumber(At(L, m, i, j))

\* After columns 0 to k an update has stopped, met such a root, or follows G.
UpdateStage(G, m, sg, k) ==
  {s \in Updates(m) : s.stop \/ Broken(s.L, m, k) \/ Follows(s, G, m, sg, k)}

\* A number that is not positive ends in NaN or a stop.
LEMMA RestNumbers ==
  ASSUME NEW m \in Nat, NEW x \in Vector(m), NEW k, NEW i \in Cells(m), NEW j \in Cells(m)
  PROVE  Rest(x, k, i, j) \in Number
<1>1. x[i] \in Number /\ x[j] \in Number
  BY DEF Vector
<1> QED
  BY <1>1, NumbersClosed DEF Rest

\* The numbers of column k, where it has a root.
LEMMA ColumnTurns ==
  ASSUME NEW l \in Positive, NEW y \in Number, NEW sg \in Signs,
         NEW z, z = Add(Mul(l, l), Mul(sg, Mul(y, y))), ~LessEq(z, Zero), IsNumber(Root(z)),
         NEW t, t = Div(y, l), NEW c, c = Div(Root(z), l)
  PROVE  /\ Root(z) \in Positive /\ Mul(Root(z), Root(z)) = z
         /\ t \in Number /\ Mul(l, t) = y /\ c \in Number /\ c # Zero /\ Mul(c, l) = Root(z)
         /\ Mul(c, c) = Add(One, Mul(sg, Mul(t, t)))
<1>1. l \in Number /\ l # Zero /\ sg \in Number /\ l \in Fraction
  BY PositiveIs, SignStands DEF Positive, Number
<1>2. z \in Number
  BY <1>1, NumbersClosed
<1>3. z \in Positive /\ z # Zero
  BY <1>2, PositiveIs DEF Number
<1>4. Root(z) \in NonNegative /\ Mul(Root(z), Root(z)) = z
  BY <1>2, RootSquared DEF Number
<1>5. Root(z) \in Positive
  BY <1>3, <1>4, RootPositive
<1> DEFINE r == Root(z)
<1>6. r \in Number /\ r # Zero
  BY <1>5, PositiveIs DEF Positive, Number
<1> HIDE DEF r
<1>7. t \in Number /\ Mul(l, t) = y
  BY <1>1, DivUndoes
<1>8. c \in Number /\ Mul(c, l) = r
  BY <1>1, <1>6, DivUndoes DEF r
<1>9. c # Zero
  BY <1>1, <1>6, <1>8, OneIsNeutral
<1>10. Mul(Mul(l, l), Mul(c, c)) = Mul(Mul(l, l), Add(One, Mul(sg, Mul(t, t))))
  <2>1. Mul(Mul(l, l), Mul(c, c)) = Mul(Mul(c, l), Mul(c, l))
    BY <1>1, <1>8, PairsSwap
  <2>2. Mul(Mul(c, l), Mul(c, l)) = z
    BY <1>4, <1>8 DEF r
  <2>3. Mul(Mul(l, l), Mul(t, t)) = Mul(y, y)
    BY <1>1, <1>7, PairsSwap
  <2> DEFINE ll == Mul(l, l)
             tt == Mul(t, t)
             st == Mul(sg, tt)
  <2>4. ll \in Number /\ tt \in Number /\ st \in Number
    BY <1>1, <1>7, NumbersClosed
  <2>5. Mul(ll, tt) = Mul(y, y)
    BY <2>3
  <2> HIDE DEF ll, tt
  <2>6. Mul(ll, Add(One, st)) = Add(Mul(ll, One), Mul(ll, st))
    BY <2>4, Distributes, NumbersClosed DEF Number
  <2>7. Mul(ll, One) = ll
    BY <2>4, OneIsNeutral
  <2>8. Mul(ll, st) = Mul(sg, Mul(ll, tt))
    <3>1. Mul(Mul(ll, sg), tt) = Mul(ll, Mul(sg, tt)) /\ Mul(Mul(sg, ll), tt) = Mul(sg, Mul(ll, tt))
      BY <1>1, <2>4, MulAssociative
    <3>2. Mul(ll, sg) = Mul(sg, ll)
      BY <1>1, <2>4, AddCommutes DEF Number
    <3> QED
      BY <3>1, <3>2
  <2>9. Mul(ll, Add(One, st)) = z
    BY <2>5, <2>6, <2>7, <2>8 DEF ll
  <2> QED
    BY <2>1, <2>2, <2>9 DEF ll, tt
<1>11. Mul(c, c) = Add(One, Mul(sg, Mul(t, t)))
  <2> DEFINE cc == Mul(c, c)
             o == Add(One, Mul(sg, Mul(t, t)))
             ll == Mul(l, l)
  <2>1. cc \in Number /\ o \in Number /\ ll \in Number /\ Mul(ll, cc) = Mul(ll, o)
    BY <1>1, <1>7, <1>8, <1>10, NumbersClosed
  <2>2. ll # Zero
    BY <1>1, MulZero
  <2> HIDE DEF cc, o, ll
  <2>3. cc = o
    BY <2>1, <2>2, MulCancels
  <2> QED
    BY <2>3 DEF cc, o
<1> QED
  BY <1>4, <1>5, <1>7, <1>8, <1>9, <1>11 DEF r

\* The identity one column keeps for every pair of rows.
ColumnKept(N, y, L, x, m, k, sg) ==
  /\ \A i, j \in Cells(m) : At(N, m, i, j) \in Number
  /\ \A i \in Cells(m) : y[i] \in Number
  /\ \A i, j \in Cells(m) :
       Add(Mul(At(N, m, i, k), At(N, m, j, k)), Mul(sg, Rest(y, k, i, j))) =
         Add(Mul(At(L, m, i, k), At(L, m, j, k)), Mul(sg, Rest(x, k - 1, i, j)))

\* What column k takes over from x.
LEMMA ColumnKeeps ==
  ASSUME NEW m \in Nat, NEW k \in Cells(m), NEW sg \in Signs, NEW L \in Matrices(m, m), NEW x \in Vector(m), Triangle(L, m),
         NEW N \in [Cells(m * m) -> Fraction], NEW y \in [Cells(m) -> Fraction], NEW c \in Number, NEW t \in Number, NEW r \in Number,
         Mul(r, r) = Add(Mul(At(L, m, k, k), At(L, m, k, k)), Mul(sg, Mul(x[k], x[k]))), Mul(At(L, m, k, k), t) = x[k], c # Zero, Mul(c, At(L, m, k, k)) = r,
         Mul(c, c) = Add(One, Mul(sg, Mul(t, t))),
         UpdateOf(N, y, L, x, m, k, sg, r, t, c)
  PROVE  ColumnKept(N, y, L, x, m, k, sg)
<1> DEFINE a(i) == At(N, m, i, k)
           b(i) == At(L, m, i, k)
           l == At(L, m, k, k)
<1>1. Mul(r, r) = Add(Mul(l, l), Mul(sg, Mul(x[k], x[k]))) /\ Mul(l, t) = x[k] /\ Mul(c, l) = r
  OBVIOUS
<1>2. sg \in Number /\ l \in Number /\ (\A i \in Cells(m) : x[i] \in Number) /\ k \in Int /\ \A i \in Cells(m) : i \in Int
  BY SignStands, AtNumber DEF Vector, Cells
<1>3. \A i \in Cells(m) : b(i) \in Number
  BY AtNumber
<1>4. \A i \in Cells(m) : i < k => a(i) = Zero /\ b(i) = Zero
  BY DEF Triangle, UpdateOf
<1>5. a(k) = r /\ b(k) = l
  BY <1>2 DEF UpdateOf
<1>6. ASSUME NEW i \in Cells(m), i > k
      PROVE  /\ a(i) \in Number /\ Mul(c, a(i)) = Add(b(i), Mul(sg, Mul(t, x[i])))
             /\ y[i] = Sub(Mul(c, x[i]), Mul(t, a(i)))
  <2>1. a(i) = Div(Add(b(i), Mul(sg, Mul(t, x[i]))), c) /\ y[i] = Sub(Mul(c, x[i]), Mul(t, a(i)))
    BY <1>2, <1>6 DEF UpdateOf
  <2> HIDE DEF a, b
  <2>2. Mul(t, x[i]) \in Number
    BY <1>2, NumbersClosed
  <2>3. Add(b(i), Mul(sg, Mul(t, x[i]))) \in Number
    BY <1>2, <1>3, <2>2, NumbersClosed
  <2> QED
    BY <2>1, <2>3, DivUndoes
<1>7. ASSUME NEW i \in Cells(m), NEW j \in Cells(m)
      PROVE  At(N, m, i, j) \in Number
  <2>1. CASE j # k \/ i < k
    BY <2>1, AtNumber DEF UpdateOf
  <2>2. CASE j = k /\ i = k
    BY <1>5, <2>2
  <2>3. CASE j = k /\ i > k
    BY <1>6, <2>3
  <2>4. i < k \/ i = k \/ i > k
    BY CellOrder
  <2> QED
    BY <2>1, <2>2, <2>3, <2>4
<1>8. ASSUME NEW i \in Cells(m)
      PROVE  y[i] \in Number
  <2>1. CASE i <= k
    BY <1>2, <2>1 DEF UpdateOf
  <2>2. CASE i > k
    <3>1. a(i) \in Number /\ y[i] = Sub(Mul(c, x[i]), Mul(t, a(i)))
      BY <1>6, <2>2
    <3> HIDE DEF a
    <3>2. Mul(c, x[i]) \in Number /\ Mul(t, a(i)) \in Number
      BY <1>2, <3>1, NumbersClosed
    <3> QED
      BY <3>1, <3>2, NumbersClosed
  <2> QED
    BY <1>2, <2>1, <2>2
<1>9. \A i \in Cells(m) : a(i) \in Number
  BY <1>7
<1> HIDE DEF a, b, l
<1> DEFINE Same(i, j) == Add(Mul(a(i), a(j)), Mul(sg, Rest(y, k, i, j))) = Add(Mul(b(i), b(j)), Mul(sg, Rest(x, k - 1, i, j)))
<1>10. ASSUME NEW i \in Cells(m), NEW j \in Cells(m), i < k \/ j < k PROVE Same(i, j)
  <2>1. Rest(y, k, i, j) = Zero /\ Rest(x, k - 1, i, j) = Zero
    BY <1>2, <1>10 DEF Rest
  <2>2. Mul(a(i), a(j)) = Zero /\ Mul(b(i), b(j)) = Zero
    <3>1. a(i) \in Number /\ a(j) \in Number /\ b(i) \in Number /\ b(j) \in Number
      BY <1>3, <1>9
    <3> QED
      BY <1>4, <1>10, <3>1, OneIsNeutral
  <2> QED
    BY <2>1, <2>2
<1>11. Same(k, k)
  <2>1. Rest(y, k, k, k) = Zero /\ Rest(x, k - 1, k, k) = Mul(x[k], x[k])
    BY <1>2 DEF Rest
  <2>2. Mul(sg, Zero) = Zero /\ Mul(a(k), a(k)) = Mul(r, r) /\ Mul(r, r) \in Number
    BY <1>2, <1>5, OneIsNeutral, NumbersClosed
  <2>3. Add(Mul(r, r), Zero) = Mul(r, r)
    BY <2>2, OneIsNeutral
  <2> QED
    BY <1>1, <1>5, <2>1, <2>2, <2>3
<1>12. ASSUME NEW j \in Cells(m), j > k PROVE Same(k, j) /\ Same(j, k)
  <2>1. /\ Rest(y, k, k, j) = Zero /\ Rest(x, k - 1, k, j) = Mul(x[k], x[j])
        /\ Rest(y, k, j, k) = Zero /\ Rest(x, k - 1, j, k) = Mul(x[j], x[k])
    BY <1>2, <1>12 DEF Rest
  <2> DEFINE tp == Mul(t, x[j])
             e == Mul(sg, tp)
  <2>2. tp \in Number /\ e \in Number /\ x[j] \in Number /\ a(j) \in Number /\ b(j) \in Number
    BY <1>2, <1>3, <1>9, NumbersClosed
  <2>3. Mul(c, a(j)) = Add(b(j), e)
    BY <1>6, <1>12
  <2>4. Mul(l, e) = Mul(sg, Mul(x[k], x[j]))
    <3> DEFINE p == x[j]
    <3>1. l \in Number /\ sg \in Number /\ p \in Number
      BY <1>2, <2>2
    <3> HIDE DEF p
    <3>2. Mul(l, Mul(sg, Mul(t, p))) = Mul(sg, Mul(Mul(l, t), p))
      BY <3>1, SignInside
    <3> QED
      BY <1>1, <3>2 DEF p
  <2> HIDE DEF e, tp
  <2>5. Mul(r, a(j)) = Mul(l, Mul(c, a(j)))
    <3>1. Mul(c, l) = Mul(l, c)
      BY <1>2, AddCommutes DEF Number
    <3>2. Mul(Mul(l, c), a(j)) = Mul(l, Mul(c, a(j)))
      BY <1>2, <2>2, MulAssociative
    <3> QED
      BY <1>1, <3>1, <3>2
  <2>6. Mul(l, Add(b(j), e)) = Add(Mul(l, b(j)), Mul(l, e))
    BY <1>2, <2>2, Distributes DEF Number
  <2>7. Mul(r, a(j)) = Add(Mul(l, b(j)), Mul(sg, Mul(x[k], x[j]))) /\ Mul(r, a(j)) \in Number
    BY <2>2, <2>3, <2>4, <2>5, <2>6, NumbersClosed
  <2>8. Mul(sg, Zero) = Zero /\ Add(Mul(r, a(j)), Zero) = Mul(r, a(j))
    BY <1>2, <2>7, OneIsNeutral
  <2>9. Same(k, j)
    BY <1>5, <2>1, <2>7, <2>8
  <2>10. Mul(a(j), r) = Mul(r, a(j)) /\ Mul(b(j), l) = Mul(l, b(j)) /\ Mul(x[j], x[k]) = Mul(x[k], x[j])
    BY <1>2, <2>2, AddCommutes DEF Number
  <2> QED
    BY <1>5, <2>1, <2>7, <2>8, <2>9, <2>10
<1>13. ASSUME NEW i \in Cells(m), NEW j \in Cells(m), i > k, j > k PROVE Same(i, j)
  <2>1. Rest(y, k, i, j) = Mul(y[i], y[j]) /\ Rest(x, k - 1, i, j) = Mul(x[i], x[j])
    <3>1. i > k - 1 /\ j > k - 1
      BY <1>2, <1>13
    <3> QED
      BY <1>13, <3>1 DEF Rest
  <2>2. y[i] = Sub(Mul(c, x[i]), Mul(t, a(i))) /\ y[j] = Sub(Mul(c, x[j]), Mul(t, a(j)))
    BY <1>6, <1>13
  <2>3. ASSUME NEW h \in Cells(m), h > k
        PROVE  b(h) = Sub(Mul(c, a(h)), Mul(sg, Mul(t, x[h])))
    <3> DEFINE tp == Mul(t, x[h])
               e == Mul(sg, tp)
    <3>1. tp \in Number /\ e \in Number /\ b(h) \in Number
      BY <1>2, <1>3, NumbersClosed
    <3>2. Mul(c, a(h)) = Add(b(h), e)
      BY <1>6, <2>3
    <3> HIDE DEF e
    <3>3. Sub(Add(b(h), e), e) = b(h)
      BY <3>1, SubUndoes
    <3> QED
      BY <3>2, <3>3 DEF e
  <2>4. b(i) = Sub(Mul(c, a(i)), Mul(sg, Mul(t, x[i]))) /\ b(j) = Sub(Mul(c, a(j)), Mul(sg, Mul(t, x[j])))
    BY <1>13, <2>3
  <2>5. a(i) \in Number /\ a(j) \in Number /\ x[i] \in Number /\ x[j] \in Number
    BY <1>2, <1>9
  <2> HIDE DEF Same
  <2>6. TurnKept(c, t, a(i), a(j), x[i], x[j], sg)
    BY <2>5, TurnKeeps
  <2> QED
    BY <2>1, <2>2, <2>4, <2>6 DEF Same, TurnKept
<1>14. ASSUME NEW i \in Cells(m), NEW j \in Cells(m) PROVE Same(i, j)
  <2>1. i < k \/ i = k \/ i > k
    BY CellOrder
  <2>2. j < k \/ j = k \/ j > k
    BY CellOrder
  <2> HIDE DEF Same
  <2> QED
    BY <2>1, <2>2, <1>10, <1>11, <1>12, <1>13
<1> QED
  BY <1>7, <1>8, <1>14 DEF a, b, ColumnKept

\* A column that meets a positive pivot with a root.
LEMMA FollowsStep ==
  ASSUME NEW m \in Nat, NEW k \in Cells(m), NEW sg \in Signs, NEW G \in Matrices(m, m), NEW s, Follows(s, G, m, sg, k - 1),
         ~LessEq(NewSquare(s, k, m, sg), Zero), IsNumber(Root(NewSquare(s, k, m, sg))),
         NEW f \in Updates(m), ColumnGives(f, s, k, m, sg)
  PROVE  Follows(f, G, m, sg, k)
<1> DEFINE l == At(s.L, m, k, k)
           L == s.L
           x == s.x
           z == NewSquare(s, k, m, sg)
           t == Slope(s, k, m)
           c == Stretch(s, k, m, sg)
           r == Root(z)
           N == f.L
           y == f.x
<1>1. L \in Matrices(m, m) /\ x \in Vector(m) /\ Triangle(L, m)
      /\ \A i, j \in Cells(m) : Add(SumOf(RowsTimes(L, m, i, j), m), Mul(sg, Rest(x, k - 1, i, j))) = At(G, m, i, j)
  BY DEF Follows
<1>2. l \in Positive /\ x[k] \in Number /\ sg \in Number
  BY <1>1, SignStands DEF Triangle, Vector
<1>3. /\ r \in Positive /\ Mul(r, r) = z
      /\ t \in Number /\ Mul(l, t) = x[k] /\ c \in Number /\ c # Zero /\ Mul(c, l) = r
      /\ Mul(c, c) = Add(One, Mul(sg, Mul(t, t)))
  <2>1. z = Add(Mul(l, l), Mul(sg, Mul(x[k], x[k]))) /\ t = Div(x[k], l) /\ c = Div(Root(z), l)
    BY DEF NewSquare, Slope, Stretch
  <2>2. ~LessEq(z, Zero) /\ IsNumber(Root(z))
    OBVIOUS
  <2> HIDE DEF l, x, z, t, c
  <2> QED
    BY <1>2, <2>1, <2>2, ColumnTurns DEF r
<1>4. /\ N = [e \in Cells(m * m) |-> N[e]] /\ y = [i \in Cells(m) |-> y[i]]
      /\ UpdateOf(N, y, L, x, m, k, sg, r, t, c)
      /\ N \in [Cells(m * m) -> Fraction] /\ y \in [Cells(m) -> Fraction]
  BY DEF ColumnGives, Updates
<1>5. /\ Mul(r, r) = Add(Mul(At(L, m, k, k), At(L, m, k, k)), Mul(sg, Mul(x[k], x[k])))
      /\ Mul(At(L, m, k, k), t) = x[k] /\ Mul(c, At(L, m, k, k)) = r /\ r \in Number
  BY <1>3 DEF NewSquare, Positive
<1> HIDE DEF l, L, x, z, t, c, r, N, y
<1>6. /\ \A i, j \in Cells(m) : At(N, m, i, j) \in Number
      /\ \A i \in Cells(m) : y[i] \in Number
      /\ \A i, j \in Cells(m) :
           Add(Mul(At(N, m, i, k), At(N, m, j, k)), Mul(sg, Rest(y, k, i, j))) =
             Add(Mul(At(L, m, i, k), At(L, m, j, k)), Mul(sg, Rest(x, k - 1, i, j)))
  <2>1. ColumnKept(N, y, L, x, m, k, sg)
    BY <1>1, <1>3, <1>4, <1>5, ColumnKeeps
  <2> QED
    BY <2>1 DEF ColumnKept
<1>7. N \in Matrices(m, m) /\ y \in Vector(m)
  <2>1. N \in Matrices(m, m)
    BY <1>4, <1>6, MatrixByCells
  <2> QED
    BY <1>4, <1>6, <2>1 DEF Vector
<1>8. Triangle(N, m)
  <2>1. k \in Int /\ \A i \in Cells(m) : i \in Int
    BY DEF Cells
  <2>2. ASSUME NEW i \in Cells(m), NEW j \in Cells(m), j > i PROVE At(N, m, i, j) = Zero
    <3>1. j # k \/ i < k
      BY <2>1, <2>2
    <3> QED
      BY <1>1, <1>4, <2>2, <3>1 DEF Triangle, UpdateOf
  <2>3. ASSUME NEW i \in Cells(m) PROVE At(N, m, i, i) \in Positive
    <3>1. i = k \/ i # k
      OBVIOUS
    <3> QED
      BY <1>1, <1>3, <1>4, <2>1, <3>1 DEF Triangle, UpdateOf
  <2> QED
    BY <2>2, <2>3 DEF Triangle
<1>9. ASSUME NEW i \in Cells(m), NEW j \in Cells(m)
      PROVE  Add(SumOf(RowsTimes(N, m, i, j), m), Mul(sg, Rest(y, k, i, j))) = At(G, m, i, j)
  <2> DEFINE u == RowsTimes(N, m, i, j)
             v == RowsTimes(L, m, i, j)
             p == Mul(sg, Rest(y, k, i, j))
             q == Mul(sg, Rest(x, k - 1, i, j))
  <2>1. u \in Vector(m) /\ SumOf(u, m) \in Number /\ \A e \in Cells(m) : u[e] = Mul(At(N, m, i, e), At(N, m, j, e))
    BY <1>7, RowsTimesNumbers
  <2>2. v \in Vector(m) /\ SumOf(v, m) \in Number /\ \A e \in Cells(m) : v[e] = Mul(At(L, m, i, e), At(L, m, j, e))
    BY <1>1, RowsTimesNumbers
  <2>3. p \in Number /\ q \in Number
    <3>1. Rest(y, k, i, j) \in Number /\ Rest(x, k - 1, i, j) \in Number
      BY <1>1, <1>7, RestNumbers
    <3> QED
      BY <1>2, <3>1, NumbersClosed
  <2>4. Add(u[k], p) = Add(v[k], q)
    BY <1>6, <2>1, <2>2
  <2>5. Add(SumOf(v, m), q) = At(G, m, i, j)
    BY <1>1
  <2> HIDE DEF u, v, p, q
  <2>6. \A e \in Cells(m) : e # k => u[e] = v[e]
    BY <1>4, <2>1, <2>2 DEF UpdateOf
  <2>7. Add(SumOf(u, m), v[k]) = Add(SumOf(v, m), u[k])
    BY <2>1, <2>2, <2>6, SumChanged
  <2>8. u[k] \in Number /\ v[k] \in Number
    BY <2>1, <2>2, SumOfNumbers
  <2>9. Add(SumOf(u, m), p) = Add(SumOf(v, m), q)
    BY <2>1, <2>2, <2>3, <2>4, <2>7, <2>8, SumsExchanged
  <2> QED
    BY <2>5, <2>9 DEF u, p
<1> QED
  BY <1>7, <1>8, <1>9 DEF Follows, N, y

\* Every column keeps the stage.
LEMMA UpdateStep ==
  ASSUME NEW m \in Nat, NEW k \in Cells(m), NEW sg \in Signs, NEW G \in Matrices(m, m), NEW s \in UpdateStage(G, m, sg, k - 1)
  PROVE  UpdatedColumn(s, k, m, sg) \in UpdateStage(G, m, sg, k)
<1> DEFINE l == At(s.L, m, k, k)
           z == NewSquare(s, k, m, sg)
           f == UpdatedColumn(s, k, m, sg)
           t == Slope(s, k, m)
           c == Stretch(s, k, m, sg)
<1>1. k \in Int /\ \A j \in Cells(m) : j \in Int
  BY DEF Cells
<1>2. /\ s \in Updates(m) /\ s.stop \in BOOLEAN
      /\ s.L = [e \in Cells(m * m) |-> s.L[e]] /\ DOMAIN s.L = Cells(m * m) /\ s.x = [i \in Cells(m) |-> s.x[i]]
      /\ (\A e \in Cells(m * m) : s.L[e] \in Fraction) /\ (\A i \in Cells(m) : s.x[i] \in Fraction)
  BY DEF UpdateStage, Updates
<1>3. \A i, j \in Cells(m) : At(s.L, m, i, j) \in Fraction
  BY <1>2, CellOf DEF At
<1>4. l \in Fraction /\ s.x[k] \in Fraction /\ sg \in Fraction
  BY <1>2, <1>3, SignStands DEF Number
<1>5. z \in Fraction /\ t \in Fraction
  BY <1>4, Closed, DivClosed DEF NewSquare, Slope
<1>6. Root(z) \in Fraction
  <2> HIDE DEF z
  <2> QED
    BY <1>5, RootIsFraction
<1>7. c \in Fraction
  BY <1>4, <1>6, DivClosed DEF Stretch
<1>8. CASE s.stop \/ LessEq(z, Zero)
  <2>1. f = [s EXCEPT !.stop = TRUE]
    BY <1>8, UpdatedCells
  <2>2. f \in Updates(m) /\ f.stop
    BY <1>2, <2>1 DEF Updates
  <2> QED
    BY <2>2 DEF UpdateStage
<1>9. CASE ~s.stop /\ ~LessEq(z, Zero)
  <2> HIDE DEF z, l, t, c, f
  <2>1. ColumnGives(f, s, k, m, sg)
    BY <1>2, <1>9, UpdatedCells DEF z, f
  <2>2. /\ f = [stop |-> FALSE, L |-> f.L, x |-> f.x]
        /\ f.L = [e \in Cells(m * m) |-> f.L[e]] /\ f.x = [i \in Cells(m) |-> f.x[i]]
        /\ UpdateOf(f.L, f.x, s.L, s.x, m, k, sg, Root(z), t, c)
    BY <2>1 DEF ColumnGives, z, t, c
  <2>3. ASSUME NEW i \in Cells(m)
        PROVE  Div(Add(At(s.L, m, i, k), Mul(sg, Mul(t, s.x[i]))), c) \in Fraction
    <3>1. At(s.L, m, i, k) \in Fraction /\ s.x[i] \in Fraction
      BY <1>2, <1>3
    <3>2. Mul(sg, Mul(t, s.x[i])) \in Fraction
      BY <1>4, <1>5, <3>1, Closed
    <3>3. Add(At(s.L, m, i, k), Mul(sg, Mul(t, s.x[i]))) \in Fraction
      BY <3>1, <3>2, Closed
    <3> QED
      BY <1>7, <3>3, DivClosed
  <2>4. \A i, j \in Cells(m) : At(f.L, m, i, j) \in Fraction
    BY <1>3, <1>6, <2>2, <2>3 DEF UpdateOf
  <2>5. ASSUME NEW i \in Cells(m) PROVE f.x[i] \in Fraction
    <3> DEFINE e == Div(Add(At(s.L, m, i, k), Mul(sg, Mul(t, s.x[i]))), c)
    <3>1. s.x[i] \in Fraction /\ e \in Fraction
      BY <1>2, <2>3
    <3>2. f.x[i] = IF i <= k THEN s.x[i] ELSE Sub(Mul(c, s.x[i]), Mul(t, e))
      BY <2>2 DEF UpdateOf
    <3> HIDE DEF e
    <3>3. Mul(c, s.x[i]) \in Fraction /\ Mul(t, e) \in Fraction
      BY <1>5, <1>7, <3>1, Closed
    <3>4. Sub(Mul(c, s.x[i]), Mul(t, e)) \in Fraction
      BY <3>3, Closed
    <3> QED
      BY <3>1, <3>2, <3>4
  <2>6. \A e \in Cells(m * m) : f.L[e] \in Fraction
    <3> TAKE e \in Cells(m * m)
    <3>1. e \div m \in Cells(m) /\ e % m \in Cells(m) /\ e = m * (e \div m) + (e % m)
      BY PartsOf
    <3>2. At(f.L, m, e \div m, e % m) \in Fraction
      BY <2>4, <3>1
    <3> QED
      BY <3>1, <3>2 DEF At
  <2>7. f \in Updates(m)
    <3> DEFINE N == f.L
               y == f.x
    <3>1. f = [stop |-> FALSE, L |-> N, x |-> y] /\ N = [e \in Cells(m * m) |-> N[e]] /\ y = [i \in Cells(m) |-> y[i]]
      BY <2>2
    <3>2. (\A e \in Cells(m * m) : N[e] \in Fraction) /\ \A i \in Cells(m) : y[i] \in Fraction
      BY <2>5, <2>6
    <3> HIDE DEF N, y
    <3>3. N \in [Cells(m * m) -> Fraction] /\ y \in [Cells(m) -> Fraction]
      BY <3>1, <3>2
    <3> QED
      BY <3>1, <3>3 DEF Updates
  <2>8. CASE ~IsNumber(Root(z))
    <3>1. At(f.L, m, k, k) = Root(z)
      BY <1>1, <2>2 DEF UpdateOf
    <3>2. Broken(f.L, m, k)
      BY <1>1, <2>8, <3>1 DEF Broken
    <3> QED
      BY <2>7, <3>2 DEF UpdateStage, f
  <2>9. CASE Broken(s.L, m, k - 1)
    <3>1. PICK i, j \in Cells(m) : j <= k - 1 /\ ~IsNumber(At(s.L, m, i, j))
      BY <2>9 DEF Broken
    <3>2. j # k /\ j <= k
      BY <1>1, <3>1
    <3>3. At(f.L, m, i, j) = At(s.L, m, i, j)
      BY <2>2, <3>2 DEF UpdateOf
    <3>4. Broken(f.L, m, k)
      BY <3>1, <3>2, <3>3 DEF Broken
    <3> QED
      BY <2>7, <3>4 DEF UpdateStage, f
  <2>10. CASE IsNumber(Root(z)) /\ Follows(s, G, m, sg, k - 1)
    <3>1. Follows(f, G, m, sg, k)
      BY <1>9, <2>7, <2>10, <2>1, FollowsStep DEF z
    <3> QED
      BY <2>7, <3>1 DEF UpdateStage, f
  <2> QED
    BY <1>9, <2>8, <2>9, <2>10 DEF UpdateStage, f
<1> QED
  BY <1>8, <1>9

\* The sign of an update.
SignOf(up) == IF up THEN One ELSE Neg(One)

\* The loop of smls_mat_chol_update keeps its stage.
LEMMA UpdateRuns ==
  ASSUME NEW m \in Nat, NEW up \in BOOLEAN, NEW G \in Matrices(m, m), NEW L, NEW x,
         [stop |-> FALSE, L |-> L, x |-> x] \in UpdateStage(G, m, SignOf(up), 0 - 1)
  PROVE  CholUpdate(L, x, m, up) \in UpdateStage(G, m, SignOf(up), m - 1)
<1> DEFINE lo == 0
           hi == m - 1
           sg == SignOf(up)
           start == [stop |-> FALSE, L |-> L, x |-> x]
           B(s, k) == UpdatedColumn(s, k, m, sg)
           P(f) == f = [i \in lo - 1 .. hi |-> IF i < lo THEN start ELSE B(f[i - 1], i)]
           z == CHOOSE f : P(f)
           S == Updates(m)
           body == [q \in S \X Int |-> B(q[1], q[2])]
           Stage == [i \in lo - 1 .. hi |-> UpdateStage(G, m, sg, i)]
<1>1. CholUpdate(L, x, m, up) = IF hi < lo THEN start ELSE z[hi]
  BY DEF CholUpdate, For, SignOf
<1>2. lo \in Int /\ hi \in Int /\ lo - 1 \in lo - 1 .. hi /\ hi \in lo - 1 .. hi /\ (hi < lo => hi = lo - 1)
  OBVIOUS
<1>3. start \in S /\ start \in UpdateStage(G, m, sg, lo - 1)
  BY DEF UpdateStage
<1>4. sg \in Signs
  BY DEF Signs, SignOf
<1>5. ASSUME NEW i \in lo .. hi, NEW s \in UpdateStage(G, m, sg, i - 1)
      PROVE  B(s, i) \in UpdateStage(G, m, sg, i) /\ body[<<s, i>>] = B(s, i)
  <2>1. i \in Cells(m) /\ i \in Int
    BY DEF Cells
  <2>2. s \in S
    BY DEF UpdateStage
  <2>3. B(s, i) \in UpdateStage(G, m, sg, i)
    <3> HIDE DEF sg
    <3> QED
      BY <1>4, <2>1, UpdateStep
  <2> QED
    BY <2>1, <2>2, <2>3
<1>6. \A i \in lo - 1 .. hi : Stage[i] = UpdateStage(G, m, sg, i) /\ Stage[i] \subseteq S
  BY DEF UpdateStage
<1>7. Stage[hi] = UpdateStage(G, m, SignOf(up), m - 1)
  BY <1>2, <1>6
<1> HIDE DEF Stage, body, start, lo, hi, B, S
<1>8. \A i \in lo .. hi : i \in lo - 1 .. hi /\ i - 1 \in lo - 1 .. hi /\ ~(i < lo)
  BY <1>2
<1>9. ASSUME NEW i \in lo .. hi, NEW s \in Stage[i - 1]
      PROVE  B(s, i) \in Stage[i] /\ body[<<s, i>>] = B(s, i)
  BY <1>5, <1>6, <1>8
<1>10. start \in Stage[lo - 1]
  BY <1>2, <1>3, <1>6
<1>11. PICK f : Runs(f, lo, hi, start, body) /\ \A i \in lo - 1 .. hi : f[i] \in Stage[i]
  <2>1. Leads(lo, hi, start, body, Stage)
    BY <1>9, <1>10 DEF Leads
  <2> QED
    BY <1>2, <1>3, <1>6, <2>1, LoopRuns
<1>12. P(f)
  <2>1. \A i \in lo - 1 .. hi : ~(i < lo) => body[<<f[i - 1], i>>] = B(f[i - 1], i)
    BY <1>2, <1>8, <1>9, <1>11
  <2> QED
    BY <1>11, <2>1 DEF Runs
<1> HIDE DEF P
<1>13. P(z)
  BY <1>12
<1> HIDE DEF z
<1>14. \A i \in lo - 1 .. hi : z[i] = IF i < lo THEN start ELSE B(z[i - 1], i)
  BY <1>13 DEF P
<1>15. \A i \in lo - 1 .. hi : z[i] \in Stage[i]
  <2>1. z[lo - 1] \in Stage[lo - 1]
    <3>1. lo - 1 \in lo - 1 .. hi /\ lo - 1 < lo
      BY <1>2
    <3>2. z[lo - 1] = start
      BY <1>14, <3>1
    <3> QED
      BY <1>10, <3>2
  <2>2. \A i \in lo .. hi : z[i - 1] \in Stage[i - 1] => z[i] \in Stage[i]
    BY <1>8, <1>9, <1>14
  <2> QED
    BY <1>2, <2>1, <2>2, StagesHold
<1> QED
  BY <1>1, <1>2, <1>7, <1>10, <1>15

\* A factor that is updated without a stop, and into numbers, is the factor of the
\* updated matrix.
LEMMA UpdateFollows ==
  ASSUME NEW m \in Nat, NEW up \in BOOLEAN, NEW L \in Matrices(m, m), NEW x \in Vector(m), Triangle(L, m),
         NEW W \in Matrices(m, m), NEW G \in Matrices(m, m),
         \A i, j \in Cells(m) : SumOf(RowsTimes(L, m, i, j), m) = At(W, m, i, j),
         \A i, j \in Cells(m) : At(G, m, i, j) = Add(At(W, m, i, j), Mul(SignOf(up), Mul(x[i], x[j]))),
         ~CholUpdate(L, x, m, up).stop, MadeOfNumbers(CholUpdate(L, x, m, up).L)
  PROVE  /\ CholUpdate(L, x, m, up).L \in Matrices(m, m) /\ Triangle(CholUpdate(L, x, m, up).L, m)
         /\ \A i, j \in Cells(m) : SumOf(RowsTimes(CholUpdate(L, x, m, up).L, m, i, j), m) = At(G, m, i, j)
<1> DEFINE sg == SignOf(up)
           start == [stop |-> FALSE, L |-> L, x |-> x]
           f == CholUpdate(L, x, m, up)
<1>1. start.L = L /\ start.x = x /\ start \in Updates(m)
  <2>1. L \in [Cells(m * m) -> Fraction] /\ x \in [Cells(m) -> Fraction]
    BY DEF Matrices, Vector, Number
  <2> QED
    BY <2>1 DEF Updates
<1>2. Follows(start, G, m, sg, 0 - 1)
  <2>1. ASSUME NEW i \in Cells(m), NEW j \in Cells(m)
        PROVE  Add(SumOf(RowsTimes(L, m, i, j), m), Mul(sg, Rest(x, 0 - 1, i, j))) = At(G, m, i, j)
    <3>1. i > 0 - 1 /\ j > 0 - 1
      BY DEF Cells
    <3>2. Rest(x, 0 - 1, i, j) = Mul(x[i], x[j])
      BY <3>1 DEF Rest
    <3> QED
      BY <3>2
  <2> HIDE DEF start
  <2> QED
    BY <1>1, <2>1 DEF Follows
<1>3. start \in UpdateStage(G, m, sg, 0 - 1)
  BY <1>1, <1>2 DEF UpdateStage
<1>4. f \in UpdateStage(G, m, sg, m - 1)
  BY <1>3, UpdateRuns
<1> HIDE DEF f, start
<1>5. ~Broken(f.L, m, m - 1)
  <2>1. f.L \in [Cells(m * m) -> Fraction]
    BY <1>4 DEF UpdateStage, Updates
  <2>2. ASSUME NEW i \in Cells(m), NEW j \in Cells(m) PROVE IsNumber(At(f.L, m, i, j))
    <3>1. m * i + j \in Cells(m * m)
      BY CellOf
    <3> QED
      BY <2>1, <3>1 DEF MadeOfNumbers, At, f
  <2> QED
    BY <2>2 DEF Broken
<1>6. Follows(f, G, m, sg, m - 1)
  BY <1>4, <1>5 DEF UpdateStage, f
<1>7. f.L \in Matrices(m, m) /\ Triangle(f.L, m)
  BY <1>6 DEF Follows
<1>8. ASSUME NEW i \in Cells(m), NEW j \in Cells(m)
      PROVE  SumOf(RowsTimes(f.L, m, i, j), m) = At(G, m, i, j)
  <2>1. ~(i > m - 1)
    BY DEF Cells
  <2>2. Rest(f.x, m - 1, i, j) = Zero
    BY <2>1 DEF Rest
  <2>3. sg \in Number
    BY SignStands DEF Signs, SignOf
  <2>4. SumOf(RowsTimes(f.L, m, i, j), m) \in Number
    BY <1>7, RowsTimesNumbers
  <2>5. Add(SumOf(RowsTimes(f.L, m, i, j), m), Mul(sg, Rest(f.x, m - 1, i, j))) = At(G, m, i, j)
    BY <1>6 DEF Follows
  <2> HIDE DEF sg
  <2> QED
    BY <2>2, <2>3, <2>4, <2>5, OneIsNeutral
<1> QED
  BY <1>7, <1>8 DEF f

\* What smls_mat_chol_update returns.
LEMMA UpdateFactors ==
  ASSUME NEW m \in Nat, NEW up \in BOOLEAN, NEW x \in Vector(m), NEW L, NEW W \in Matrices(m, m), Factor(L, W, m),
         MadeOfNumbers(CholUpdate(L, x, m, up).L)
  PROVE  /\ MatAdd(W, Scaled(MatMul(x, x, m, 1, m), SignOf(up))) \in Matrices(m, m)
         /\ ~CholUpdate(L, x, m, up).stop =>
              Factor(CholUpdate(L, x, m, up).L, MatAdd(W, Scaled(MatMul(x, x, m, 1, m), SignOf(up))), m)
<1> DEFINE X == MatMul(x, x, m, 1, m)
           sg == SignOf(up)
<1>1. X \in Matrices(m, m) /\ \A i, j \in Cells(m) : At(X, m, i, j) = Mul(x[i], x[j])
  BY OuterCells
<1>2. sg \in Number
  BY SignStands DEF Signs, SignOf
<1> HIDE DEF X, sg
<1> DEFINE G == MatAdd(W, Scaled(X, sg))
<1>3. G \in Matrices(m, m) /\ \A i, j \in Cells(m) : At(G, m, i, j) = Add(At(W, m, i, j), Mul(sg, At(X, m, i, j)))
  BY <1>1, <1>2, AddedCells
<1> HIDE DEF G
<1>4. \A i, j \in Cells(m) : At(G, m, i, j) = Add(At(W, m, i, j), Mul(SignOf(up), Mul(x[i], x[j])))
  BY <1>1, <1>3 DEF sg
<1>5. L \in Matrices(m, m) /\ Triangle(L, m) /\ \A i, j \in Cells(m) : SumOf(RowsTimes(L, m, i, j), m) = At(W, m, i, j)
  BY DEF Factor
<1>6. ASSUME ~CholUpdate(L, x, m, up).stop
      PROVE  Factor(CholUpdate(L, x, m, up).L, G, m)
  BY <1>3, <1>4, <1>5, <1>6, UpdateFollows DEF Factor
<1> QED
  BY <1>3, <1>6 DEF G, X, sg

\* A factor, as FactorFollowsUpdates says it.
LEMMA FactorMeans ==
  ASSUME NEW m \in Nat, NEW L, NEW W \in Matrices(m, m), Factor(L, W, m)
  PROVE  IsCholeskyFactor(L, m) /\ MatMul(L, Transpose(L, m, m), m, m, m) = W
<1>1. L \in Matrices(m, m) /\ Triangle(L, m) /\ \A i, j \in Cells(m) : SumOf(RowsTimes(L, m, i, j), m) = At(W, m, i, j)
  BY DEF Factor
<1> DEFINE Z == MatMul(L, Transpose(L, m, m), m, m, m)
<1>2. Z \in Matrices(m, m) /\ \A i, j \in Cells(m) : At(Z, m, i, j) = SumOf(RowsTimes(L, m, i, j), m)
  BY <1>1, GramCells
<1> HIDE DEF Z
<1>3. Z = W
  BY <1>1, <1>2, SameMatrix
<1> QED
  BY <1>1, <1>3, TriangleIs DEF Z

-----------------------------------------------------------------------------
(* The sort (Sort_by_Decreasing_Singular_Values): every value and its columns come from*)
(* one place of the arrays.                                                            *)

\* The place whose element the exchange of i and j brings to k.
Exchange(i, j, k) == IF k = i THEN j ELSE IF k = j THEN i ELSE k

\* Exchanging twice changes nothing.
LEMMA ExchangedBack ==
  ASSUME NEW m \in Nat, NEW i \in Cells(m), NEW j \in Cells(m)
  PROVE  \A k \in Cells(m) : Exchange(i, j, k) \in Cells(m) /\ Exchange(i, j, Exchange(i, j, k)) = k
  BY DEF Exchange

\* An exchange of two elements.
LEMMA SwappedElements ==
  ASSUME NEW m \in Nat, NEW v \in FractionCells(m), NEW i \in Cells(m), NEW j \in Cells(m)
  PROVE  /\ SwappedAt(v, i, j) \in FractionCells(m)
         /\ \A k \in Cells(m) : SwappedAt(v, i, j)[k] = v[Exchange(i, j, k)]
  BY DEF SwappedAt, Exchange, FractionCells

\* An exchange of two columns.
LEMMA SwappedColumns ==
  ASSUME NEW h \in Nat, NEW m \in Nat, NEW M \in FractionCells(h * m), NEW i \in Cells(m), NEW j \in Cells(m)
  PROVE  /\ ColumnsSwapped(M, m, i, j) \in FractionCells(h * m)
         /\ \A r \in Cells(h), k \in Cells(m) : At(ColumnsSwapped(M, m, i, j), m, r, k) = At(M, m, r, Exchange(i, j, k))
<1> DEFINE N == ColumnsSwapped(M, m, i, j)
           x(k) == Exchange(i, j, k)
<1>1. M \in [Cells(h * m) -> Fraction]
  BY DEF FractionCells
<1>2. N = [c \in Cells(h * m) |-> IF c % m = i THEN M[c - i + j] ELSE IF c % m = j THEN M[c - j + i] ELSE M[c]]
  BY <1>1 DEF ColumnsSwapped
<1>3. ASSUME NEW r \in Cells(h), NEW k \in Cells(m)
      PROVE  At(N, m, r, k) = At(M, m, r, x(k)) /\ At(M, m, r, x(k)) \in Fraction
  <2> DEFINE c == m * r + k
  <2>1. c \in Cells(h * m) /\ c % m = k /\ c \in Int
    BY CellOf
  <2>2. x(k) \in Cells(m) /\ m * r + x(k) \in Cells(h * m)
    BY ExchangedBack, CellOf
  <2>3. i \in Int /\ j \in Int /\ k \in Int /\ m * r \in Int
    BY DEF Cells
  <2>4. /\ k = i => c - i + j = m * r + x(k)
        /\ k # i /\ k = j => c - j + i = m * r + x(k)
        /\ k # i /\ k # j => c = m * r + x(k)
    BY <2>3 DEF Exchange
  <2> HIDE DEF c, x
  <2>5. N[c] = M[m * r + x(k)]
    BY <1>2, <2>1, <2>4
  <2> QED
    BY <1>1, <2>2, <2>5 DEF At, c
<1> HIDE DEF x
<1>4. ASSUME NEW c \in Cells(h * m)
      PROVE  N[c] \in Fraction
  <2>1. c \div m \in Cells(h) /\ c % m \in Cells(m) /\ c = m * (c \div m) + (c % m)
    BY PartsOf
  <2>2. At(N, m, c \div m, c % m) \in Fraction
    BY <1>3, <2>1
  <2> QED
    BY <2>1, <2>2 DEF At
<1>5. N = [c \in Cells(h * m) |-> N[c]]
  BY <1>2
<1> HIDE DEF N
<1>6. N \in FractionCells(h * m)
  BY <1>4, <1>5 DEF FractionCells
<1> QED
  BY <1>3, <1>6 DEF N, x

\* The scan for the first of the largest.
Largest(v, lo, hi) == FirstLargest(lo, hi, LAMBDA j : v[j])

\* It finds one that no other of those scanned exceeds.
LEMMA LargestFound ==
  ASSUME NEW m \in Nat, NEW i \in Cells(m), NEW v \in Vector(m)
  PROVE  /\ Largest(v, i, m - 1) \in i .. m - 1
         /\ \A k \in i .. m - 1 : LessEq(v[k], v[Largest(v, i, m - 1)])
<1> DEFINE lo == i + 1
           hi == m - 1
           start == i
           S == i .. m - 1
           e(j) == v[j]
           B(best, j) == IF Less(e(best), e(j)) THEN j ELSE best
           Q(f) == f = [k \in lo - 1 .. hi |-> IF k < lo THEN start ELSE B(f[k - 1], k)]
           z == CHOOSE f : Q(f)
           body == [q \in S \X Int |-> B(q[1], q[2])]
           Source(k) == {best \in S : \A j \in i .. k : LessEq(e(j), e(best))}
           Stage == [k \in lo - 1 .. hi |-> Source(k)]
<1>1. Largest(v, i, m - 1) = IF hi < lo THEN start ELSE z[hi]
  BY DEF Largest, FirstLargest, For
<1>2. /\ lo \in Int /\ hi \in Int /\ lo - 1 \in lo - 1 .. hi /\ hi \in lo - 1 .. hi /\ start \in S
      /\ (hi < lo => hi = lo - 1) /\ lo - 1 = i
  BY DEF Cells
<1>3. \A j \in S : e(j) \in Number
  BY DEF Cells, Vector
<1>4. start \in Source(lo - 1)
  <2>1. \A j \in i .. lo - 1 : j = i
    BY <1>2
  <2>2. LessEq(e(i), e(i))
    BY <1>2, <1>3, TotalOrder
  <2> QED
    BY <1>2, <2>1, <2>2
<1>5. ASSUME NEW k \in lo .. hi, NEW s \in Source(k - 1)
      PROVE  B(s, k) \in Source(k) /\ body[<<s, k>>] = B(s, k)
  <2>1. k \in S /\ k \in Int /\ s \in S /\ \A j \in i .. k : j \in S /\ (j \in i .. k - 1 \/ j = k)
    BY DEF Cells
  <2>2. \A j \in i .. k - 1 : LessEq(e(j), e(s))
    OBVIOUS
  <2> HIDE DEF e, S
  <2>3. CASE Less(e(s), e(k))
    <3>1. ASSUME NEW j \in i .. k PROVE LessEq(e(j), e(k))
      <4>1. LessEq(e(k), e(k)) /\ LessEq(e(s), e(k))
        BY <1>3, <2>1, <2>3, TotalOrder
      <4> QED
        BY <1>3, <2>1, <2>2, <4>1, TotalOrder
    <3> QED
      BY <2>1, <2>3, <3>1
  <2>4. CASE ~Less(e(s), e(k))
    <3>1. LessEq(e(k), e(s))
      BY <1>3, <2>1, <2>4, TotalOrder
    <3> QED
      BY <2>1, <2>2, <2>4, <3>1
  <2> QED
    BY <2>3, <2>4
<1>6. \A k \in lo - 1 .. hi : Stage[k] = Source(k) /\ Stage[k] \subseteq S
  OBVIOUS
<1>7. Stage[hi] = Source(m - 1)
  BY <1>2, <1>6
<1> HIDE DEF Stage, body, start, lo, hi, B, Source, S, e
<1>8. \A k \in lo .. hi : k \in lo - 1 .. hi /\ k - 1 \in lo - 1 .. hi /\ ~(k < lo)
  BY <1>2
<1>9. ASSUME NEW k \in lo .. hi, NEW s \in Stage[k - 1]
      PROVE  B(s, k) \in Stage[k] /\ body[<<s, k>>] = B(s, k)
  BY <1>5, <1>6, <1>8
<1>10. start \in Stage[lo - 1]
  BY <1>2, <1>4, <1>6
<1>11. PICK f : Runs(f, lo, hi, start, body) /\ \A k \in lo - 1 .. hi : f[k] \in Stage[k]
  <2>1. Leads(lo, hi, start, body, Stage)
    BY <1>9, <1>10 DEF Leads
  <2> QED
    BY <1>2, <1>4, <1>6, <2>1, LoopRuns
<1>12. Q(f)
  <2>1. \A k \in lo - 1 .. hi : ~(k < lo) => body[<<f[k - 1], k>>] = B(f[k - 1], k)
    BY <1>2, <1>8, <1>9, <1>11
  <2> QED
    BY <1>11, <2>1 DEF Runs
<1> HIDE DEF Q
<1>13. Q(z)
  BY <1>12
<1> HIDE DEF z
<1>14. \A k \in lo - 1 .. hi : z[k] = IF k < lo THEN start ELSE B(z[k - 1], k)
  BY <1>13 DEF Q
<1>15. \A k \in lo - 1 .. hi : z[k] \in Stage[k]
  <2>1. z[lo - 1] \in Stage[lo - 1]
    <3>1. lo - 1 \in lo - 1 .. hi /\ lo - 1 < lo
      BY <1>2
    <3>2. z[lo - 1] = start
      BY <1>14, <3>1
    <3> QED
      BY <1>10, <3>2
  <2>2. \A k \in lo .. hi : z[k - 1] \in Stage[k - 1] => z[k] \in Stage[k]
    BY <1>8, <1>9, <1>14
  <2> QED
    BY <1>2, <2>1, <2>2, StagesHold
<1>16. Largest(v, i, m - 1) \in Source(m - 1)
  BY <1>1, <1>2, <1>7, <1>10, <1>15
<1> QED
  BY <1>16 DEF Source, S, e

\* Every value and its columns come from one place, p, of the arrays.
ColumnsFollow(s, S, U, V, h, m, p) ==
  \A j \in Cells(m) :
    /\ s.S[j] = S[p[j]]
    /\ \A r \in Cells(h) : At(s.U, m, r, j) = At(U, m, r, p[j])
    /\ \A r \in Cells(m) : At(s.V, m, r, j) = At(V, m, r, p[j])

\* The first values, up to i, are the largest, in order.
Decreasing(v, m, i) == \A j, k \in Cells(m) : j <= i /\ j < k => LessEq(v[k], v[j])

\* The arrays on their way, and the stage the sort is at before place i.
SortStates(h, m) == [S : Vector(m), U : FractionCells(h * m), V : FractionCells(m * m)]
SortStage(S, U, V, h, m, i) ==
  {s \in SortStates(h, m) : Decreasing(s.S, m, i) /\ \E p \in Bijections(m) : ColumnsFollow(s, S, U, V, h, m, p)}

\* The iteration for place i.
SortPass(s, m, i) ==
  LET q == Largest(s.S, i, m - 1)
  IN  [S |-> SwappedAt(s.S, i, q), U |-> ColumnsSwapped(s.U, m, i, q), V |-> ColumnsSwapped(s.V, m, i, q)]

\* One pass of Sort_by_Decreasing_Singular_Values.
LEMMA SortStep ==
  ASSUME NEW h \in Nat, NEW m \in Nat, NEW S, NEW U, NEW V, NEW i \in Cells(m),
         NEW s \in SortStage(S, U, V, h, m, i - 1)
  PROVE  SortPass(s, m, i) \in SortStage(S, U, V, h, m, i)
<1> DEFINE q == Largest(s.S, i, m - 1)
           x(k) == Exchange(i, q, k)
           S2 == SwappedAt(s.S, i, q)
           U2 == ColumnsSwapped(s.U, m, i, q)
           V2 == ColumnsSwapped(s.V, m, i, q)
<1>1. /\ s.S \in Vector(m) /\ s.U \in FractionCells(h * m) /\ s.V \in FractionCells(m * m)
      /\ Decreasing(s.S, m, i - 1)
  BY DEF SortStage, SortStates
<1>2. PICK p \in Bijections(m) : ColumnsFollow(s, S, U, V, h, m, p)
  BY DEF SortStage
<1>3. q \in i .. m - 1 /\ \A k \in i .. m - 1 : LessEq(s.S[k], s.S[q])
  BY <1>1, LargestFound
<1>4. SortPass(s, m, i) = [S |-> S2, U |-> U2, V |-> V2]
  BY DEF SortPass
<1> HIDE DEF q
<1>5. q \in Cells(m) /\ i \in Int /\ q \in Int /\ i <= q
  BY <1>3 DEF Cells
<1>6. S2 \in Vector(m) /\ \A k \in Cells(m) : S2[k] = s.S[x(k)]
  <2>1. s.S \in [Cells(m) -> Number] /\ s.S \in FractionCells(m)
    BY <1>1 DEF Vector, FractionCells, Number
  <2>2. S2 \in FractionCells(m) /\ \A k \in Cells(m) : S2[k] = s.S[x(k)]
    BY <1>5, <2>1, SwappedElements
  <2>3. \A k \in Cells(m) : x(k) \in Cells(m)
    BY <1>5, ExchangedBack
  <2> QED
    BY <2>1, <2>2, <2>3 DEF Vector, FractionCells
<1>7. U2 \in FractionCells(h * m) /\ \A r \in Cells(h), k \in Cells(m) : At(U2, m, r, k) = At(s.U, m, r, x(k))
  BY <1>1, <1>5, SwappedColumns
<1>8. V2 \in FractionCells(m * m) /\ \A r \in Cells(m), k \in Cells(m) : At(V2, m, r, k) = At(s.V, m, r, x(k))
  BY <1>1, <1>5, SwappedColumns
<1>9. \A k \in Cells(m) : x(k) \in Cells(m) /\ x(x(k)) = k
  BY <1>5, ExchangedBack
<1> HIDE DEF S2, U2, V2
<1>10. Decreasing(S2, m, i)
  <2> SUFFICES ASSUME NEW j \in Cells(m), NEW k \in Cells(m), j <= i, j < k
               PROVE  LessEq(S2[k], S2[j])
    BY DEF Decreasing
  <2>1. j \in Int /\ k \in Int /\ k <= m - 1
    BY DEF Cells
  <2>2. CASE j < i
    <3>1. x(j) = j
      BY <1>5, <2>1, <2>2 DEF Exchange
    <3>2. j < x(k)
      BY <1>5, <2>1, <2>2 DEF Exchange
    <3> HIDE DEF x
    <3>3. j <= i - 1
      BY <1>5, <2>1, <2>2
    <3> QED
      BY <1>1, <1>6, <1>9, <3>1, <3>2, <3>3 DEF Decreasing
  <2>3. CASE j = i
    <3>1. x(j) = q
      BY <2>3 DEF Exchange
    <3>2. x(k) \in i .. m - 1
      BY <1>3, <1>5, <2>1, <2>3 DEF Exchange
    <3> HIDE DEF x
    <3> QED
      BY <1>3, <1>6, <3>1, <3>2
  <2> QED
    BY <1>5, <2>1, <2>2, <2>3
<1> HIDE DEF x
<1> DEFINE p2 == [k \in Cells(m) |-> p[x(k)]]
<1>11. p2 \in Bijections(m)
  <2>1. p \in [Cells(m) -> Cells(m)] /\ \A j, k \in Cells(m) : p[j] = p[k] => j = k
    BY DEF Bijections
  <2>2. p2 \in [Cells(m) -> Cells(m)]
    BY <1>9, <2>1
  <2>3. ASSUME NEW j \in Cells(m), NEW k \in Cells(m), p2[j] = p2[k]
        PROVE  j = k
    <3>1. x(j) = x(k)
      BY <1>9, <2>1, <2>3
    <3> QED
      BY <1>9, <3>1
  <2> HIDE DEF p2
  <2> QED
    BY <2>2, <2>3 DEF Bijections
<1>12. ColumnsFollow([S |-> S2, U |-> U2, V |-> V2], S, U, V, h, m, p2)
  <2>1. ASSUME NEW j \in Cells(m)
        PROVE  /\ S2[j] = S[p2[j]]
               /\ \A r \in Cells(h) : At(U2, m, r, j) = At(U, m, r, p2[j])
               /\ \A r \in Cells(m) : At(V2, m, r, j) = At(V, m, r, p2[j])
    <3>1. p2[j] = p[x(j)] /\ x(j) \in Cells(m)
      BY <1>9
    <3> HIDE DEF p2
    <3> QED
      BY <1>2, <1>6, <1>7, <1>8, <3>1 DEF ColumnsFollow
  <2> HIDE DEF p2
  <2> QED
    BY <2>1 DEF ColumnsFollow
<1> HIDE DEF p2
<1> DEFINE t == [S |-> S2, U |-> U2, V |-> V2]
<1>13. t \in SortStates(h, m) /\ t.S = S2
  BY <1>6, <1>7, <1>8 DEF SortStates
<1>14. ColumnsFollow(t, S, U, V, h, m, p2)
  BY <1>12
<1> HIDE DEF t
<1>15. t \in SortStage(S, U, V, h, m, i)
  BY <1>10, <1>11, <1>13, <1>14 DEF SortStage
<1> QED
  BY <1>4, <1>15 DEF t

\* The sort keeps values and columns together, and ends with the values in order.
LEMMA SortRuns ==
  ASSUME NEW h \in Nat, NEW m \in Nat, m # 0, NEW S \in Vector(m),
         NEW U \in FractionCells(h * m), NEW V \in FractionCells(m * m)
  PROVE  SortByDecreasing(S, U, V, m) \in SortStage(S, U, V, h, m, m - 2)
<1> DEFINE lo == 0
           hi == m - 2
           start == [S |-> S, U |-> U, V |-> V]
           B(s, k) == SortPass(s, m, k)
           P(f) == f = [i \in lo - 1 .. hi |-> IF i < lo THEN start ELSE B(f[i - 1], i)]
           z == CHOOSE f : P(f)
           T == SortStates(h, m)
           body == [q \in T \X Int |-> B(q[1], q[2])]
           Stage == [i \in lo - 1 .. hi |-> SortStage(S, U, V, h, m, i)]
<1>1. SortByDecreasing(S, U, V, m) = IF hi < lo THEN start ELSE z[hi]
  BY DEF SortByDecreasing, For, SortPass, Largest
<1>2. lo \in Int /\ hi \in Int /\ lo - 1 \in lo - 1 .. hi /\ hi \in lo - 1 .. hi /\ (hi < lo => hi = lo - 1)
  OBVIOUS
<1>3. start \in T /\ start \in SortStage(S, U, V, h, m, lo - 1)
  <2>1. start \in SortStates(h, m) /\ start.S = S /\ start.U = U /\ start.V = V
    BY DEF SortStates
  <2>2. Decreasing(S, m, 0 - 1)
    BY DEF Decreasing, Cells
  <2> DEFINE p == [k \in Cells(m) |-> k]
  <2>3. p \in Bijections(m) /\ \A k \in Cells(m) : p[k] = k
    BY DEF Bijections
  <2> HIDE DEF p, start
  <2>4. ColumnsFollow(start, S, U, V, h, m, p)
    BY <2>1, <2>3 DEF ColumnsFollow
  <2> QED
    BY <2>1, <2>2, <2>3, <2>4 DEF SortStage
<1>4. ASSUME NEW i \in lo .. hi, NEW s \in SortStage(S, U, V, h, m, i - 1)
      PROVE  B(s, i) \in SortStage(S, U, V, h, m, i) /\ body[<<s, i>>] = B(s, i)
  <2>1. i \in Cells(m) /\ i \in Int
    BY DEF Cells
  <2>2. s \in T
    BY DEF SortStage
  <2> HIDE DEF T
  <2> QED
    BY <2>1, <2>2, SortStep
<1>5. \A i \in lo - 1 .. hi : Stage[i] = SortStage(S, U, V, h, m, i) /\ Stage[i] \subseteq T
  BY DEF SortStage
<1>6. Stage[hi] = SortStage(S, U, V, h, m, m - 2)
  BY <1>2, <1>5
<1> HIDE DEF Stage, body, start, lo, hi, B, T
<1>7. \A i \in lo .. hi : i \in lo - 1 .. hi /\ i - 1 \in lo - 1 .. hi /\ ~(i < lo)
  BY <1>2
<1>8. ASSUME NEW i \in lo .. hi, NEW s \in Stage[i - 1]
      PROVE  B(s, i) \in Stage[i] /\ body[<<s, i>>] = B(s, i)
  BY <1>4, <1>5, <1>7
<1>9. start \in Stage[lo - 1]
  BY <1>2, <1>3, <1>5
<1>10. PICK f : Runs(f, lo, hi, start, body) /\ \A i \in lo - 1 .. hi : f[i] \in Stage[i]
  <2>1. Leads(lo, hi, start, body, Stage)
    BY <1>8, <1>9 DEF Leads
  <2> QED
    BY <1>2, <1>3, <1>5, <2>1, LoopRuns
<1>11. P(f)
  <2>1. \A i \in lo - 1 .. hi : ~(i < lo) => body[<<f[i - 1], i>>] = B(f[i - 1], i)
    BY <1>2, <1>7, <1>8, <1>10
  <2> QED
    BY <1>10, <2>1 DEF Runs
<1> HIDE DEF P
<1>12. P(z)
  BY <1>11
<1> HIDE DEF z
<1>13. \A i \in lo - 1 .. hi : z[i] = IF i < lo THEN start ELSE B(z[i - 1], i)
  BY <1>12 DEF P
<1>14. \A i \in lo - 1 .. hi : z[i] \in Stage[i]
  <2>1. z[lo - 1] \in Stage[lo - 1]
    <3>1. lo - 1 \in lo - 1 .. hi /\ lo - 1 < lo
      BY <1>2
    <3>2. z[lo - 1] = start
      BY <1>13, <3>1
    <3> QED
      BY <1>9, <3>2
  <2>2. \A i \in lo .. hi : z[i - 1] \in Stage[i - 1] => z[i] \in Stage[i]
    BY <1>7, <1>8, <1>13
  <2> QED
    BY <1>2, <2>1, <2>2, StagesHold
<1> QED
  BY <1>1, <1>2, <1>6, <1>9, <1>14

\* A sort moves every value with its columns and orders the values.
Together(f, S, U, V, m) ==
  /\ \A j \in 1 .. m - 1 : LessEq(f.S[j], f.S[j - 1])
  /\ \E p \in Bijections(m) : \A j \in Cells(m) :
       /\ f.S[j] = S[p[j]]
       /\ \A c \in DOMAIN f.U : c % m = j => f.U[c] = U[c - j + p[j]]
       /\ \A c \in DOMAIN f.V : c % m = j => f.V[c] = V[c - j + p[j]]

\* What a sort returns.
LEMMA Sorts ==
  ASSUME NEW h \in Nat, NEW m \in Nat, m # 0, NEW S \in Vector(m),
         NEW U \in FractionCells(h * m), NEW V \in FractionCells(m * m), NEW f, f = SortByDecreasing(S, U, V, m)
  PROVE  Together(f, S, U, V, m)
<1>1. f \in SortStage(S, U, V, h, m, m - 2)
  BY SortRuns
<1>2. f.U \in FractionCells(h * m) /\ f.V \in FractionCells(m * m) /\ Decreasing(f.S, m, m - 2)
  BY <1>1 DEF SortStage, SortStates
<1>3. PICK p \in Bijections(m) : ColumnsFollow(f, S, U, V, h, m, p)
  BY <1>1 DEF SortStage
<1>4. ASSUME NEW j \in 1 .. m - 1
      PROVE  LessEq(f.S[j], f.S[j - 1])
  <2>1. j \in Cells(m) /\ j - 1 \in Cells(m) /\ j - 1 <= m - 2 /\ j - 1 < j
    BY DEF Cells
  <2> QED
    BY <1>2, <2>1 DEF Decreasing
<1>5. p \in [Cells(m) -> Cells(m)]
  BY DEF Bijections
<1>6. ASSUME NEW q \in Nat, NEW M, NEW N, NEW j \in Cells(m), \A r \in Cells(q) : At(N, m, r, j) = At(M, m, r, p[j]),
             NEW c \in Cells(q * m), c % m = j
      PROVE  N[c] = M[c - j + p[j]]
  <2>1. c \div m \in Cells(q) /\ c = m * (c \div m) + j
    BY <1>6, PartsOf
  <2>2. p[j] \in Int /\ j \in Int /\ m * (c \div m) \in Int
    BY <1>5, <2>1 DEF Cells
  <2>3. N[m * (c \div m) + j] = M[m * (c \div m) + p[j]]
    BY <1>6, <2>1 DEF At
  <2>4. c - j + p[j] = m * (c \div m) + p[j]
    BY <2>1, <2>2
  <2> QED
    BY <2>1, <2>3, <2>4
<1>7. ASSUME NEW j \in Cells(m)
      PROVE  /\ f.S[j] = S[p[j]]
             /\ \A c \in DOMAIN f.U : c % m = j => f.U[c] = U[c - j + p[j]]
             /\ \A c \in DOMAIN f.V : c % m = j => f.V[c] = V[c - j + p[j]]
  <2>1. DOMAIN f.U = Cells(h * m) /\ DOMAIN f.V = Cells(m * m)
    BY <1>2 DEF FractionCells
  <2>2. f.S[j] = S[p[j]] /\ (\A r \in Cells(h) : At(f.U, m, r, j) = At(U, m, r, p[j]))
        /\ \A r \in Cells(m) : At(f.V, m, r, j) = At(V, m, r, p[j])
    BY <1>3 DEF ColumnsFollow
  <2>3. \A c \in Cells(h * m) : c % m = j => f.U[c] = U[c - j + p[j]]
    BY <1>6, <2>2
  <2>4. \A r \in Cells(m) : At(f.V, m, r, j) = At(V, m, r, p[j])
    BY <2>2
  <2>5. \A c \in Cells(m * m) : c % m = j => f.V[c] = V[c - j + p[j]]
    <3> DEFINE q == m
    <3>1. q \in Nat /\ \A r \in Cells(q) : At(f.V, m, r, j) = At(V, m, r, p[j])
      BY <2>4
    <3> HIDE DEF q
    <3>2. \A c \in Cells(q * m) : c % m = j => f.V[c] = V[c - j + p[j]]
      BY <1>6, <3>1
    <3> QED
      BY <3>2 DEF q
  <2> QED
    BY <2>1, <2>2, <2>3, <2>5
<1> QED
  BY <1>4, <1>7 DEF Together

-----------------------------------------------------------------------------
(* The exponential (expm): the loop runs until the powers of a nilpotent matrix are zero.*)

\* The factors of the first terms of the series.
LEMMA SeriesFactors ==
  /\ Div(One, Whole(1)) = One /\ Div(One, Whole(2)) = <<1, 2>> /\ <<1, 2>> \in Positive
  /\ \A k \in Nat \ {0} : Div(One, Whole(k)) \in Number
<1>1. ASSUME NEW k \in Nat, k # 0
      PROVE  Div(One, Whole(k)) \in Number /\ Stands(Div(One, Whole(k)), 1, k)
  <2>1. Stands(Whole(k), k, 1) /\ Stands(One, 1, 1)
    BY WholeStands DEF One
  <2>2. Whole(k) \in Number /\ Whole(k) # Zero /\ One \in Number
    BY <1>1, <2>1 DEF Stands, Number, Whole, Zero
  <2>3. Div(One, Whole(k)) = Quotient(1, k)
    BY <1>1 DEF Div, One, Whole, IsNumber
  <2> QED
    BY <1>1, <2>2, <2>3, DivUndoes, QuotientStands
<1>2. Div(One, Whole(1)) = One
  <2>1. Stands(Div(One, Whole(1)), 1, 1) /\ Stands(One, 1, 1)
    BY <1>1, WholeStands DEF One
  <2> QED
    BY <2>1, StandsUnique
<1>3. Stands(<<1, 2>>, 1, 2)
  <2>1. Gcd[<<1, 2>>] = 1
    <3>1. 1 * 1 + 0 * 2 = 1
      OBVIOUS
    <3> QED
      BY <3>1, CoprimeGcd
  <2> QED
    BY <2>1 DEF Stands, Fraction, IsNumber, Magnitude
<1>4. Div(One, Whole(2)) = <<1, 2>>
  <2>1. Stands(Div(One, Whole(2)), 1, 2)
    BY <1>1
  <2> QED
    BY <1>3, <2>1, StandsUnique
<1>5. <<1, 2>> \in Positive
  BY <1>3 DEF Stands, Positive, Number
<1> QED
  BY <1>1, <1>2, <1>4, <1>5

\* The states of the loop, and where it is after k passes.
SeriesStates(m) == [E : Matrices(m, m), F : Matrices(m, m), T : Matrices(m, m)]
HalfSquare(M, m) == Scaled(MatMul(M, M, m, m, m), <<1, 2>>)
SeriesStage(M, m, k) ==
  {s \in SeriesStates(m) :
     /\ k = 0 => s.E = Filled(m * m, Zero) /\ s.F = Identity(m) /\ s.T = Identity(m)
     /\ k = 1 => s.E = Identity(m) /\ s.F = M /\ s.T = M
     /\ k = 2 => /\ s.E = MatAdd(Identity(m), M)
                 /\ \/ s.F = HalfSquare(M, m) /\ s.T = HalfSquare(M, m)
                    \/ s.T = Filled(m * m, Zero) /\ HalfSquare(M, m) = Filled(m * m, Zero)
     /\ k >= 3 => s.E = MatAdd(MatAdd(Identity(m), M), HalfSquare(M, m)) /\ s.T = Filled(m * m, Zero)}

\* One pass of the loop of smls_mat_expm.
SeriesPass(s, M, m, k) ==
  LET F == Scaled(MatMul(M, s.F, m, m, m), Div(One, Whole(k)))
  IN  IF ~Less(Zero, Norm1(s.T, m, m)) THEN s ELSE [E |-> MatAdd(s.E, s.F), F |-> F, T |-> F]

\* The third power is zero.
Nilpotent(M, m) == MatMul(M, MatMul(M, M, m, m, m), m, m, m) = Filled(m * m, Zero)

\* Identity, square and half of it.
LEMMA SeriesTerms ==
  ASSUME NEW m \in Nat, m # 0, NEW M \in Unsigned(m * m), Nilpotent(M, m)
  PROVE  /\ M \in Matrices(m, m) /\ Identity(m) \in Matrices(m, m) /\ HalfSquare(M, m) \in Matrices(m, m)
         /\ Identity(m) \in Unsigned(m * m) /\ HalfSquare(M, m) \in Unsigned(m * m)
         /\ Identity(m) # Filled(m * m, Zero)
         /\ MatMul(M, HalfSquare(M, m), m, m, m) = Filled(m * m, Zero)
         /\ M = Filled(m * m, Zero) => HalfSquare(M, m) = Filled(m * m, Zero)
<1> DEFINE Q == MatMul(M, M, m, m, m)
           H == HalfSquare(M, m)
           Z == Filled(m * m, Zero)
<1>1. M \in Matrices(m, m)
  BY DEF Unsigned, Matrices, Vector, NonNegative
<1>2. Q \in Matrices(m, m) /\ Q \in Unsigned(m * m)
  BY <1>1, ProductType, ProductUnsigned
<1>3. <<1, 2>> \in Number /\ <<1, 2>> \in Positive
  BY SeriesFactors DEF Positive
<1>4. H = Scaled(Q, <<1, 2>>)
  BY DEF HalfSquare
<1>5. MatMul(M, H, m, m, m) = Z /\ H \in Matrices(m, m)
  <2>1. MatMul(M, H, m, m, m) = Scaled(MatMul(M, Q, m, m, m), <<1, 2>>) /\ H \in Matrices(m, m)
    BY <1>1, <1>2, <1>3, <1>4, ProductScaled
  <2>2. MatMul(M, Q, m, m, m) = Z
    BY DEF Nilpotent
  <2> QED
    BY <1>1, <1>3, <2>1, <2>2, NeutralMatrices
<1> HIDE DEF Q
<1>6. H \in Unsigned(m * m)
  <2>1. \A c \in Cells(m * m) : Q[c] \in NonNegative
    BY <1>2 DEF Unsigned
  <2>2. \A c \in Cells(m * m) : Mul(<<1, 2>>, Q[c]) \in NonNegative
    BY <1>3, <2>1, SignMul
  <2>3. DOMAIN Q = Cells(m * m)
    BY <1>2 DEF Unsigned
  <2> QED
    BY <1>4, <2>2, <2>3 DEF Scaled, Unsigned
<1>7. One \in NonNegative /\ Zero \in NonNegative /\ One # Zero
  BY NumbersClosed DEF NonNegative, One, Zero, Whole
<1>8. Identity(m) \in Unsigned(m * m) /\ Identity(m) \in Matrices(m, m)
  BY <1>7, IdentityCells DEF Identity, Unsigned
<1>9. Identity(m) # Z
  <2>1. 0 \in Cells(m)
    BY DEF Cells
  <2>2. At(Identity(m), m, 0, 0) = One
    BY <2>1, IdentityCells
  <2>3. At(Z, m, 0, 0) = Zero
    BY <2>1, CellOf DEF At, Filled
  <2> QED
    BY <1>7, <2>2, <2>3
<1>10. M = Z => H = Z
  <2> SUFFICES ASSUME M = Z PROVE H = Z
    OBVIOUS
  <2>1. \A c \in Cells(m * m) : Q[c] \in Number
    BY <1>2 DEF Matrices, Vector
  <2>2. ASSUME NEW r \in Cells(m), NEW k \in Cells(m)
        PROVE  At(Q, m, r, k) = At(Z, m, r, k)
    <3> DEFINE v == Pairs(M, M, m, m, r, k)
    <3>1. At(Q, m, r, k) = SumOf(v, m)
      BY <1>1, ProductCell DEF Q
    <3>2. ASSUME NEW i \in Cells(m)
          PROVE  v[i] = Zero
      <4>1. v[i] = Mul(At(M, m, r, i), At(M, m, i, k)) /\ At(M, m, i, k) \in Number
        BY <1>1, PairsAreNumbers, AtNumber
      <4>2. At(M, m, r, i) = Zero
        BY CellOf DEF At, Filled
      <4> QED
        BY <4>1, <4>2, OneIsNeutral
    <3> HIDE DEF v
    <3>3. Total(v, 0, m - 1) = Zero
      BY <3>2, TotalOfZeros DEF Cells
    <3>4. At(Z, m, r, k) = Zero
      BY CellOf DEF At, Filled
    <3> QED
      BY <3>1, <3>3, <3>4 DEF SumOf
  <2>3. Z \in Matrices(m, m)
    BY <1>1, NeutralMatrices
  <2>4. Q = Z
    BY <1>2, <2>2, <2>3, SameMatrix
  <2> QED
    BY <1>1, <1>3, <1>4, <2>4, NeutralMatrices
<1> QED
  BY <1>1, <1>5, <1>6, <1>8, <1>9, <1>10

\* One pass.
LEMMA SeriesStep ==
  ASSUME NEW m \in Nat, m # 0, NEW M \in Unsigned(m * m), Nilpotent(M, m), NEW k \in Nat, k # 0,
         NEW s \in SeriesStage(M, m, k - 1)
  PROVE  SeriesPass(s, M, m, k) \in SeriesStage(M, m, k)
<1> DEFINE I == Identity(m)
           H == HalfSquare(M, m)
           Z == Filled(m * m, Zero)
           q == Div(One, Whole(k))
           F == Scaled(MatMul(M, s.F, m, m, m), q)
           E2 == MatAdd(s.E, s.F)
           on == [E |-> E2, F |-> F, T |-> F]
<1>1. /\ M \in Matrices(m, m) /\ I \in Matrices(m, m) /\ H \in Matrices(m, m) /\ Z \in Matrices(m, m)
      /\ I \in Unsigned(m * m) /\ H \in Unsigned(m * m) /\ I # Z
      /\ MatMul(M, H, m, m, m) = Z /\ (M = Z => H = Z)
  BY SeriesTerms, NeutralMatrices
<1>2. s \in SeriesStates(m) /\ s.E \in Matrices(m, m) /\ s.F \in Matrices(m, m) /\ s.T \in Matrices(m, m)
  BY DEF SeriesStage, SeriesStates
<1>3. q \in Number
  BY SeriesFactors
<1>4. SeriesPass(s, M, m, k) = IF ~Less(Zero, Norm1(s.T, m, m)) THEN s ELSE on
  BY DEF SeriesPass
<1>5. \A N \in Unsigned(m * m) : Less(Zero, Norm1(N, m, m)) <=> N # Z
  BY NormPositive
<1>6. on \in SeriesStates(m)
  <2>1. F \in Matrices(m, m)
    <3>1. MatMul(M, s.F, m, m, m) \in Matrices(m, m)
      BY <1>1, <1>2, ProductType
    <3> QED
      BY <1>1, <1>3, <3>1, ProductScaled
  <2>2. E2 \in Matrices(m, m)
    <3>1. s.F = Scaled(s.F, One) /\ One \in Number
      BY <1>2, NeutralMatrices, NumbersClosed
    <3>2. MatAdd(s.E, Scaled(s.F, One)) \in Matrices(m, m)
      BY <1>2, <3>1, AddedCells
    <3> QED
      BY <3>1, <3>2
  <2> HIDE DEF E2, F
  <2> QED
    BY <2>1, <2>2 DEF SeriesStates
<1>7. on.E = E2 /\ on.F = F /\ on.T = F
  OBVIOUS
<1>8. /\ \A N \in Matrices(m, m) : MatAdd(Z, N) = N /\ MatAdd(N, Z) = N /\ Scaled(N, One) = N
      /\ Scaled(Z, q) = Z
  BY <1>1, <1>3, NeutralMatrices
<1>9. MatMul(M, I, m, m, m) = M
  BY <1>1, IdentityIsNeutral
<1> HIDE DEF on, Z, I
<1>10. CASE k = 1
  <2>1. s.E = Z /\ s.F = I /\ s.T = I
    BY <1>10 DEF SeriesStage, Z, I
  <2>2. SeriesPass(s, M, m, k) = on
    BY <1>1, <1>4, <1>5, <2>1
  <2>3. E2 = I /\ F = M
    BY <1>1, <1>8, <1>9, <1>10, <2>1, SeriesFactors
  <2> QED
    BY <1>6, <1>7, <1>10, <2>2, <2>3 DEF SeriesStage, I
<1>11. CASE k = 2
  <2>1. s.E = I /\ s.F = M /\ s.T = M
    BY <1>11 DEF SeriesStage, I
  <2>2. CASE M = Z
    <3>1. SeriesPass(s, M, m, k) = s
      BY <1>1, <1>4, <1>5, <2>1, <2>2
    <3>2. s.E = MatAdd(I, M)
      BY <1>1, <1>8, <2>1, <2>2
    <3> QED
      BY <1>1, <1>2, <1>11, <2>1, <2>2, <3>1, <3>2 DEF SeriesStage, I, Z
  <2>3. CASE M # Z
    <3>1. SeriesPass(s, M, m, k) = on
      BY <1>1, <1>4, <1>5, <2>1, <2>3
    <3>2. F = H /\ E2 = MatAdd(I, M)
      BY <1>11, <2>1, SeriesFactors DEF HalfSquare
    <3> QED
      BY <1>6, <1>7, <1>11, <3>1, <3>2 DEF SeriesStage, I, Z
  <2> QED
    BY <2>2, <2>3
<1>12. CASE k = 3
  <2> DEFINE W == MatAdd(I, M)
  <2>1. s.E = W /\ ((s.F = H /\ s.T = H) \/ (s.T = Z /\ H = Z))
    BY <1>12 DEF SeriesStage, I, Z
  <2>2. s.T = H
    BY <2>1
  <2>3. W \in Matrices(m, m)
    BY <1>2, <2>1
  <2> HIDE DEF W
  <2>4. CASE H = Z
    <3>1. SeriesPass(s, M, m, k) = s
      BY <1>1, <1>4, <1>5, <2>2, <2>4
    <3>2. s.E = MatAdd(W, H)
      BY <1>8, <2>1, <2>4, <2>3
    <3> QED
      BY <1>2, <1>12, <2>2, <2>4, <3>1, <3>2 DEF SeriesStage, I, Z, W
  <2>5. CASE H # Z
    <3>1. SeriesPass(s, M, m, k) = on /\ s.F = H
      BY <1>1, <1>4, <1>5, <2>1, <2>2, <2>5
    <3>2. F = Z /\ E2 = MatAdd(W, H)
      BY <1>1, <1>8, <2>1, <3>1
    <3> QED
      BY <1>6, <1>7, <1>12, <3>1, <3>2 DEF SeriesStage, I, Z, W
  <2> QED
    BY <2>4, <2>5
<1>13. CASE k > 3
  <2>1. k - 1 >= 3 /\ k >= 3 /\ k # 2 /\ k # 1 /\ k # 0
    BY <1>13
  <2>2. s.E = MatAdd(MatAdd(I, M), H) /\ s.T = Z
    BY <2>1 DEF SeriesStage, I, Z
  <2>3. Z \in Unsigned(m * m)
    <3>1. Zero \in NonNegative
      BY NumbersClosed DEF NonNegative, Zero, Whole
    <3> QED
      BY <3>1 DEF Z, Filled, Unsigned
  <2>4. SeriesPass(s, M, m, k) = s
    BY <1>4, <1>5, <2>2, <2>3
  <2> QED
    BY <1>2, <2>1, <2>2, <2>4 DEF SeriesStage, I, Z
<1> QED
  BY <1>10, <1>11, <1>12, <1>13

\* All of them.
LEMMA SeriesRuns ==
  ASSUME NEW m \in Nat, m # 0, NEW M \in Unsigned(m * m), Nilpotent(M, m)
  PROVE  Series(M, m) \in SeriesStage(M, m, Turns)
<1> DEFINE lo == 1
           hi == Turns
           start == [E |-> Filled(m * m, Zero), F |-> Identity(m), T |-> Identity(m)]
           B(s, k) == SeriesPass(s, M, m, k)
           P(f) == f = [i \in lo - 1 .. hi |-> IF i < lo THEN start ELSE B(f[i - 1], i)]
           z == CHOOSE f : P(f)
           S == SeriesStates(m)
           body == [q \in S \X Int |-> B(q[1], q[2])]
           Stage == [i \in lo - 1 .. hi |-> SeriesStage(M, m, i)]
<1>1. Series(M, m) = IF hi < lo THEN start ELSE z[hi]
  BY DEF Series, For, SeriesPass
<1>2. lo \in Int /\ hi \in Int /\ lo - 1 \in lo - 1 .. hi /\ hi \in lo - 1 .. hi /\ (hi < lo => hi = lo - 1)
  BY SpectralAssumption
<1>3. start \in S /\ start \in SeriesStage(M, m, lo - 1)
  <2>1. Identity(m) \in Matrices(m, m) /\ Filled(m * m, Zero) \in Matrices(m, m)
    BY SeriesTerms, NeutralMatrices
  <2>2. start \in S /\ start.E = Filled(m * m, Zero) /\ start.F = Identity(m) /\ start.T = Identity(m)
    BY <2>1 DEF SeriesStates
  <2> HIDE DEF start
  <2> QED
    BY <2>2 DEF SeriesStage
<1>4. ASSUME NEW i \in lo .. hi, NEW s \in SeriesStage(M, m, i - 1)
      PROVE  B(s, i) \in SeriesStage(M, m, i) /\ body[<<s, i>>] = B(s, i)
  <2>1. i \in Nat /\ i # 0 /\ i \in Int
    OBVIOUS
  <2>2. s \in S
    BY DEF SeriesStage
  <2> QED
    BY <2>1, <2>2, SeriesStep
<1>5. \A i \in lo - 1 .. hi : Stage[i] = SeriesStage(M, m, i) /\ Stage[i] \subseteq S
  BY DEF SeriesStage
<1>6. Stage[hi] = SeriesStage(M, m, Turns)
  BY <1>2, <1>5
<1> HIDE DEF Stage, body, start, lo, hi, B, S
<1>7. \A i \in lo .. hi : i \in lo - 1 .. hi /\ i - 1 \in lo - 1 .. hi /\ ~(i < lo)
  BY <1>2
<1>8. ASSUME NEW i \in lo .. hi, NEW s \in Stage[i - 1]
      PROVE  B(s, i) \in Stage[i] /\ body[<<s, i>>] = B(s, i)
  BY <1>4, <1>5, <1>7
<1>9. start \in Stage[lo - 1]
  BY <1>2, <1>3, <1>5
<1>10. PICK f : Runs(f, lo, hi, start, body) /\ \A i \in lo - 1 .. hi : f[i] \in Stage[i]
  <2>1. Leads(lo, hi, start, body, Stage)
    BY <1>8, <1>9 DEF Leads
  <2> QED
    BY <1>2, <1>3, <1>5, <2>1, LoopRuns
<1>11. P(f)
  <2>1. \A i \in lo - 1 .. hi : ~(i < lo) => body[<<f[i - 1], i>>] = B(f[i - 1], i)
    BY <1>2, <1>7, <1>8, <1>10
  <2> QED
    BY <1>10, <2>1 DEF Runs
<1> HIDE DEF P
<1>12. P(z)
  BY <1>11
<1> HIDE DEF z
<1>13. \A i \in lo - 1 .. hi : z[i] = IF i < lo THEN start ELSE B(z[i - 1], i)
  BY <1>12 DEF P
<1>14. \A i \in lo - 1 .. hi : z[i] \in Stage[i]
  <2>1. z[lo - 1] \in Stage[lo - 1]
    <3>1. lo - 1 \in lo - 1 .. hi /\ lo - 1 < lo
      BY <1>2
    <3>2. z[lo - 1] = start
      BY <1>13, <3>1
    <3> QED
      BY <1>9, <3>2
  <2>2. \A i \in lo .. hi : z[i - 1] \in Stage[i - 1] => z[i] \in Stage[i]
    BY <1>7, <1>8, <1>13
  <2> QED
    BY <1>2, <2>1, <2>2, StagesHold
<1> QED
  BY <1>1, <1>2, <1>6, <1>9, <1>14

\* The exponential.
LEMMA ExpmIs ==
  ASSUME NEW m \in Nat, m # 0, NEW M \in Vector(m * m), Turns >= 3, Nilpotent(M, m),
         \A k \in Cells(m * m) : LessEq(Zero, M[k])
  PROVE  Expm(M, m) = MatAdd(MatAdd(Identity(m), M), Scaled(MatMul(M, M, m, m, m), <<1, 2>>))
<1>1. M \in Unsigned(m * m)
  <2>1. M \in [Cells(m * m) -> Number]
    BY DEF Vector
  <2>2. ASSUME NEW c \in Cells(m * m)
        PROVE  M[c] \in NonNegative
    <3>1. M[c] \in Number /\ LessEq(Zero, M[c]) /\ Zero \in Number
      BY <2>1, NumbersClosed
    <3>2. 0 * M[c][2] <= M[c][1] * 1 /\ M[c][1] \in Int /\ M[c][2] \in Int
      BY <3>1, LessEqIs, NumberParts DEF Zero, Whole
    <3> QED
      BY <3>1, <3>2 DEF NonNegative
  <2> QED
    BY <2>1, <2>2 DEF Unsigned
<1>2. Series(M, m) \in SeriesStage(M, m, Turns)
  BY <1>1, SeriesRuns
<1> QED
  BY <1>2 DEF SeriesStage, Expm, HalfSquare

-----------------------------------------------------------------------------
(* The one sided Jacobi iteration (svd). A rotation of two columns of A and of V keeps*)
(* A * V', or leaves a column of A without numbers.                                   *)

\* An angle: its cosine and sine are numbers, on the unit circle, or neither is one.
IsAngle(a) ==
  /\ a.cs \in Fraction /\ a.sn \in Fraction
  /\ \/ a.cs \in Number /\ a.sn \in Number /\ Mul(a.cs, a.cs) = Sub(One, Mul(a.sn, a.sn))
     \/ ~IsNumber(a.cs) /\ ~IsNumber(a.sn)

\* The rotation of a tangent.
TurnBy(t) == LET cs == Div(One, Root(Add(One, Mul(t, t)))) IN [cs |-> cs, sn |-> Mul(cs, t)]

\* The angle of a tangent that is a number is one, and of any other no number.
LEMMA TurnIsAngle ==
  ASSUME NEW t \in Fraction
  PROVE  IsAngle(TurnBy(t)) /\ (~IsNumber(t) => ~IsNumber(TurnBy(t).cs))
<1> DEFINE y == Add(One, Mul(t, t))
           r == Root(y)
           cs == Div(One, r)
           sn == Mul(cs, t)
<1>1. TurnBy(t) = [cs |-> cs, sn |-> sn]
  BY DEF TurnBy
<1>2. One \in Number /\ One \in Fraction
  BY NumbersClosed DEF Number
<1>3. y \in Fraction /\ (IsNumber(y) <=> IsNumber(t))
  BY <1>2, Closed DEF Number
<1>4. r \in Fraction
  BY <1>3, RootIsFraction
<1>5. cs \in Fraction /\ sn \in Fraction
  BY <1>2, <1>4, DivClosed, Closed
<1>6. ~IsNumber(r) => ~IsNumber(cs)
  BY NanIsFraction DEF Div
<1>7. ~IsNumber(t) => ~IsNumber(r)
  BY <1>3, RootSquared DEF Number
<1>8. ~IsNumber(cs) => ~IsNumber(sn)
  BY <1>5, Closed
<1>9. ASSUME IsNumber(r)
      PROVE  cs \in Number /\ sn \in Number /\ Mul(cs, cs) = Sub(One, Mul(sn, sn))
  <2>1. t \in Number /\ r \in Number /\ r \in NonNegative /\ Mul(r, r) = y
    BY <1>3, <1>4, <1>7, <1>9, RootSquared DEF Number
  <2>2. One \in Positive /\ One \in NonNegative
    BY <1>2 DEF Positive, NonNegative, One, Whole
  <2>3. y # Zero
    <3>1. Mul(t, t) \in NonNegative
      BY <2>1, <2>2, SignMul
    <3>2. One \in Positive /\ One \in NonNegative
      BY <2>2
    <3>3. y \in Positive
      BY <3>1, <3>2, SignAdd
    <3> QED
      BY <1>3, <3>3, PositiveIs
  <2>4. r # Zero
    BY <2>1, <2>3, OneIsNeutral
  <2> HIDE DEF r, y
  <2>5. cs \in Number /\ Mul(cs, r) = One
    BY <1>2, <2>1, <2>4, DivUndoes
  <2> HIDE DEF cs
  <2>6. sn \in Number
    BY <2>1, <2>5, NumbersClosed
  <2> DEFINE k == Mul(cs, cs)
             tt == Mul(t, t)
  <2>7. k \in Number /\ tt \in Number /\ Mul(k, tt) \in Number
    BY <2>1, <2>5, NumbersClosed
  <2>8. Mul(k, Mul(r, r)) = One
    <3>1. Mul(Mul(cs, cs), Mul(r, r)) = Mul(Mul(cs, r), Mul(cs, r))
      BY <2>1, <2>5, PairsSwap
    <3> QED
      BY <1>2, <2>5, <3>1, OneIsNeutral
  <2>9. Mul(sn, sn) = Mul(k, tt)
    BY <2>1, <2>5, PairsSwap
  <2>10. Add(k, Mul(k, tt)) = One
    <3>1. Mul(k, Add(One, tt)) = Add(Mul(k, One), Mul(k, tt))
      BY <1>2, <2>7, Distributes DEF Number
    <3> QED
      BY <2>1, <2>7, <2>8, <3>1, OneIsNeutral DEF y
  <2>11. Sub(Add(k, Mul(k, tt)), Mul(k, tt)) = k
    BY <2>7, SubUndoes
  <2> QED
    BY <2>5, <2>6, <2>9, <2>10, <2>11
<1> HIDE DEF cs, sn, r, y
<1>10. IsAngle([cs |-> cs, sn |-> sn])
  BY <1>5, <1>6, <1>8, <1>9 DEF IsAngle
<1> QED
  BY <1>1, <1>6, <1>7, <1>10

\* The tangent of half the angle that Angle finds.
Tangent(al, b, c) ==
  LET tangent(l, sign) == Div(sign, Add(Mul(sign, l), Root(Add(One, Mul(l, l)))))
      of(l) == tangent(l, IF Less(l, Zero) THEN Neg(One) ELSE One)
  IN  IF c # Zero THEN of(Div(Sub(b, al), Mul(Whole(2), c))) ELSE IF al = b THEN NaN ELSE Zero

\* It is a fraction, and no number where c is none.
LEMMA TangentIs ==
  ASSUME NEW al \in Fraction, NEW b \in Fraction, NEW c \in Fraction
  PROVE  Tangent(al, b, c) \in Fraction /\ (~IsNumber(c) => ~IsNumber(Tangent(al, b, c)))
<1>1. One \in Fraction /\ Neg(One) \in Fraction /\ Zero \in Fraction /\ Whole(2) \in Fraction /\ NaN \in Fraction /\ IsNumber(Zero)
  BY NumbersClosed, Twos, NanIsFraction DEF Number
<1> DEFINE l == Div(Sub(b, al), Mul(Whole(2), c))
           sign == IF Less(l, Zero) THEN Neg(One) ELSE One
           y == Add(One, Mul(l, l))
           d == Add(Mul(sign, l), Root(y))
<1>2. Tangent(al, b, c) = IF c # Zero THEN Div(sign, d) ELSE IF al = b THEN NaN ELSE Zero
  BY DEF Tangent
<1>3. Mul(Whole(2), c) \in Fraction /\ Sub(b, al) \in Fraction /\ (~IsNumber(c) => ~IsNumber(Mul(Whole(2), c)))
  BY <1>1, Closed
<1>4. l \in Fraction /\ (~IsNumber(c) => ~IsNumber(l))
  BY <1>3, DivClosed, NanIsFraction DEF Div
<1>5. sign \in Fraction
  BY <1>1
<1> HIDE DEF l, sign
<1>6. y \in Fraction
  BY <1>1, <1>4, Closed
<1>7. Root(y) \in Fraction
  BY <1>6, RootIsFraction
<1> HIDE DEF y
<1>8. Mul(sign, l) \in Fraction /\ (~IsNumber(c) => ~IsNumber(Mul(sign, l)))
  BY <1>4, <1>5, Closed
<1>9. d \in Fraction /\ (~IsNumber(c) => ~IsNumber(d))
  BY <1>7, <1>8, Closed
<1> HIDE DEF d
<1>10. Div(sign, d) \in Fraction /\ (~IsNumber(c) => ~IsNumber(Div(sign, d)))
  BY <1>5, <1>9, DivClosed, NanIsFraction DEF Div
<1>11. ~IsNumber(c) => c # Zero
  BY <1>1
<1> QED
  BY <1>1, <1>2, <1>10, <1>11

\* The angle of a rotation.
LEMMA AngleIs ==
  ASSUME NEW al \in Fraction, NEW b \in Fraction, NEW c \in Fraction
  PROVE  IsAngle(Angle(al, b, c)) /\ (~IsNumber(c) => ~IsNumber(Angle(al, b, c).cs))
<1>1. Angle(al, b, c) = TurnBy(Tangent(al, b, c))
  BY DEF Angle, TurnBy, Tangent
<1> QED
  BY <1>1, TangentIs, TurnIsAngle

\* A column without a number.
Void(M, m, j) == \A r \in Cells(m) : ~IsNumber(At(M, m, r, j))

\* The product of two columns.
ColumnDot(M, m, a, b) == SumOver(0, m - 1, LAMBDA k : Mul(M[m * k + a], M[m * k + b]))

\* No number, where one of them is void.
LEMMA ColumnDotIs ==
  ASSUME NEW m \in Nat, m # 0, NEW M \in FractionCells(m * m), NEW a \in Cells(m), NEW b \in Cells(m)
  PROVE  /\ ColumnDot(M, m, a, b) \in Fraction
         /\ Void(M, m, a) \/ Void(M, m, b) => ~IsNumber(ColumnDot(M, m, a, b))
<1> DEFINE lo == 0
           hi == m - 1
           start == Zero
           e(k) == Mul(M[m * k + a], M[m * k + b])
           B(s, k) == Add(s, e(k))
           P(f) == f = [k \in lo - 1 .. hi |-> IF k < lo THEN start ELSE B(f[k - 1], k)]
           z == CHOOSE f : P(f)
           S == Fraction
           body == [q \in S \X Int |-> B(q[1], q[2])]
           no == Void(M, m, a) \/ Void(M, m, b)
           Source(k) == {s \in S : no /\ k >= 0 => ~IsNumber(s)}
           Stage == [k \in lo - 1 .. hi |-> Source(k)]
<1>1. ColumnDot(M, m, a, b) = IF hi < lo THEN start ELSE z[hi]
  BY DEF ColumnDot, SumOver, For
<1>2. lo \in Int /\ hi \in Int /\ lo - 1 \in lo - 1 .. hi /\ hi \in lo - 1 .. hi /\ (hi < lo => hi = lo - 1)
  OBVIOUS
<1>3. \A k \in Cells(m) : e(k) \in Fraction /\ (no => ~IsNumber(e(k)))
  <2> SUFFICES ASSUME NEW k \in Cells(m) PROVE e(k) \in Fraction /\ (no => ~IsNumber(e(k)))
    OBVIOUS
  <2>1. M[m * k + a] \in Fraction /\ M[m * k + b] \in Fraction
    BY CellOf DEF FractionCells
  <2>2. no => ~IsNumber(M[m * k + a]) \/ ~IsNumber(M[m * k + b])
    BY DEF Void, At
  <2> QED
    BY <2>1, <2>2, Closed
<1> HIDE DEF e, no
<1>4. start \in S /\ start \in Source(lo - 1)
  BY NumbersClosed DEF Number
<1>5. ASSUME NEW k \in lo .. hi, NEW s \in Source(k - 1)
      PROVE  B(s, k) \in Source(k) /\ body[<<s, k>>] = B(s, k)
  <2>1. k \in Cells(m) /\ k \in Int /\ s \in S
    BY DEF Cells
  <2>2. B(s, k) \in Fraction /\ (no => ~IsNumber(B(s, k)))
    BY <1>3, <2>1, Closed
  <2> QED
    BY <2>1, <2>2
<1>6. \A k \in lo - 1 .. hi : Stage[k] = Source(k) /\ Stage[k] \subseteq S
  OBVIOUS
<1>7. Stage[hi] = Source(m - 1)
  BY <1>2, <1>6
<1> HIDE DEF Stage, body, start, lo, hi, B, Source, S
<1>8. \A i \in lo .. hi : i \in lo - 1 .. hi /\ i - 1 \in lo - 1 .. hi /\ ~(i < lo)
  BY <1>2
<1>9. ASSUME NEW i \in lo .. hi, NEW s \in Stage[i - 1]
      PROVE  B(s, i) \in Stage[i] /\ body[<<s, i>>] = B(s, i)
  BY <1>5, <1>6, <1>8
<1>10. start \in Stage[lo - 1]
  BY <1>2, <1>4, <1>6
<1>11. PICK f : Runs(f, lo, hi, start, body) /\ \A i \in lo - 1 .. hi : f[i] \in Stage[i]
  <2>1. Leads(lo, hi, start, body, Stage)
    BY <1>9, <1>10 DEF Leads
  <2> QED
    BY <1>2, <1>4, <1>6, <2>1, LoopRuns
<1>12. P(f)
  <2>1. \A i \in lo - 1 .. hi : ~(i < lo) => body[<<f[i - 1], i>>] = B(f[i - 1], i)
    BY <1>2, <1>8, <1>9, <1>11
  <2> QED
    BY <1>11, <2>1 DEF Runs
<1> HIDE DEF P
<1>13. P(z)
  BY <1>12
<1> HIDE DEF z
<1>14. \A i \in lo - 1 .. hi : z[i] = IF i < lo THEN start ELSE B(z[i - 1], i)
  BY <1>13 DEF P
<1>15. \A i \in lo - 1 .. hi : z[i] \in Stage[i]
  <2>1. z[lo - 1] \in Stage[lo - 1]
    <3>1. lo - 1 \in lo - 1 .. hi /\ lo - 1 < lo
      BY <1>2
    <3>2. z[lo - 1] = start
      BY <1>14, <3>1
    <3> QED
      BY <1>10, <3>2
  <2>2. \A i \in lo .. hi : z[i - 1] \in Stage[i - 1] => z[i] \in Stage[i]
    BY <1>8, <1>9, <1>14
  <2> QED
    BY <1>2, <2>1, <2>2, StagesHold
<1>16. ColumnDot(M, m, a, b) \in Source(m - 1)
  BY <1>1, <1>2, <1>7, <1>10, <1>15
<1> QED
  BY <1>16 DEF Source, S, no

\* What a turn of two columns leaves in them.
LEMMA TurnedCells ==
  ASSUME NEW m \in Nat, NEW M \in FractionCells(m * m), NEW i \in Cells(m), NEW j \in Cells(m), i # j,
         NEW a, a.cs \in Fraction, a.sn \in Fraction
  PROVE  /\ Turned(M, m, i, j, a) \in FractionCells(m * m)
         /\ \A r \in Cells(m) :
              /\ At(Turned(M, m, i, j, a), m, r, i) = Sub(Mul(a.cs, At(M, m, r, i)), Mul(a.sn, At(M, m, r, j)))
              /\ At(Turned(M, m, i, j, a), m, r, j) = Add(Mul(a.sn, At(M, m, r, i)), Mul(a.cs, At(M, m, r, j)))
              /\ \A k \in Cells(m) : k # i /\ k # j => At(Turned(M, m, i, j, a), m, r, k) = At(M, m, r, k)
<1> DEFINE N == Turned(M, m, i, j, a)
           first(r) == Sub(Mul(a.cs, At(M, m, r, i)), Mul(a.sn, At(M, m, r, j)))
           second(r) == Add(Mul(a.sn, At(M, m, r, i)), Mul(a.cs, At(M, m, r, j)))
<1>1. M \in [Cells(m * m) -> Fraction]
  BY DEF FractionCells
<1>2. N = [c \in Cells(m * m) |-> IF c % m = i THEN first(c \div m) ELSE IF c % m = j THEN second(c \div m) ELSE M[c]]
  BY <1>1 DEF Turned, At
<1>3. \A r \in Cells(m) : first(r) \in Fraction /\ second(r) \in Fraction
  <2> SUFFICES ASSUME NEW r \in Cells(m) PROVE first(r) \in Fraction /\ second(r) \in Fraction
    OBVIOUS
  <2>1. At(M, m, r, i) \in Fraction /\ At(M, m, r, j) \in Fraction
    BY <1>1, CellOf DEF At
  <2> QED
    BY <2>1, Closed
<1> HIDE DEF first, second
<1>4. ASSUME NEW c \in Cells(m * m)
      PROVE  N[c] \in Fraction
  <2>1. c \div m \in Cells(m)
    BY PartsOf
  <2> QED
    BY <1>1, <1>2, <1>3, <2>1
<1>5. N = [c \in Cells(m * m) |-> N[c]]
  BY <1>2
<1>6. ASSUME NEW r \in Cells(m), NEW k \in Cells(m)
      PROVE  N[m * r + k] = IF k = i THEN first(r) ELSE IF k = j THEN second(r) ELSE M[m * r + k]
  <2>1. m * r + k \in Cells(m * m) /\ (m * r + k) \div m = r /\ (m * r + k) % m = k
    BY CellOf
  <2> HIDE DEF N
  <2> QED
    BY <1>2, <2>1
<1> HIDE DEF N
<1>7. N \in FractionCells(m * m)
  BY <1>4, <1>5 DEF FractionCells
<1>8. ASSUME NEW r \in Cells(m)
      PROVE  /\ At(N, m, r, i) = first(r) /\ At(N, m, r, j) = second(r)
             /\ \A k \in Cells(m) : k # i /\ k # j => At(N, m, r, k) = At(M, m, r, k)
  BY <1>6 DEF At
<1> QED
  BY <1>7, <1>8 DEF N, first, second

\* The products of row r of M with row l of N.
Crossed(M, N, m, r, l) == [k \in Cells(m) |-> Mul(At(M, m, r, k), At(N, m, l, k))]

\* The product of A and the transpose of V is still O, or a column of A is void.
JacobiStates(m) == [A : FractionCells(m * m), V : FractionCells(m * m)]
Stays(M, V, m, O) ==
  \/ \E k \in Cells(m) : Void(M, m, k)
  \/ /\ M \in Matrices(m, m) /\ V \in Matrices(m, m)
     /\ \A r, l \in Cells(m) : SumOf(Crossed(M, V, m, r, l), m) = At(O, m, r, l)
JacobiStage(m, O) == {s \in JacobiStates(m) : Stays(s.A, s.V, m, O)}

\* They are numbers where M and N are.
LEMMA CrossedNumbers ==
  ASSUME NEW m \in Nat, NEW M \in Matrices(m, m), NEW N \in Matrices(m, m), NEW r \in Cells(m), NEW l \in Cells(m)
  PROVE  Crossed(M, N, m, r, l) \in Vector(m) /\ \A k \in Cells(m) : Crossed(M, N, m, r, l)[k] = Mul(At(M, m, r, k), At(N, m, l, k))
<1>1. \A k \in Cells(m) : Mul(At(M, m, r, k), At(N, m, l, k)) \in Number
  BY AtNumber, NumbersClosed
<1> QED
  BY <1>1 DEF Crossed, Vector

\* One rotation.
LEMMA RotationStep ==
  ASSUME NEW m \in Nat, m # 0, NEW O, NEW s \in JacobiStage(m, O), NEW i \in Cells(m), NEW j \in Cells(m), i # j
  PROVE  Rotated(s, m, i, j) \in JacobiStage(m, O)
<1> DEFINE a == Angle(ColumnDot(s.A, m, i, i), ColumnDot(s.A, m, j, j), ColumnDot(s.A, m, i, j))
           M == s.A
           V == s.V
           M2 == Turned(M, m, i, j, a)
           V2 == Turned(V, m, i, j, a)
           t == [A |-> M2, V |-> V2]
<1>1. M \in FractionCells(m * m) /\ V \in FractionCells(m * m) /\ Stays(M, V, m, O)
  BY DEF JacobiStage, JacobiStates
<1>2. Rotated(s, m, i, j) = t
  BY DEF Rotated, ColumnDot
<1>3. IsAngle(a) /\ (Void(M, m, i) \/ Void(M, m, j) => ~IsNumber(a.cs))
  <2>1. /\ ColumnDot(s.A, m, i, i) \in Fraction /\ ColumnDot(s.A, m, j, j) \in Fraction /\ ColumnDot(s.A, m, i, j) \in Fraction
        /\ Void(M, m, i) \/ Void(M, m, j) => ~IsNumber(ColumnDot(s.A, m, i, j))
    BY <1>1, ColumnDotIs
  <2> QED
    BY <2>1, AngleIs
<1> HIDE DEF a, M, V
<1>4. a.cs \in Fraction /\ a.sn \in Fraction
  BY <1>3 DEF IsAngle
<1>5. /\ M2 \in FractionCells(m * m)
      /\ \A r \in Cells(m) :
           /\ At(M2, m, r, i) = Sub(Mul(a.cs, At(M, m, r, i)), Mul(a.sn, At(M, m, r, j)))
           /\ At(M2, m, r, j) = Add(Mul(a.sn, At(M, m, r, i)), Mul(a.cs, At(M, m, r, j)))
           /\ \A k \in Cells(m) : k # i /\ k # j => At(M2, m, r, k) = At(M, m, r, k)
  BY <1>1, <1>4, TurnedCells
<1>6. /\ V2 \in FractionCells(m * m)
      /\ \A r \in Cells(m) :
           /\ At(V2, m, r, i) = Sub(Mul(a.cs, At(V, m, r, i)), Mul(a.sn, At(V, m, r, j)))
           /\ At(V2, m, r, j) = Add(Mul(a.sn, At(V, m, r, i)), Mul(a.cs, At(V, m, r, j)))
           /\ \A k \in Cells(m) : k # i /\ k # j => At(V2, m, r, k) = At(V, m, r, k)
  BY <1>1, <1>4, TurnedCells
<1>7. t \in JacobiStates(m) /\ t.A = M2 /\ t.V = V2
  BY <1>5, <1>6 DEF JacobiStates
<1> HIDE DEF M2, V2, t
<1>8. Stays(M2, V2, m, O) => t \in JacobiStage(m, O)
  BY <1>7 DEF JacobiStage
<1>9. CASE ~IsNumber(a.cs)
  <2>1. ASSUME NEW r \in Cells(m)
        PROVE  ~IsNumber(At(M2, m, r, i))
    <3>1. At(M, m, r, i) \in Fraction /\ At(M, m, r, j) \in Fraction
      BY <1>1, CellOf DEF FractionCells, At
    <3>2. ~IsNumber(Mul(a.cs, At(M, m, r, i))) /\ Mul(a.cs, At(M, m, r, i)) \in Fraction
      BY <1>4, <1>9, <3>1, Closed
    <3>3. Neg(Mul(a.sn, At(M, m, r, j))) \in Fraction
      BY <1>4, <3>1, Closed
    <3> QED
      BY <1>5, <3>2, <3>3, Closed DEF Sub
  <2> QED
    BY <1>2, <1>8, <2>1 DEF Stays, Void
<1>10. CASE IsNumber(a.cs) /\ \E k \in Cells(m) : Void(M, m, k)
  <2>1. PICK k \in Cells(m) : Void(M, m, k)
    BY <1>10
  <2>2. k # i /\ k # j
    BY <1>3, <1>10, <2>1
  <2>3. Void(M2, m, k)
    BY <1>5, <2>1, <2>2 DEF Void
  <2> QED
    BY <1>2, <1>8, <2>3 DEF Stays
<1>11. CASE IsNumber(a.cs) /\ ~\E k \in Cells(m) : Void(M, m, k)
  <2>1. a.cs \in Number /\ a.sn \in Number /\ Mul(a.cs, a.cs) = Sub(One, Mul(a.sn, a.sn))
    BY <1>3, <1>11 DEF IsAngle
  <2>2. /\ M \in Matrices(m, m) /\ V \in Matrices(m, m)
        /\ \A r, l \in Cells(m) : SumOf(Crossed(M, V, m, r, l), m) = At(O, m, r, l)
    BY <1>1, <1>11 DEF Stays
  <2>3. ASSUME NEW r \in Cells(m), NEW k \in Cells(m)
        PROVE  At(M2, m, r, k) \in Number /\ At(V2, m, r, k) \in Number
    <3>1. /\ At(M, m, r, i) \in Number /\ At(M, m, r, j) \in Number /\ At(M, m, r, k) \in Number
          /\ At(V, m, r, i) \in Number /\ At(V, m, r, j) \in Number /\ At(V, m, r, k) \in Number
      BY <2>2, AtNumber
    <3>2. \A x, y \in Number : Sub(Mul(a.cs, x), Mul(a.sn, y)) \in Number /\ Add(Mul(a.sn, x), Mul(a.cs, y)) \in Number
      <4> SUFFICES ASSUME NEW x \in Number, NEW y \in Number
                   PROVE  Sub(Mul(a.cs, x), Mul(a.sn, y)) \in Number /\ Add(Mul(a.sn, x), Mul(a.cs, y)) \in Number
        OBVIOUS
      <4>1. Mul(a.cs, x) \in Number /\ Mul(a.sn, y) \in Number /\ Mul(a.sn, x) \in Number /\ Mul(a.cs, y) \in Number
        BY <2>1, NumbersClosed
      <4> QED
        BY <4>1, NumbersClosed
    <3>3. CASE k = i
      BY <1>5, <1>6, <3>1, <3>3, <3>2
    <3>4. CASE k = j
      BY <1>5, <1>6, <3>1, <3>4, <3>2
    <3>5. CASE k # i /\ k # j
      BY <1>5, <1>6, <3>1, <3>5
    <3> QED
      BY <3>3, <3>4, <3>5
  <2>4. M2 \in Matrices(m, m) /\ V2 \in Matrices(m, m)
    <3>1. M2 = [c \in Cells(m * m) |-> M2[c]] /\ V2 = [c \in Cells(m * m) |-> V2[c]]
      BY <1>5, <1>6 DEF FractionCells
    <3> QED
      BY <2>3, <3>1, MatrixByCells
  <2>5. ASSUME NEW r \in Cells(m), NEW l \in Cells(m)
        PROVE  SumOf(Crossed(M2, V2, m, r, l), m) = At(O, m, r, l)
    <3> DEFINE u == Crossed(M2, V2, m, r, l)
               v == Crossed(M, V, m, r, l)
    <3>1. u \in Vector(m) /\ \A k \in Cells(m) : u[k] = Mul(At(M2, m, r, k), At(V2, m, l, k))
      BY <2>4, CrossedNumbers
    <3>2. v \in Vector(m) /\ \A k \in Cells(m) : v[k] = Mul(At(M, m, r, k), At(V, m, l, k))
      BY <2>2, CrossedNumbers
    <3> HIDE DEF u, v
    <3>3. \A k \in Cells(m) : k # i /\ k # j => u[k] = v[k]
      BY <1>5, <1>6, <3>1, <3>2
    <3>4. Add(u[i], u[j]) = Add(v[i], v[j])
      <4>1. At(M, m, r, i) \in Number /\ At(M, m, r, j) \in Number /\ At(V, m, l, i) \in Number /\ At(V, m, l, j) \in Number
        BY <2>2, AtNumber
      <4>2. RotationKept(a.cs, a.sn, At(M, m, r, i), At(M, m, r, j), At(V, m, l, i), At(V, m, l, j))
        BY <2>1, <4>1, RotationKeeps
      <4> QED
        BY <1>5, <1>6, <3>1, <3>2, <4>2 DEF RotationKept
    <3>5. SumOf(u, m) = SumOf(v, m)
      BY <3>1, <3>2, <3>3, <3>4, TwoTermsChanged
    <3> QED
      BY <2>2, <3>5 DEF u, v
  <2> QED
    BY <1>2, <1>8, <2>4, <2>5 DEF Stays
<1> QED
  BY <1>2, <1>9, <1>10, <1>11

\* The loops of the rotations.
RotatedRow(t, m, i) == For(i + 1, m - 1, LAMBDA u, j : Rotated(u, m, i, j), t)
PairsOnce(s, m) == For(0, m - 1, LAMBDA t, i : RotatedRow(t, m, i), s)
Swept(M, m) == For(1, Sweeps, LAMBDA s, p : PairsOnce(s, m), [A |-> M, V |-> Identity(m)])

\* The pairs of one column.
LEMMA RowRotates ==
  ASSUME NEW m \in Nat, m # 0, NEW O, NEW t \in JacobiStage(m, O), NEW k \in Cells(m)
  PROVE  RotatedRow(t, m, k) \in JacobiStage(m, O)
<1> DEFINE lo == k + 1
           hi == m - 1
           start == t
           B(s, i) == Rotated(s, m, k, i)
           P(f) == f = [i \in lo - 1 .. hi |-> IF i < lo THEN start ELSE B(f[i - 1], i)]
           z == CHOOSE f : P(f)
           S == JacobiStates(m)
           body == [q \in S \X Int |-> B(q[1], q[2])]
           Stage == [i \in lo - 1 .. hi |-> JacobiStage(m, O)]
<1>1. RotatedRow(t, m, k) = IF hi < lo THEN start ELSE z[hi]
  BY DEF RotatedRow, For
<1>2. lo \in Int /\ hi \in Int /\ lo - 1 \in lo - 1 .. hi /\ hi \in lo - 1 .. hi /\ (hi < lo => hi = lo - 1)
  BY DEF Cells
<1>3. start \in S /\ start \in JacobiStage(m, O)
  BY DEF JacobiStage
<1>4. ASSUME NEW i \in lo .. hi, NEW s \in JacobiStage(m, O)
      PROVE  B(s, i) \in JacobiStage(m, O) /\ body[<<s, i>>] = B(s, i)
  <2>1. i \in Cells(m) /\ i # k /\ i \in Int
    BY DEF Cells
  <2>2. s \in S
    BY DEF JacobiStage
  <2> QED
    BY <2>1, <2>2, RotationStep
<1>5. \A i \in lo - 1 .. hi : Stage[i] = JacobiStage(m, O) /\ Stage[i] \subseteq S
  BY DEF JacobiStage
<1>6. Stage[hi] = JacobiStage(m, O)
  BY <1>2, <1>5
<1> HIDE DEF Stage, body, start, lo, hi, B, S
<1>7. \A i \in lo .. hi : i \in lo - 1 .. hi /\ i - 1 \in lo - 1 .. hi /\ ~(i < lo)
  BY <1>2
<1>8. ASSUME NEW i \in lo .. hi, NEW s \in Stage[i - 1]
      PROVE  B(s, i) \in Stage[i] /\ body[<<s, i>>] = B(s, i)
  BY <1>4, <1>5, <1>7
<1>9. start \in Stage[lo - 1]
  BY <1>2, <1>3, <1>5
<1>10. PICK f : Runs(f, lo, hi, start, body) /\ \A i \in lo - 1 .. hi : f[i] \in Stage[i]
  <2>1. Leads(lo, hi, start, body, Stage)
    BY <1>8, <1>9 DEF Leads
  <2> QED
    BY <1>2, <1>3, <1>5, <2>1, LoopRuns
<1>11. P(f)
  <2>1. \A i \in lo - 1 .. hi : ~(i < lo) => body[<<f[i - 1], i>>] = B(f[i - 1], i)
    BY <1>2, <1>7, <1>8, <1>10
  <2> QED
    BY <1>10, <2>1 DEF Runs
<1> HIDE DEF P
<1>12. P(z)
  BY <1>11
<1> HIDE DEF z
<1>13. \A i \in lo - 1 .. hi : z[i] = IF i < lo THEN start ELSE B(z[i - 1], i)
  BY <1>12 DEF P
<1>14. \A i \in lo - 1 .. hi : z[i] \in Stage[i]
  <2>1. z[lo - 1] \in Stage[lo - 1]
    <3>1. lo - 1 \in lo - 1 .. hi /\ lo - 1 < lo
      BY <1>2
    <3>2. z[lo - 1] = start
      BY <1>13, <3>1
    <3> QED
      BY <1>9, <3>2
  <2>2. \A i \in lo .. hi : z[i - 1] \in Stage[i - 1] => z[i] \in Stage[i]
    BY <1>7, <1>8, <1>13
  <2> QED
    BY <1>2, <2>1, <2>2, StagesHold
<1> QED
  BY <1>1, <1>2, <1>6, <1>9, <1>14

\* All pairs once.
LEMMA PairsRotate ==
  ASSUME NEW m \in Nat, m # 0, NEW O, NEW t \in JacobiStage(m, O)
  PROVE  PairsOnce(t, m) \in JacobiStage(m, O)
<1> DEFINE lo == 0
           hi == m - 1
           start == t
           B(s, i) == RotatedRow(s, m, i)
           P(f) == f = [i \in lo - 1 .. hi |-> IF i < lo THEN start ELSE B(f[i - 1], i)]
           z == CHOOSE f : P(f)
           S == JacobiStates(m)
           body == [q \in S \X Int |-> B(q[1], q[2])]
           Stage == [i \in lo - 1 .. hi |-> JacobiStage(m, O)]
<1>1. PairsOnce(t, m) = IF hi < lo THEN start ELSE z[hi]
  BY DEF PairsOnce, For
<1>2. lo \in Int /\ hi \in Int /\ lo - 1 \in lo - 1 .. hi /\ hi \in lo - 1 .. hi /\ (hi < lo => hi = lo - 1)
  OBVIOUS
<1>3. start \in S /\ start \in JacobiStage(m, O)
  BY DEF JacobiStage
<1>4. ASSUME NEW i \in lo .. hi, NEW s \in JacobiStage(m, O)
      PROVE  B(s, i) \in JacobiStage(m, O) /\ body[<<s, i>>] = B(s, i)
  <2>1. i \in Cells(m) /\ i \in Int
    BY DEF Cells
  <2>2. s \in S
    BY DEF JacobiStage
  <2> QED
    BY <2>1, <2>2, RowRotates
<1>5. \A i \in lo - 1 .. hi : Stage[i] = JacobiStage(m, O) /\ Stage[i] \subseteq S
  BY DEF JacobiStage
<1>6. Stage[hi] = JacobiStage(m, O)
  BY <1>2, <1>5
<1> HIDE DEF Stage, body, start, lo, hi, B, S
<1>7. \A i \in lo .. hi : i \in lo - 1 .. hi /\ i - 1 \in lo - 1 .. hi /\ ~(i < lo)
  BY <1>2
<1>8. ASSUME NEW i \in lo .. hi, NEW s \in Stage[i - 1]
      PROVE  B(s, i) \in Stage[i] /\ body[<<s, i>>] = B(s, i)
  BY <1>4, <1>5, <1>7
<1>9. start \in Stage[lo - 1]
  BY <1>2, <1>3, <1>5
<1>10. PICK f : Runs(f, lo, hi, start, body) /\ \A i \in lo - 1 .. hi : f[i] \in Stage[i]
  <2>1. Leads(lo, hi, start, body, Stage)
    BY <1>8, <1>9 DEF Leads
  <2> QED
    BY <1>2, <1>3, <1>5, <2>1, LoopRuns
<1>11. P(f)
  <2>1. \A i \in lo - 1 .. hi : ~(i < lo) => body[<<f[i - 1], i>>] = B(f[i - 1], i)
    BY <1>2, <1>7, <1>8, <1>10
  <2> QED
    BY <1>10, <2>1 DEF Runs
<1> HIDE DEF P
<1>12. P(z)
  BY <1>11
<1> HIDE DEF z
<1>13. \A i \in lo - 1 .. hi : z[i] = IF i < lo THEN start ELSE B(z[i - 1], i)
  BY <1>12 DEF P
<1>14. \A i \in lo - 1 .. hi : z[i] \in Stage[i]
  <2>1. z[lo - 1] \in Stage[lo - 1]
    <3>1. lo - 1 \in lo - 1 .. hi /\ lo - 1 < lo
      BY <1>2
    <3>2. z[lo - 1] = start
      BY <1>13, <3>1
    <3> QED
      BY <1>9, <3>2
  <2>2. \A i \in lo .. hi : z[i - 1] \in Stage[i - 1] => z[i] \in Stage[i]
    BY <1>7, <1>8, <1>13
  <2> QED
    BY <1>2, <2>1, <2>2, StagesHold
<1> QED
  BY <1>1, <1>2, <1>6, <1>9, <1>14

\* Before the first rotation A is the product of A and the identity.
LEMMA JacobiStarts ==
  ASSUME NEW m \in Nat, NEW M \in Matrices(m, m)
  PROVE  [A |-> M, V |-> Identity(m)] \in JacobiStage(m, M)
<1> DEFINE I == Identity(m)
           t == [A |-> M, V |-> I]
<1>1. I \in Matrices(m, m) /\ \A r, k \in Cells(m) : At(I, m, r, k) = IF r = k THEN One ELSE Zero
  BY IdentityCells
<1> HIDE DEF I
<1>2. t \in JacobiStates(m) /\ t.A = M /\ t.V = I
  BY <1>1 DEF JacobiStates, Matrices, Vector, FractionCells, Number
<1> HIDE DEF t
<1>3. ASSUME NEW r \in Cells(m), NEW l \in Cells(m)
      PROVE  SumOf(Crossed(M, I, m, r, l), m) = At(M, m, r, l)
  <2> DEFINE v == Crossed(M, I, m, r, l)
  <2>1. v \in Vector(m) /\ \A k \in Cells(m) : v[k] = Mul(At(M, m, r, k), At(I, m, l, k))
    BY <1>1, CrossedNumbers
  <2>2. \A k \in Cells(m) : At(M, m, r, k) \in Number /\ v[k] \in Number
    BY <2>1, AtNumber, SumOfNumbers
  <2> HIDE DEF v
  <2>3. v[l] = At(M, m, r, l)
    BY <1>1, <2>1, <2>2, OneIsNeutral
  <2>4. \A k \in Cells(m) : k # l => v[k] = Zero
    BY <1>1, <2>1, <2>2, OneIsNeutral
  <2>5. SumOf(v, m) = v[l]
    BY <2>2, <2>4, SumOfOne
  <2> QED
    BY <2>3, <2>5 DEF v
<1>4. Stays(M, I, m, M)
  BY <1>1, <1>3 DEF Stays
<1>5. t \in JacobiStage(m, M)
  BY <1>2, <1>4 DEF JacobiStage
<1> QED
  BY <1>5 DEF t, I

\* All sweeps.
LEMMA SweepsRotate ==
  ASSUME NEW m \in Nat, m # 0, NEW M \in Matrices(m, m)
  PROVE  Swept(M, m) \in JacobiStage(m, M)
<1> DEFINE lo == 1
           hi == Sweeps
           start == [A |-> M, V |-> Identity(m)]
           B(s, i) == PairsOnce(s, m)
           P(f) == f = [i \in lo - 1 .. hi |-> IF i < lo THEN start ELSE B(f[i - 1], i)]
           z == CHOOSE f : P(f)
           S == JacobiStates(m)
           body == [q \in S \X Int |-> B(q[1], q[2])]
           Stage == [i \in lo - 1 .. hi |-> JacobiStage(m, M)]
<1>1. Swept(M, m) = IF hi < lo THEN start ELSE z[hi]
  BY DEF Swept, For
<1>2. lo \in Int /\ hi \in Int /\ lo - 1 \in lo - 1 .. hi /\ hi \in lo - 1 .. hi /\ (hi < lo => hi = lo - 1)
  BY SpectralAssumption
<1>3. start \in S /\ start \in JacobiStage(m, M)
  <2>1. start \in JacobiStage(m, M)
    BY JacobiStarts
  <2> HIDE DEF start
  <2> QED
    BY <2>1 DEF JacobiStage
<1>4. ASSUME NEW i \in lo .. hi, NEW s \in JacobiStage(m, M)
      PROVE  B(s, i) \in JacobiStage(m, M) /\ body[<<s, i>>] = B(s, i)
  <2>1. i \in Int
    OBVIOUS
  <2>2. s \in S
    BY DEF JacobiStage
  <2> QED
    BY <2>1, <2>2, PairsRotate
<1>5. \A i \in lo - 1 .. hi : Stage[i] = JacobiStage(m, M) /\ Stage[i] \subseteq S
  BY DEF JacobiStage
<1>6. Stage[hi] = JacobiStage(m, M)
  BY <1>2, <1>5
<1> HIDE DEF Stage, body, start, lo, hi, B, S
<1>7. \A i \in lo .. hi : i \in lo - 1 .. hi /\ i - 1 \in lo - 1 .. hi /\ ~(i < lo)
  BY <1>2
<1>8. ASSUME NEW i \in lo .. hi, NEW s \in Stage[i - 1]
      PROVE  B(s, i) \in Stage[i] /\ body[<<s, i>>] = B(s, i)
  BY <1>4, <1>5, <1>7
<1>9. start \in Stage[lo - 1]
  BY <1>2, <1>3, <1>5
<1>10. PICK f : Runs(f, lo, hi, start, body) /\ \A i \in lo - 1 .. hi : f[i] \in Stage[i]
  <2>1. Leads(lo, hi, start, body, Stage)
    BY <1>8, <1>9 DEF Leads
  <2> QED
    BY <1>2, <1>3, <1>5, <2>1, LoopRuns
<1>11. P(f)
  <2>1. \A i \in lo - 1 .. hi : ~(i < lo) => body[<<f[i - 1], i>>] = B(f[i - 1], i)
    BY <1>2, <1>7, <1>8, <1>10
  <2> QED
    BY <1>10, <2>1 DEF Runs
<1> HIDE DEF P
<1>12. P(z)
  BY <1>11
<1> HIDE DEF z
<1>13. \A i \in lo - 1 .. hi : z[i] = IF i < lo THEN start ELSE B(z[i - 1], i)
  BY <1>12 DEF P
<1>14. \A i \in lo - 1 .. hi : z[i] \in Stage[i]
  <2>1. z[lo - 1] \in Stage[lo - 1]
    <3>1. lo - 1 \in lo - 1 .. hi /\ lo - 1 < lo
      BY <1>2
    <3>2. z[lo - 1] = start
      BY <1>13, <3>1
    <3> QED
      BY <1>9, <3>2
  <2>2. \A i \in lo .. hi : z[i - 1] \in Stage[i - 1] => z[i] \in Stage[i]
    BY <1>7, <1>8, <1>13
  <2> QED
    BY <1>2, <2>1, <2>2, StagesHold
<1> QED
  BY <1>1, <1>2, <1>6, <1>9, <1>14

-----------------------------------------------------------------------------
(* The bubble sort that follows it keeps that product too, and ends with the values*)
(* in order.                                                                       *)

\* An exchange of two columns of both keeps the product.
LEMMA ExchangeStays ==
  ASSUME NEW m \in Nat, NEW M \in FractionCells(m * m), NEW V \in FractionCells(m * m), NEW O, Stays(M, V, m, O),
         NEW i \in Cells(m), NEW j \in Cells(m), i # j
  PROVE  Stays(ColumnsSwapped(M, m, i, j), ColumnsSwapped(V, m, i, j), m, O)
<1> DEFINE x(k) == Exchange(i, j, k)
           M2 == ColumnsSwapped(M, m, i, j)
           V2 == ColumnsSwapped(V, m, i, j)
<1>1. M2 \in FractionCells(m * m) /\ \A r \in Cells(m), k \in Cells(m) : At(M2, m, r, k) = At(M, m, r, x(k))
  BY SwappedColumns
<1>2. V2 \in FractionCells(m * m) /\ \A r \in Cells(m), k \in Cells(m) : At(V2, m, r, k) = At(V, m, r, x(k))
  BY SwappedColumns
<1>3. \A k \in Cells(m) : x(k) \in Cells(m) /\ x(x(k)) = k
  BY ExchangedBack
<1>4. x(i) = j /\ x(j) = i /\ \A k \in Cells(m) : k # i /\ k # j => x(k) = k
  BY DEF Exchange
<1> HIDE DEF x, M2, V2
<1>5. CASE \E k \in Cells(m) : Void(M, m, k)
  <2>1. PICK k \in Cells(m) : Void(M, m, k)
    BY <1>5
  <2>2. Void(M2, m, x(k))
    BY <1>1, <1>3, <2>1 DEF Void
  <2> QED
    BY <1>3, <2>2 DEF Stays, M2, V2
<1>6. CASE ~\E k \in Cells(m) : Void(M, m, k)
  <2>1. /\ M \in Matrices(m, m) /\ V \in Matrices(m, m)
        /\ \A r, l \in Cells(m) : SumOf(Crossed(M, V, m, r, l), m) = At(O, m, r, l)
    BY <1>6 DEF Stays
  <2>2. M2 \in Matrices(m, m) /\ V2 \in Matrices(m, m)
    <3>1. M2 = [c \in Cells(m * m) |-> M2[c]] /\ V2 = [c \in Cells(m * m) |-> V2[c]]
      BY <1>1, <1>2 DEF FractionCells
    <3>2. \A r, k \in Cells(m) : At(M2, m, r, k) \in Number /\ At(V2, m, r, k) \in Number
      BY <1>1, <1>2, <1>3, <2>1, AtNumber
    <3> QED
      BY <3>1, <3>2, MatrixByCells
  <2>3. ASSUME NEW r \in Cells(m), NEW l \in Cells(m)
        PROVE  SumOf(Crossed(M2, V2, m, r, l), m) = At(O, m, r, l)
    <3> DEFINE u == Crossed(M2, V2, m, r, l)
               v == Crossed(M, V, m, r, l)
    <3>1. u \in Vector(m) /\ \A k \in Cells(m) : u[k] = Mul(At(M2, m, r, k), At(V2, m, l, k))
      BY <2>2, CrossedNumbers
    <3>2. v \in Vector(m) /\ \A k \in Cells(m) : v[k] = Mul(At(M, m, r, k), At(V, m, l, k)) /\ v[k] \in Number
      BY <2>1, CrossedNumbers, SumOfNumbers
    <3> HIDE DEF u, v
    <3>3. \A k \in Cells(m) : u[k] = v[x(k)]
      BY <1>1, <1>2, <1>3, <3>1, <3>2
    <3>4. Add(u[i], u[j]) = Add(v[i], v[j])
      <4>1. u[i] = v[j] /\ u[j] = v[i]
        BY <1>4, <3>3
      <4> QED
        BY <3>2, <4>1, AddCommutes DEF Number
    <3>5. \A k \in Cells(m) : k # i /\ k # j => u[k] = v[k]
      BY <1>4, <3>3
    <3>6. SumOf(u, m) = SumOf(v, m)
      BY <3>1, <3>2, <3>4, <3>5, TwoTermsChanged
    <3> QED
      BY <2>1, <3>6 DEF u, v
  <2> QED
    BY <2>2, <2>3 DEF Stays, M2, V2
<1> QED
  BY <1>5, <1>6

\* The bubble sort: if all values are numbers, those from place m - 1 - p on are in
\* order and not larger than those before them.
BubbleStates(m) == [S : FractionCells(m), V : FractionCells(m * m), A : FractionCells(m * m)]
TailSorted(v, m, p) ==
  MadeOfNumbers(v) => \A j, k \in Cells(m) : j < k /\ k >= m - 1 - p => LessEq(v[k], v[j])
BubbleStage(m, O, p) == {s \in BubbleStates(m) : Stays(s.A, s.V, m, O) /\ TailSorted(s.S, m, p)}

\* The value at place j is not larger than those before it.
SmallestAt(v, j) == MadeOfNumbers(v) => \A q \in 0 .. j : LessEq(v[j], v[q])
PassStage(m, O, p, j) == {s \in BubbleStage(m, O, p - 1) : SmallestAt(s.S, j + 1)}

\* The loops of the sort.
BubblePass(t, m, p) == For(0, m - p - 2, LAMBDA u, j : Bubbled(u, m, j), t)
BubbleSorted(t, m) == For(0, m - 2, LAMBDA u, p : BubblePass(u, m, p), t)

\* One comparison.
LEMMA BubbleStep ==
  ASSUME NEW m \in Nat, NEW O, NEW p \in 0 .. m - 2, NEW j \in 0 .. m - p - 2, NEW s \in PassStage(m, O, p, j - 1)
  PROVE  Bubbled(s, m, j) \in PassStage(m, O, p, j)
<1> DEFINE v == s.S
           x(k) == Exchange(j, j + 1, k)
           v2 == SwappedAt(v, j, j + 1)
           V2 == ColumnsSwapped(s.V, m, j, j + 1)
           A2 == ColumnsSwapped(s.A, m, j, j + 1)
           t == [S |-> v2, V |-> V2, A |-> A2]
<1>1. /\ s \in BubbleStates(m) /\ v \in FractionCells(m) /\ s.V \in FractionCells(m * m) /\ s.A \in FractionCells(m * m)
      /\ Stays(s.A, s.V, m, O) /\ TailSorted(v, m, p - 1) /\ SmallestAt(v, (j - 1) + 1)
  BY DEF PassStage, BubbleStage, BubbleStates
<1>2. j \in Cells(m) /\ j + 1 \in Cells(m) /\ j # j + 1 /\ j \in Int /\ (j - 1) + 1 = j /\ p \in Int /\ j + 1 < m - p
  BY DEF Cells
<1>3. \A k \in Cells(m) : MadeOfNumbers(v) => v[k] \in Number
  BY <1>1 DEF MadeOfNumbers, FractionCells, Number
<1>4. Bubbled(s, m, j) = IF ~Less(v[j], v[j + 1]) THEN s ELSE t
  BY DEF Bubbled
<1>5. MadeOfNumbers(v) => \A q \in 0 .. j : LessEq(v[j], v[q])
  BY <1>1, <1>2 DEF SmallestAt
<1> HIDE DEF v
<1>6. CASE ~Less(v[j], v[j + 1])
  <2>1. ASSUME MadeOfNumbers(v), NEW q \in 0 .. j + 1
        PROVE  LessEq(v[j + 1], v[q])
    <3>1. v[j] \in Number /\ v[j + 1] \in Number
      BY <1>2, <1>3, <2>1
    <3>2. LessEq(v[j + 1], v[j]) /\ LessEq(v[j + 1], v[j + 1])
      BY <1>6, <3>1, TotalOrder
    <3>3. CASE q \in 0 .. j
      <4>1. q \in Cells(m) /\ v[q] \in Number /\ LessEq(v[j], v[q])
        BY <1>2, <1>3, <1>5, <2>1, <3>3 DEF Cells
      <4> QED
        BY <3>1, <3>2, <4>1, TotalOrder
    <3>4. CASE q = j + 1
      BY <3>2, <3>4
    <3> QED
      BY <1>2, <3>3, <3>4
  <2>2. SmallestAt(v, j + 1)
    BY <2>1 DEF SmallestAt
  <2> QED
    BY <1>4, <1>6, <2>2 DEF PassStage, v
<1>7. CASE Less(v[j], v[j + 1])
  <2>1. v2 \in FractionCells(m) /\ \A k \in Cells(m) : v2[k] = v[x(k)]
    BY <1>1, <1>2, SwappedElements
  <2>2. V2 \in FractionCells(m * m) /\ A2 \in FractionCells(m * m)
    BY <1>1, <1>2, SwappedColumns
  <2>3. Stays(A2, V2, m, O)
    BY <1>1, <1>2, ExchangeStays
  <2>4. \A k \in Cells(m) : x(k) \in Cells(m) /\ x(x(k)) = k
    BY <1>2, ExchangedBack
  <2>5. MadeOfNumbers(v2) => MadeOfNumbers(v)
    <3>1. DOMAIN v2 = Cells(m) /\ DOMAIN v = Cells(m)
      BY <1>1, <2>1 DEF FractionCells
    <3>2. \A k \in Cells(m) : v[k] = v2[x(k)]
      BY <2>1, <2>4
    <3> QED
      BY <2>4, <3>1, <3>2 DEF MadeOfNumbers
  <2>6. x(j + 1) = j /\ x(j) = j + 1 /\ \A k \in Cells(m) : k # j /\ k # j + 1 => x(k) = k
    BY <1>2 DEF Exchange
  <2> HIDE DEF v2, V2, A2, x
  <2>7. ASSUME MadeOfNumbers(v2), NEW a \in Cells(m), NEW k \in Cells(m), a < k, k >= m - 1 - (p - 1)
        PROVE  LessEq(v2[k], v2[a])
    <3>1. k \in Int /\ a \in Int /\ k # j /\ k # j + 1 /\ k > j + 1
      BY <1>2, <2>7 DEF Cells
    <3>2. x(k) = k /\ x(a) < k /\ x(a) \in Cells(m)
      BY <1>2, <2>4, <2>6, <2>7, <3>1
    <3>3. LessEq(v[k], v[x(a)])
      BY <1>1, <2>5, <2>7, <3>2 DEF TailSorted
    <3> QED
      BY <2>1, <3>2, <3>3
  <2>8. ASSUME MadeOfNumbers(v2), NEW q \in 0 .. j + 1
        PROVE  LessEq(v2[j + 1], v2[q])
    <3>1. MadeOfNumbers(v) /\ v[j] \in Number /\ v[j + 1] \in Number /\ v2[j + 1] = v[j]
      BY <1>2, <1>3, <2>1, <2>5, <2>6, <2>8
    <3>2. CASE q = j + 1
      BY <3>1, <3>2, TotalOrder
    <3>3. CASE q = j
      <4>1. v2[q] = v[j + 1]
        BY <1>2, <2>1, <2>6, <3>3
      <4> QED
        BY <1>7, <3>1, <4>1, TotalOrder
    <3>4. CASE q < j
      <4>1. q \in Cells(m) /\ q # j /\ q # j + 1 /\ q \in 0 .. j
        BY <1>2, <3>4 DEF Cells
      <4>2. v2[q] = v[q]
        BY <2>1, <2>6, <4>1
      <4> QED
        BY <1>5, <3>1, <4>1, <4>2
    <3> QED
      BY <1>2, <3>2, <3>3, <3>4
  <2>9. t \in BubbleStates(m) /\ t.S = v2 /\ t.A = A2 /\ t.V = V2
    BY <2>1, <2>2 DEF BubbleStates
  <2>10. TailSorted(v2, m, p - 1) /\ SmallestAt(v2, j + 1)
    BY <2>7, <2>8 DEF TailSorted, SmallestAt
  <2> HIDE DEF t
  <2>11. t \in BubbleStage(m, O, p - 1)
    BY <2>3, <2>9, <2>10 DEF BubbleStage
  <2>12. t \in PassStage(m, O, p, j)
    BY <2>9, <2>10, <2>11 DEF PassStage
  <2> QED
    BY <1>4, <1>7, <2>12
<1> QED
  BY <1>6, <1>7

\* One pass of it.
LEMMA PassRuns ==
  ASSUME NEW m \in Nat, NEW O, NEW p \in 0 .. m - 2, NEW t \in BubbleStage(m, O, p - 1)
  PROVE  BubblePass(t, m, p) \in PassStage(m, O, p, m - p - 2)
<1> DEFINE lo == 0
           hi == m - p - 2
           start == t
           B(s, i) == Bubbled(s, m, i)
           P(f) == f = [i \in lo - 1 .. hi |-> IF i < lo THEN start ELSE B(f[i - 1], i)]
           z == CHOOSE f : P(f)
           S == BubbleStates(m)
           body == [q \in S \X Int |-> B(q[1], q[2])]
           Stage == [i \in lo - 1 .. hi |-> PassStage(m, O, p, i)]
<1>1. BubblePass(t, m, p) = IF hi < lo THEN start ELSE z[hi]
  BY DEF BubblePass, For
<1>2. lo \in Int /\ hi \in Int /\ lo - 1 \in lo - 1 .. hi /\ hi \in lo - 1 .. hi /\ (hi < lo => hi = lo - 1)
  OBVIOUS
<1>3. start \in S /\ start \in PassStage(m, O, p, lo - 1)
  <2>1. t \in BubbleStates(m) /\ t.S \in FractionCells(m)
    BY DEF BubbleStage, BubbleStates
  <2>2. MadeOfNumbers(t.S) => LessEq(t.S[0], t.S[0])
    <3>1. 0 \in Cells(m)
      BY DEF Cells
    <3>2. MadeOfNumbers(t.S) => t.S[0] \in Number
      BY <2>1, <3>1 DEF MadeOfNumbers, FractionCells, Number
    <3> QED
      BY <3>2, TotalOrder
  <2>3. SmallestAt(t.S, 0)
    <3>1. \A q \in 0 .. 0 : q = 0
      OBVIOUS
    <3> QED
      BY <2>2, <3>1 DEF SmallestAt
  <2>4. (lo - 1) + 1 = 0
    OBVIOUS
  <2> QED
    BY <2>1, <2>3, <2>4 DEF PassStage
<1>4. ASSUME NEW i \in lo .. hi, NEW s \in PassStage(m, O, p, i - 1)
      PROVE  B(s, i) \in PassStage(m, O, p, i) /\ body[<<s, i>>] = B(s, i)
  <2>1. i \in Int
    OBVIOUS
  <2>2. s \in S
    BY DEF PassStage, BubbleStage
  <2> QED
    BY <2>1, <2>2, BubbleStep
<1>5. \A i \in lo - 1 .. hi : Stage[i] = PassStage(m, O, p, i) /\ Stage[i] \subseteq S
  BY DEF PassStage, BubbleStage
<1>6. Stage[hi] = PassStage(m, O, p, m - p - 2)
  BY <1>2, <1>5
<1> HIDE DEF Stage, body, start, lo, hi, B, S
<1>7. \A i \in lo .. hi : i \in lo - 1 .. hi /\ i - 1 \in lo - 1 .. hi /\ ~(i < lo)
  BY <1>2
<1>8. ASSUME NEW i \in lo .. hi, NEW s \in Stage[i - 1]
      PROVE  B(s, i) \in Stage[i] /\ body[<<s, i>>] = B(s, i)
  BY <1>4, <1>5, <1>7
<1>9. start \in Stage[lo - 1]
  BY <1>2, <1>3, <1>5
<1>10. PICK f : Runs(f, lo, hi, start, body) /\ \A i \in lo - 1 .. hi : f[i] \in Stage[i]
  <2>1. Leads(lo, hi, start, body, Stage)
    BY <1>8, <1>9 DEF Leads
  <2> QED
    BY <1>2, <1>3, <1>5, <2>1, LoopRuns
<1>11. P(f)
  <2>1. \A i \in lo - 1 .. hi : ~(i < lo) => body[<<f[i - 1], i>>] = B(f[i - 1], i)
    BY <1>2, <1>7, <1>8, <1>10
  <2> QED
    BY <1>10, <2>1 DEF Runs
<1> HIDE DEF P
<1>12. P(z)
  BY <1>11
<1> HIDE DEF z
<1>13. \A i \in lo - 1 .. hi : z[i] = IF i < lo THEN start ELSE B(z[i - 1], i)
  BY <1>12 DEF P
<1>14. \A i \in lo - 1 .. hi : z[i] \in Stage[i]
  <2>1. z[lo - 1] \in Stage[lo - 1]
    <3>1. lo - 1 \in lo - 1 .. hi /\ lo - 1 < lo
      BY <1>2
    <3>2. z[lo - 1] = start
      BY <1>13, <3>1
    <3> QED
      BY <1>9, <3>2
  <2>2. \A i \in lo .. hi : z[i - 1] \in Stage[i - 1] => z[i] \in Stage[i]
    BY <1>7, <1>8, <1>13
  <2> QED
    BY <1>2, <2>1, <2>2, StagesHold
<1> QED
  BY <1>1, <1>2, <1>6, <1>9, <1>14

\* After a pass one more value is in its place.
LEMMA PassSorts ==
  ASSUME NEW m \in Nat, NEW O, NEW p \in 0 .. m - 2, NEW t \in BubbleStage(m, O, p - 1)
  PROVE  BubblePass(t, m, p) \in BubbleStage(m, O, p)
<1> DEFINE s == BubblePass(t, m, p)
<1>1. s \in PassStage(m, O, p, m - p - 2)
  BY PassRuns
<1> HIDE DEF s
<1>2. /\ s \in BubbleStates(m) /\ Stays(s.A, s.V, m, O) /\ TailSorted(s.S, m, p - 1)
      /\ SmallestAt(s.S, (m - p - 2) + 1)
  BY <1>1 DEF PassStage, BubbleStage
<1>3. (m - p - 2) + 1 = m - 1 - p /\ p \in Int /\ m - 1 - p \in Int
  OBVIOUS
<1>4. ASSUME MadeOfNumbers(s.S), NEW j \in Cells(m), NEW k \in Cells(m), j < k, k >= m - 1 - p
      PROVE  LessEq(s.S[k], s.S[j])
  <2>1. j \in Int /\ k \in Int /\ j >= 0
    BY DEF Cells
  <2>2. CASE k = m - 1 - p
    <3>1. j \in 0 .. k
      BY <1>4, <2>1
    <3> QED
      BY <1>2, <1>3, <1>4, <2>2, <3>1 DEF SmallestAt
  <2>3. CASE k # m - 1 - p
    <3>1. k >= m - 1 - (p - 1)
      BY <1>3, <1>4, <2>1, <2>3
    <3> QED
      BY <1>2, <1>4, <3>1 DEF TailSorted
  <2> QED
    BY <2>2, <2>3
<1>5. TailSorted(s.S, m, p)
  BY <1>4 DEF TailSorted
<1>6. s \in BubbleStage(m, O, p)
  BY <1>2, <1>5 DEF BubbleStage
<1> QED
  BY <1>6 DEF s

\* All passes.
LEMMA BubbleRuns ==
  ASSUME NEW m \in Nat, m # 0, NEW O, NEW t \in BubbleStates(m), Stays(t.A, t.V, m, O)
  PROVE  BubbleSorted(t, m) \in BubbleStage(m, O, m - 2)
<1> DEFINE lo == 0
           hi == m - 2
           start == t
           B(s, i) == BubblePass(s, m, i)
           P(f) == f = [i \in lo - 1 .. hi |-> IF i < lo THEN start ELSE B(f[i - 1], i)]
           z == CHOOSE f : P(f)
           S == BubbleStates(m)
           body == [q \in S \X Int |-> B(q[1], q[2])]
           Stage == [i \in lo - 1 .. hi |-> BubbleStage(m, O, i)]
<1>1. BubbleSorted(t, m) = IF hi < lo THEN start ELSE z[hi]
  BY DEF BubbleSorted, For
<1>2. lo \in Int /\ hi \in Int /\ lo - 1 \in lo - 1 .. hi /\ hi \in lo - 1 .. hi /\ (hi < lo => hi = lo - 1)
  OBVIOUS
<1>3. start \in S /\ start \in BubbleStage(m, O, lo - 1)
  <2>1. TailSorted(t.S, m, lo - 1)
    BY DEF TailSorted, Cells
  <2> QED
    BY <2>1 DEF BubbleStage
<1>4. ASSUME NEW i \in lo .. hi, NEW s \in BubbleStage(m, O, i - 1)
      PROVE  B(s, i) \in BubbleStage(m, O, i) /\ body[<<s, i>>] = B(s, i)
  <2>1. i \in Int
    OBVIOUS
  <2>2. s \in S
    BY DEF BubbleStage
  <2> QED
    BY <2>1, <2>2, PassSorts
<1>5. \A i \in lo - 1 .. hi : Stage[i] = BubbleStage(m, O, i) /\ Stage[i] \subseteq S
  BY DEF BubbleStage
<1>6. Stage[hi] = BubbleStage(m, O, m - 2)
  BY <1>2, <1>5
<1> HIDE DEF Stage, body, start, lo, hi, B, S
<1>7. \A i \in lo .. hi : i \in lo - 1 .. hi /\ i - 1 \in lo - 1 .. hi /\ ~(i < lo)
  BY <1>2
<1>8. ASSUME NEW i \in lo .. hi, NEW s \in Stage[i - 1]
      PROVE  B(s, i) \in Stage[i] /\ body[<<s, i>>] = B(s, i)
  BY <1>4, <1>5, <1>7
<1>9. start \in Stage[lo - 1]
  BY <1>2, <1>3, <1>5
<1>10. PICK f : Runs(f, lo, hi, start, body) /\ \A i \in lo - 1 .. hi : f[i] \in Stage[i]
  <2>1. Leads(lo, hi, start, body, Stage)
    BY <1>8, <1>9 DEF Leads
  <2> QED
    BY <1>2, <1>3, <1>5, <2>1, LoopRuns
<1>11. P(f)
  <2>1. \A i \in lo - 1 .. hi : ~(i < lo) => body[<<f[i - 1], i>>] = B(f[i - 1], i)
    BY <1>2, <1>7, <1>8, <1>10
  <2> QED
    BY <1>10, <2>1 DEF Runs
<1> HIDE DEF P
<1>12. P(z)
  BY <1>11
<1> HIDE DEF z
<1>13. \A i \in lo - 1 .. hi : z[i] = IF i < lo THEN start ELSE B(z[i - 1], i)
  BY <1>12 DEF P
<1>14. \A i \in lo - 1 .. hi : z[i] \in Stage[i]
  <2>1. z[lo - 1] \in Stage[lo - 1]
    <3>1. lo - 1 \in lo - 1 .. hi /\ lo - 1 < lo
      BY <1>2
    <3>2. z[lo - 1] = start
      BY <1>13, <3>1
    <3> QED
      BY <1>9, <3>2
  <2>2. \A i \in lo .. hi : z[i - 1] \in Stage[i - 1] => z[i] \in Stage[i]
    BY <1>7, <1>8, <1>13
  <2> QED
    BY <1>2, <2>1, <2>2, StagesHold
<1> QED
  BY <1>1, <1>2, <1>6, <1>9, <1>14

\* The lengths of the columns.
Lengths(M, m) == [j \in Cells(m) |-> Root(ColumnDot(M, m, j, j))]

\* What the one sided Jacobi iteration returns.
LEMMA SvdIs ==
  ASSUME NEW m \in Nat, m # 0, NEW M \in Vector(m * m), NEW f, f = SvdJacobi(M, m), MadeOfNumbers(f.U)
  PROVE  /\ \A j \in 1 .. m - 1 : LessEq(f.S[j], f.S[j - 1])
         /\ MatMul([c \in DOMAIN f.U |-> Mul(f.U[c], f.S[c % m])], Transpose(f.V, m, m), m, m, m) = M
<1> DEFINE w == Swept(M, m)
           t == [S |-> Lengths(w.A, m), V |-> w.V, A |-> w.A]
           s == BubbleSorted(t, m)
<1>1. M \in Matrices(m, m) /\ DOMAIN M = Cells(m * m)
  BY DEF Matrices, Vector
<1>2. f = [U |-> [c \in Cells(m * m) |-> Div(s.A[c], s.S[c % m])], S |-> s.S, V |-> s.V]
  BY <1>1 DEF SvdJacobi, Swept, PairsOnce, RotatedRow, BubbleSorted, BubblePass, Lengths, ColumnDot
<1>3. w \in JacobiStage(m, M)
  BY <1>1, SweepsRotate
<1> HIDE DEF w
<1>4. w.A \in FractionCells(m * m) /\ w.V \in FractionCells(m * m) /\ Stays(w.A, w.V, m, M)
  BY <1>3 DEF JacobiStage, JacobiStates
<1>5. Lengths(w.A, m) \in FractionCells(m)
  <2>1. \A j \in Cells(m) : ColumnDot(w.A, m, j, j) \in Fraction
    BY <1>4, ColumnDotIs
  <2> QED
    BY <2>1, RootIsFraction DEF Lengths, FractionCells
<1>6. t \in BubbleStates(m) /\ t.A = w.A /\ t.V = w.V
  BY <1>4, <1>5 DEF BubbleStates
<1> HIDE DEF t
<1>7. s \in BubbleStage(m, M, m - 2)
  BY <1>4, <1>6, BubbleRuns
<1> HIDE DEF s
<1>8. /\ s.S \in FractionCells(m) /\ s.V \in FractionCells(m * m) /\ s.A \in FractionCells(m * m)
      /\ Stays(s.A, s.V, m, M) /\ TailSorted(s.S, m, m - 2)
  BY <1>7 DEF BubbleStage, BubbleStates
<1>9. f.S = s.S /\ f.V = s.V /\ f.U = [c \in Cells(m * m) |-> Div(s.A[c], s.S[c % m])]
  BY <1>2
<1>10. ASSUME NEW c \in Cells(m * m)
      PROVE  /\ s.A[c] \in Number /\ s.S[c % m] \in Number
             /\ Mul(f.U[c], f.S[c % m]) = s.A[c]
  <2>1. c % m \in Cells(m)
    BY PartsOf
  <2>2. s.A[c] \in Fraction /\ s.S[c % m] \in Fraction
    BY <1>8, <2>1 DEF FractionCells
  <2>3. IsNumber(f.U[c]) /\ f.U[c] = Div(s.A[c], s.S[c % m])
    BY <1>9 DEF MadeOfNumbers
  <2> QED
    BY <1>9, <2>2, <2>3, QuotientIsNumber
<1>11. MadeOfNumbers(s.S)
  <2>1. ASSUME NEW j \in Cells(m)
        PROVE  IsNumber(s.S[j])
    <3>1. 0 \in Cells(m)
      BY DEF Cells
    <3>2. m * 0 + j \in Cells(m * m) /\ (m * 0 + j) % m = j
      BY <3>1, CellOf
    <3>3. s.S[j] \in Number
      BY <1>10, <3>2
    <3> QED
      BY <3>3 DEF Number
  <2> QED
    BY <1>8, <2>1 DEF MadeOfNumbers, FractionCells
<1>12. ASSUME NEW j \in 1 .. m - 1
       PROVE  LessEq(f.S[j], f.S[j - 1])
  <2>1. j \in Cells(m) /\ j - 1 \in Cells(m) /\ j - 1 < j /\ j >= m - 1 - (m - 2)
    BY DEF Cells
  <2> QED
    BY <1>8, <1>9, <1>11, <2>1 DEF TailSorted
<1>13. [c \in DOMAIN f.U |-> Mul(f.U[c], f.S[c % m])] = s.A
  <2>1. DOMAIN f.U = Cells(m * m) /\ s.A = [c \in Cells(m * m) |-> s.A[c]]
    BY <1>8, <1>9 DEF FractionCells
  <2> QED
    BY <1>10, <2>1
<1>14. ~\E k \in Cells(m) : Void(s.A, m, k)
  <2> SUFFICES ASSUME NEW k \in Cells(m), Void(s.A, m, k) PROVE FALSE
    OBVIOUS
  <2>1. 0 \in Cells(m)
    BY DEF Cells
  <2>2. m * 0 + k \in Cells(m * m)
    BY <2>1, CellOf
  <2>3. s.A[m * 0 + k] \in Number
    BY <1>10, <2>2
  <2> QED
    BY <2>1, <2>3 DEF Void, At, Number
<1>15. /\ s.A \in Matrices(m, m) /\ s.V \in Matrices(m, m)
       /\ \A r, l \in Cells(m) : SumOf(Crossed(s.A, s.V, m, r, l), m) = At(M, m, r, l)
  BY <1>8, <1>14 DEF Stays
<1> DEFINE V == s.V
           T == Transpose(V, m, m)
           X == s.A
<1>16. T \in Matrices(m, m) /\ \A l, k \in Cells(m) : At(T, m, k, l) = At(V, m, l, k)
  BY <1>15, TransposeCells
<1> HIDE DEF T, V, X
<1>17. ASSUME NEW r \in Cells(m), NEW l \in Cells(m)
       PROVE  At(M, m, r, l) = SumOf(Pairs(X, T, m, m, r, l), m)
  <2>1. Crossed(X, V, m, r, l) \in Vector(m)
        /\ \A k \in Cells(m) : Crossed(X, V, m, r, l)[k] = Mul(At(X, m, r, k), At(V, m, l, k))
    BY <1>15, CrossedNumbers DEF X, V
  <2>2. \A k \in Cells(m) : Pairs(X, T, m, m, r, l)[k] = Mul(At(X, m, r, k), At(T, m, k, l))
    BY <1>15, <1>16, PairsAreNumbers DEF X
  <2>3. SumOf(Pairs(X, T, m, m, r, l), m) = SumOf(Crossed(X, V, m, r, l), m)
    BY <1>16, <2>1, <2>2, SumsOfEqual
  <2> QED
    BY <1>15, <2>3 DEF X, V
<1>18. MatMul(X, T, m, m, m) = M
  BY <1>1, <1>15, <1>16, <1>17, ProductIs DEF X
<1> QED
  BY <1>9, <1>12, <1>13, <1>18 DEF X, T, V

-----------------------------------------------------------------------------
(* The calls. What an answer holds is what its routine computes from the    *)
(* arguments of the call, and stays there.                                  *)

AnswersInv ==
  /\ call \in Calls
  /\ Answered("linsolve_lup") => result = LinsolveLup(A, call.b, n)
  /\ Answered("inv") => result = Inv(A, n)
  /\ Answered("linsolve_gauss") =>
       result = [x |-> LinsolveGauss(A, call.b, call.row, call.column, call.alpha)]
  /\ Answered("linsolve_chol") => result = [x |-> LinsolveChol(A, call.b, n)]
  /\ Answered("linsolve_qr") => result = [x |-> LinsolveQr(A, call.b, n, n)]
  /\ Answered("qr") => result = Qr(A, call.row, call.column)
  /\ Answered("dlyap") => result = Dlyap(A, call.Q, n)
  /\ Answered("svd") => result = SvdJacobi(A, n)
  /\ Answered("sort") => result = SortByDecreasing(call.S, call.U, call.V, n)
  /\ Answered("expm") => result = Expm(A, n)
  /\ Answered("blocks") => result = Moved
  /\ Answered("hankel") => result = Hankel(A, call.row, call.column, call.row_h, call.column_h, call.shift)

\* A routine that returns.
LEMMA ReturnKeeps ==
  ASSUME AnswersInv, NEW fn, NEW value, Returns(fn, value),
         fn = "linsolve_lup" => value = LinsolveLup(A, call.b, n),
         fn = "inv" => value = Inv(A, n),
         fn = "linsolve_gauss" => value = [x |-> LinsolveGauss(A, call.b, call.row, call.column, call.alpha)],
         fn = "linsolve_chol" => value = [x |-> LinsolveChol(A, call.b, n)],
         fn = "linsolve_qr" => value = [x |-> LinsolveQr(A, call.b, n, n)],
         fn = "qr" => value = Qr(A, call.row, call.column),
         fn = "dlyap" => value = Dlyap(A, call.Q, n),
         fn = "svd" => value = SvdJacobi(A, n),
         fn = "sort" => value = SortByDecreasing(call.S, call.U, call.V, n),
         fn = "expm" => value = Expm(A, n),
         fn = "blocks" => value = Moved,
         fn = "hankel" => value = Hankel(A, call.row, call.column, call.row_h, call.column_h, call.shift)
  PROVE  AnswersInv'
<1>1. /\ call.fn = fn /\ returned' = TRUE /\ result' = value /\ call' = call
  BY DEF Returns
<1> QED
  BY <1>1 DEF AnswersInv, Answered, Moved, A, n

\* The answers stay what the routines computed: no call changes the answer of
\* another.
THEOREM AnswersInvariance == Spec => []AnswersInv
<1>1. Init => AnswersInv
  BY DEF Init, AnswersInv, Answered
<1>2. AnswersInv /\ [Next]_vars => AnswersInv'
  <2> SUFFICES ASSUME AnswersInv, [Next]_vars PROVE AnswersInv'
    OBVIOUS
  <2>1. CASE CallLinsolveLup
    BY <2>1, ReturnKeeps DEF CallLinsolveLup
  <2>2. CASE CallInv
    BY <2>2, ReturnKeeps DEF CallInv
  <2>3. CASE CallGauss
    BY <2>3, ReturnKeeps DEF CallGauss
  <2>4. CASE CallDet
    BY <2>4, ReturnKeeps DEF CallDet
  <2>5. CASE CallCholSolve
    BY <2>5, ReturnKeeps DEF CallCholSolve
  <2>6. CASE CallQrSolve
    BY <2>6, ReturnKeeps DEF CallQrSolve
  <2>7. CASE CallQr
    BY <2>7, ReturnKeeps DEF CallQr
  <2>8. CASE CallDlyap
    BY <2>8, ReturnKeeps DEF CallDlyap
  <2>9. CASE CallBalance
    BY <2>9, ReturnKeeps DEF CallBalance
  <2>10. CASE CallPrepare
    BY <2>10, ReturnKeeps DEF CallPrepare
  <2>11. CASE CallEig
    BY <2>11, ReturnKeeps DEF CallEig
  <2>12. CASE CallSvd
    BY <2>12, ReturnKeeps DEF CallSvd
  <2>13. CASE CallPinv
    BY <2>13, ReturnKeeps DEF CallPinv
  <2>14. CASE CallSort
    BY <2>14, ReturnKeeps DEF CallSort
  <2>15. CASE CallExpm
    BY <2>15, ReturnKeeps DEF CallExpm
  <2>16. CASE CallHankel
    BY <2>16, ReturnKeeps DEF CallHankel
  <2>17. CASE CallBlocks
    BY <2>17, ReturnKeeps DEF CallBlocks
  <2>18. CASE CallChol
    BY <2>18 DEF CallChol, AnswersInv, Answered, Moved, A, n
  <2>19. CASE \E x \in Vectors, up \in BOOLEAN : CallCholUpdate(x, up)
    BY <2>19 DEF CallCholUpdate, AnswersInv, Answered, Moved, A, n
  <2>20. CASE (SolverNext /\ UNCHANGED callVars) \/ UNCHANGED vars
    BY <2>20 DEF callVars, vars, AnswersInv, Answered, Moved, A, n
  <2> QED
    BY <2>1, <2>2, <2>3, <2>4, <2>5, <2>6, <2>7, <2>8, <2>9, <2>10, <2>11, <2>12, <2>13, <2>14, <2>15, <2>16, <2>17, <2>18, <2>19, <2>20 DEF Next
<1> QED
  BY <1>1, <1>2, PTL DEF Spec

\* For every matrix of numbers of up to 256 rows: what smls_mat_inv returns with
\* success is the inverse, and with an error it has left its output alone.
THEOREM InverseIsExact == Spec => []InverseInverts
<1>1. AnswersInv => InverseInverts
  <2> SUFFICES ASSUME AnswersInv, Answered("inv")
               PROVE  IF result.ok THEN MatMul(A, result.Ai, n, n, n) = Identity(n) ELSE result.Ai = A
    BY DEF InverseInverts
  <2>1. call \in Calls /\ call.fn = "inv" /\ result = Inv(A, n)
    BY DEF AnswersInv, Answered
  <2>2. n \in 1 .. 256 /\ A \in Vector(n * n)
    BY <2>1, CallsAssumption DEF A, n
  <2>3. n \in Nat /\ n # 0
    BY <2>2
  <2> QED
    BY <2>1, <2>2, <2>3, InvInverts
<1> QED
  BY <1>1, AnswersInvariance, PTL

\* smls_mat_inv gives up, in lup or on the last pivot, exactly on the matrices that
\* map some vector other than zero to zero.
THEOREM InverseWhereRegular == Spec => [](Answered("inv") => (result.ok <=> ~Singular(A, n)))
<1>1. AnswersInv => (Answered("inv") => (result.ok <=> ~Singular(A, n)))
  <2> SUFFICES ASSUME AnswersInv, Answered("inv")
               PROVE  result.ok <=> ~Singular(A, n)
    OBVIOUS
  <2>1. call \in Calls /\ call.fn = "inv" /\ result = Inv(A, n)
    BY DEF AnswersInv, Answered
  <2>2. n \in 1 .. 256 /\ A \in Vector(n * n)
    BY <2>1, CallsAssumption DEF A, n
  <2>3. n \in Nat /\ n # 0
    BY <2>2
  <2> QED
    BY <2>1, <2>2, <2>3, InvSucceeds
<1> QED
  BY <1>1, AnswersInvariance, PTL

\* smls_linsolve_lup solves every system whose matrix is regular, whatever rows the
\* pivots exchange.
THEOREM RegularSystemsSolved ==
  Spec => [](Answered("linsolve_lup") /\ ~Singular(A, n) => result.ok /\ MatMul(A, result.x, n, n, 1) = call.b)
<1>1. AnswersInv => (Answered("linsolve_lup") /\ ~Singular(A, n) => result.ok /\ MatMul(A, result.x, n, n, 1) = call.b)
  <2> SUFFICES ASSUME AnswersInv, Answered("linsolve_lup"), ~Singular(A, n)
               PROVE  result.ok /\ MatMul(A, result.x, n, n, 1) = call.b
    OBVIOUS
  <2>1. call \in Calls /\ call.fn = "linsolve_lup" /\ result = LinsolveLup(A, call.b, n)
    BY DEF AnswersInv, Answered
  <2>2. n \in 1 .. 256 /\ A \in Vector(n * n) /\ call.b \in Vector(n)
    BY <2>1, CallsAssumption DEF A, n
  <2>3. n \in Nat /\ n # 0
    BY <2>2
  <2> QED
    BY <2>1, <2>2, <2>3, LupSolves
<1> QED
  BY <1>1, AnswersInvariance, PTL

\* smls_linsolve_gauss, which exchanges no rows: with alpha > 0 it solves the
\* regularized system of every matrix, and without a square system whose leading
\* blocks are all regular.
GaussSolved ==
  Answered("linsolve_gauss") =>
    LET t == Tikhonov(A, call.b, call.row, call.column, call.alpha)
    IN  /\ Less(Zero, call.alpha) => MatMul(t.A, result.x, call.column, call.column, 1) = t.b
        /\ ~Less(Zero, call.alpha) /\ call.row = call.column /\ ~LeadingSingular(A, call.row) =>
             MatMul(A, result.x, call.row, call.row, 1) = call.b

\* A positive alpha makes the elimination find every pivot.
THEOREM RegularizedSystemsSolved == Spec => []GaussSolved
<1>1. AnswersInv => GaussSolved
  <2> SUFFICES ASSUME AnswersInv, Answered("linsolve_gauss")
               PROVE  GaussSolved
    BY DEF GaussSolved
  <2>1. /\ call \in Calls /\ call.fn = "linsolve_gauss"
        /\ result.x = LinsolveGauss(A, call.b, call.row, call.column, call.alpha)
    BY DEF AnswersInv, Answered
  <2>2. /\ call.row \in Nat /\ call.column \in Nat
        /\ A \in Vector(call.row * call.column) /\ call.b \in Vector(call.row) /\ call.alpha \in Number
    BY <2>1, CallsAssumption DEF A
  <2>3. LET x == LinsolveGauss(A, call.b, call.row, call.column, call.alpha)
            t == Tikhonov(A, call.b, call.row, call.column, call.alpha)
        IN  /\ Less(Zero, call.alpha) => MatMul(t.A, x, call.column, call.column, 1) = t.b
            /\ ~Less(Zero, call.alpha) /\ call.row = call.column /\ ~LeadingSingular(A, call.row) =>
                 MatMul(A, x, call.row, call.row, 1) = call.b
    BY <2>2, GaussSolves
  <2> QED
    BY <2>1, <2>3 DEF GaussSolved
<1> QED
  BY <1>1, AnswersInvariance, PTL

\* A Hankel matrix of block rows that stays inside its arrays, at least as wide as the
\* signal: as wide, shifted by one at most, or one wider; and no more block rows than
\* there are shifts of the signal, the empty one included.
LEMMA SafeHankelFits ==
  ASSUME NEW v \in Nat, v # 0, NEW w \in Nat, w # 0, NEW h \in Nat, h # 0, h % v = 0,
         NEW x \in Nat, x >= w, NEW s \in Nat, HankelStaysInside(v, w, h, x, s)
  PROVE  HankelFits(w, x, s, h \div v)
<1> DEFINE blocks == h \div v
<1>1. blocks \in Nat \ {0}
  <2>1. h \div v \in Int /\ h = v * (h \div v) + (h % v)
    BY DivMod
  <2> QED
    BY <2>1
<1>2. ASSUME NEW i \in Cells(blocks)
      PROVE  LET load == IF s + x > w THEN x - i - 1 ELSE x - i
             IN  0 <= load /\ i + s + load <= w
  <2>1. i \in Nat /\ ~(w > x + i)
    BY <1>1 DEF Cells
  <2>2. (v - 1) * w = v * w - w /\ v * w \in Int
    OBVIOUS
  <2>3. HankelLoad(i, v, w, x, s) = IF v * w - w + i + s + (x - i) > v * w THEN x - i - 1 ELSE x - i
    BY <2>1, <2>2 DEF HankelLoad
  <2>4. (v * w - w + i + s + (x - i) > v * w) <=> (s + x > w)
    BY <2>1, <2>2
  <2>5. 0 <= HankelLoad(i, v, w, x, s) /\ i + s + HankelLoad(i, v, w, x, s) <= w
    BY DEF HankelStaysInside
  <2> QED
    BY <2>3, <2>4, <2>5
<1> HIDE DEF blocks
<1>3. 0 \in Cells(blocks) /\ blocks - 1 \in Cells(blocks)
  BY <1>1 DEF Cells
<1>4. (x = w /\ s \in {0, 1}) \/ (x = w + 1 /\ s = 0)
  <2>1. IF s + x > w THEN 0 + s + (x - 0 - 1) <= w ELSE 0 + s + (x - 0) <= w
    BY <1>2, <1>3
  <2> QED
    BY <2>1
<1>5. blocks + s <= w + 1
  <2>1. IF s + x > w THEN 0 <= x - (blocks - 1) - 1 ELSE 0 <= x - (blocks - 1)
    BY <1>2, <1>3
  <2> QED
    BY <1>1, <1>4, <2>1
<1> QED
  BY <1>1, <1>4, <1>5 DEF HankelFits, blocks

\* For every matrix and block: what cut takes out insert puts back, and nothing else;
\* cat stacks what was cut, and fills the first two rows of what it puts side by side;
\* a transpose turns every cell; and every Hankel matrix that stays inside its arrays
\* and is at least as wide as the signal has the signal, shifted once more in each
\* block row, and zeros behind its end.
THEOREM BlocksKeepTheirPlace == Spec => []BlocksMove
<1>1. AnswersInv => BlocksMove
  <2> SUFFICES ASSUME AnswersInv PROVE BlocksMove
    OBVIOUS
  <2> DEFINE h == call.row
             w == call.column
  <2>1. ASSUME Answered("blocks")
        PROVE  /\ \A c \in DOMAIN A :
                    LET i == c \div w
                        j == c % w
                        inside == i \in call.i .. call.i + call.row_b - 1 /\ j \in call.j .. call.j + call.column_b - 1
                    IN  /\ result.placed[c] = IF inside THEN A[c] ELSE Zero
                        /\ result.turned[j * h + i] = A[c]
                        /\ i < 2 => result.joined[c] = A[c]
               /\ result.stacked = A
    <3>1. call \in Calls /\ call.fn = "blocks" /\ result = Moved
      BY <2>1 DEF AnswersInv, Answered
    <3>2. /\ h \in Nat /\ h # 0 /\ h >= 2 /\ w \in Nat /\ w # 0 /\ A \in [Cells(h * w) -> Fraction]
          /\ BlockIn(h, w, call.i, call.j, call.row_b, call.column_b)
      BY <3>1, CallsAssumption DEF A, BlockIn
    <3>3. /\ result.placed = Insert(Filled(h * w, Zero), Cut(A, w, call.i, call.j, call.row_b, call.column_b),
                                    call.row_b, call.column_b, w, call.i, call.j)
          /\ result.stacked = CatVertical(Cut(A, w, 0, 0, 1, w), Cut(A, w, 1, 0, h - 1, w), 1, h - 1, w)
          /\ result.joined = CatHorizontal(Cut(A, w, 0, 0, h, 1), Cut(A, w, 0, 1, h, w - 1), h, 1, w - 1)
          /\ result.turned = Transpose(A, h, w)
      BY <3>1 DEF Moved
    <3> HIDE DEF h, w
    <3>4. ASSUME NEW c \in DOMAIN A
          PROVE  LET i == c \div w
                     j == c % w
                     inside == i \in call.i .. call.i + call.row_b - 1 /\ j \in call.j .. call.j + call.column_b - 1
                 IN  /\ result.placed[c] = IF inside THEN A[c] ELSE Zero
                     /\ result.turned[j * h + i] = A[c]
                     /\ i < 2 => result.joined[c] = A[c]
      <4> DEFINE i == c \div w
                 j == c % w
      <4>1. i \in Cells(h) /\ j \in Cells(w) /\ c = w * i + j
        BY <3>2, <3>4, PartsOf
      <4> HIDE DEF i, j
      <4>2. Zero \in Fraction
        BY NumbersClosed DEF Number
      <4>3. result.placed[w * i + j] =
              IF i \in call.i .. call.i + call.row_b - 1 /\ j \in call.j .. call.j + call.column_b - 1
              THEN A[w * i + j] ELSE Zero
        <5>1. BlockAmong(result.placed, A, h, w, call.i, call.j, call.row_b, call.column_b, Zero)
          BY <3>2, <3>3, <4>2, InsertedBack
        <5> QED
          BY <4>1, <5>1 DEF BlockAmong
      <4>4. result.turned[j * h + i] = A[i * w + j]
        <5>1. \A k \in Cells(h), l \in Cells(w) : Transpose(A, h, w)[l * h + k] = A[k * w + l]
          <6> TAKE k \in Cells(h), l \in Cells(w)
          <6> QED
            BY <3>2, TurnedCell
        <5> QED
          BY <3>3, <4>1, <5>1
      <4>5. i * w + j = w * i + j
        BY <3>2, <4>1 DEF Cells
      <4>6. i < 2 => result.joined[c] = A[c]
        <5> SUFFICES ASSUME i < 2 PROVE result.joined[c] = A[c]
          OBVIOUS
        <5>1. i \in {0, 1} /\ j \in Int /\ 0 <= j /\ j < w
          BY <3>2, <4>1 DEF Cells
        <5>2. c \in Cells(2 * w)
          BY <3>2, <4>1, <5>1 DEF Cells
        <5>3. CatHorizontal(Cut(A, w, 0, 0, h, 1), Cut(A, w, 0, 1, h, w - 1), h, 1, w - 1)[c] = A[c]
          BY <3>2, <5>2, JoinedAgain, Zenon
        <5> QED
          BY <3>3, <5>3
      <4> QED
        BY <4>1, <4>3, <4>4, <4>5, <4>6 DEF i, j
    <3>5. result.stacked = A
      BY <3>2, <3>3, StackedAgain
    <3> QED
      BY <3>4, <3>5
  <2>2. ASSUME Answered("hankel"), call.column_h >= w
        PROVE  \A c \in DOMAIN result : result[c] = HankelCell(A, h, w, call.column_h, call.shift, c)
    <3> DEFINE x == call.column_h
               s == call.shift
               all == call.row_h
    <3> SUFFICES \A c \in DOMAIN result : result[c] = HankelCell(A, h, w, x, s, c)
      OBVIOUS
    <3>1. call \in Calls /\ call.fn = "hankel" /\ result = Hankel(A, h, w, all, x, s)
      BY <2>2 DEF AnswersInv, Answered
    <3>2. /\ h \in Nat /\ h # 0 /\ w \in Nat /\ w # 0 /\ A \in [Cells(h * w) -> Fraction]
          /\ all \in Nat /\ all % h = 0 /\ x \in Nat /\ x >= w /\ s \in Nat
          /\ HankelStaysInside(h, w, all, x, s)
      BY <2>2, <3>1, CallsAssumption DEF A
    <3> HIDE DEF h, w, x, s, all
    <3>3. CASE all = 0
      <4>1. 0 \div h = 0
        <5>1. h * 0 + 0 = 0 /\ 0 \in 0 .. h - 1
          BY <3>2
        <5> QED
          BY <3>2, <5>1, DivModUnique
      <4>2. result = Filled(all * x, Zero)
        BY <3>1, <3>3, <4>1 DEF Hankel, For
      <4>3. DOMAIN result = {}
        BY <3>2, <3>3, <4>2 DEF Filled, Cells
      <4> QED
        BY <4>3
    <3>4. CASE all # 0
      <4>1. HankelFits(w, x, s, all \div h)
        BY <3>2, <3>4, SafeHankelFits
      <4>2. \A c \in DOMAIN Hankel(A, h, w, all, x, s) :
              Hankel(A, h, w, all, x, s)[c] = HankelCell(A, h, w, x, s, c)
        BY <3>2, <4>1, HankelCells
      <4> QED
        BY <3>1, <4>2
    <3> QED
      BY <3>3, <3>4
  <2> QED
    BY <2>1, <2>2 DEF BlocksMove, HankelCell
<1> QED
  BY <1>1, AnswersInvariance, PTL

\* For every system of numbers, of lup, gauss, chol, qr and dlyap: an answer that is
\* made of numbers satisfies the system.
THEOREM AnswersAreSolutions == Spec => []SolversSolve
<1>1. AnswersInv => SolversSolve
  <2> SUFFICES ASSUME AnswersInv PROVE SolversSolve
    OBVIOUS
  <2> DEFINE x == result.x
             solves(M, b, m) == MadeOfNumbers(x) => MatMul(M, x, m, m, 1) = b
             t == Tikhonov(A, call.b, call.row, call.column, call.alpha)
  <2>1. Answered("linsolve_lup") /\ result.ok => solves(A, call.b, n)
    <3> SUFFICES ASSUME Answered("linsolve_lup"), result.ok, MadeOfNumbers(x)
                 PROVE  MatMul(A, x, n, n, 1) = call.b
      OBVIOUS
    <3>1. call \in Calls /\ call.fn = "linsolve_lup" /\ result = LinsolveLup(A, call.b, n)
      BY DEF AnswersInv, Answered
    <3>2. n \in 1 .. 256 /\ A \in Vector(n * n) /\ call.b \in Vector(n)
      BY <3>1, CallsAssumption DEF A, n
    <3>3. n \in Nat /\ n # 0
      BY <3>2
    <3> QED
      BY <3>1, <3>2, <3>3, LupNumbersSolve
  <2>2. Answered("linsolve_gauss") =>
          IF LessEq(call.alpha, Zero) /\ call.row = call.column THEN solves(A, call.b, call.row)
          ELSE solves(t.A, t.b, call.column)
    <3> SUFFICES ASSUME Answered("linsolve_gauss"), MadeOfNumbers(x)
                 PROVE  IF LessEq(call.alpha, Zero) /\ call.row = call.column
                        THEN MatMul(A, x, call.row, call.row, 1) = call.b
                        ELSE MatMul(t.A, x, call.column, call.column, 1) = t.b
      OBVIOUS
    <3>1. /\ call \in Calls /\ call.fn = "linsolve_gauss"
          /\ x = LinsolveGauss(A, call.b, call.row, call.column, call.alpha)
      BY DEF AnswersInv, Answered
    <3>2. /\ call.row \in Nat /\ call.column \in Nat
          /\ A \in Vector(call.row * call.column) /\ call.b \in Vector(call.row) /\ call.alpha \in Number
      BY <3>1, CallsAssumption DEF A
    <3> QED
      BY <3>1, <3>2, GaussNumbersSolve
  <2>3. Answered("linsolve_chol") => solves(A, call.b, n)
    <3> SUFFICES ASSUME Answered("linsolve_chol") PROVE MatMul(A, x, n, n, 1) = call.b
      OBVIOUS
    <3>1. call \in Calls /\ call.fn = "linsolve_chol" /\ x = LinsolveChol(A, call.b, n)
      BY DEF AnswersInv, Answered
    <3>2. n \in Nat /\ call.b \in Vector(n)
      BY <3>1, CallsAssumption DEF n
    <3>3. PICK L \in Roots : /\ L \in Vector(n * n) /\ IsCholeskyFactor(L, n)
                             /\ A = MatMul(L, Transpose(L, n, n), n, n, n)
      BY <3>1, CallsAssumption DEF A, n
    <3> QED
      BY <3>1, <3>2, <3>3, CholSolves
  <2>4. Answered("linsolve_qr") => solves(A, call.b, n)
    <3> SUFFICES ASSUME Answered("linsolve_qr"), MadeOfNumbers(x)
                 PROVE  MatMul(A, x, n, n, 1) = call.b
      OBVIOUS
    <3>1. call \in Calls /\ call.fn = "linsolve_qr" /\ x = LinsolveQr(A, call.b, n, n)
      BY DEF AnswersInv, Answered
    <3>2. n \in 1 .. 255 /\ A \in Vector(n * n) /\ call.b \in Vector(n)
      BY <3>1, CallsAssumption DEF A, n
    <3>3. n \in Nat /\ n # 0 /\ A \in Matrices(n, n)
      BY <3>2 DEF Matrices
    <3> QED
      BY <3>1, <3>2, <3>3, QrNumbersSolve
  <2>5. Answered("dlyap") =>
          LET image == MatMul(MatMul(A, x, n, n, n), Transpose(A, n, n), n, n, n)
          IN  result.ok /\ MadeOfNumbers(x) => MatAdd(image, call.Q) = x
    <3> SUFFICES ASSUME Answered("dlyap"), result.ok, MadeOfNumbers(x)
                 PROVE  MatAdd(MatMul(MatMul(A, x, n, n, n), Transpose(A, n, n), n, n, n), call.Q) = x
      OBVIOUS
    <3>1. call \in Calls /\ call.fn = "dlyap" /\ result = Dlyap(A, call.Q, n)
      BY DEF AnswersInv, Answered
    <3>2. n \in 1 .. 16 /\ A \in Vector(n * n) /\ call.Q \in Vector(n * n)
      BY <3>1, CallsAssumption DEF A, n
    <3>3. n \in Nat /\ n # 0
      BY <3>2
    <3> QED
      BY <3>1, <3>2, <3>3, LyapunovSolves
  <2> QED
    BY <2>1, <2>2, <2>3, <2>4, <2>5 DEF SolversSolve
<1> QED
  BY <1>1, AnswersInvariance, PTL

\* For every square matrix: where U is made of numbers, the values of smls_mat_svd are
\* in decreasing order and U S V' is the matrix; a sort moves every value with its
\* columns of U and V, whatever these hold, and orders the values.
THEOREM ColumnsKeepTheirValues == Spec => []ColumnsFollowValues
<1>1. AnswersInv => ColumnsFollowValues
  <2> SUFFICES ASSUME AnswersInv PROVE ColumnsFollowValues
    OBVIOUS
  <2>1. call \in Calls
    BY DEF AnswersInv
  <2>2. ASSUME Answered("svd"), MadeOfNumbers(result.U)
        PROVE  /\ \A j \in 1 .. n - 1 : LessEq(result.S[j], result.S[j - 1])
               /\ MatMul([c \in DOMAIN result.U |-> Mul(result.U[c], result.S[c % n])],
                         Transpose(result.V, n, n), n, n, n) = A
    <3>1. n \in Nat \ {0} /\ A \in Vector(n * n)
      BY <2>1, <2>2, CallsAssumption DEF Answered, A, n
    <3>2. result = SvdJacobi(A, n)
      BY <2>2 DEF AnswersInv
    <3>3. n \in Nat /\ n # 0
      BY <3>1
    <3> QED
      BY <2>2, <3>1, <3>2, <3>3, SvdIs
  <2>3. ASSUME Answered("sort")
        PROVE  Together(result, call.S, call.U, call.V, n)
    <3>1. /\ n \in Nat \ {0} /\ call.row \in Nat /\ call.S \in Vector(n)
          /\ call.U \in FractionCells(call.row * n) /\ call.V \in FractionCells(n * n)
      BY <2>1, <2>3, CallsAssumption DEF Answered, n, FractionCells
    <3>2. result = SortByDecreasing(call.S, call.U, call.V, n)
      BY <2>3 DEF AnswersInv
    <3>3. n \in Nat /\ n # 0
      BY <3>1
    <3> QED
      BY <3>1, <3>2, <3>3, Sorts
  <2> QED
    BY <2>2, <2>3 DEF ColumnsFollowValues, Together
<1> QED
  BY <1>1, AnswersInvariance, PTL

\* For every nilpotent matrix without negative entries whose third power is zero, and
\* enough passes: smls_mat_expm ends with the exponential, its loop running on to the
\* last term that is not zero.
THEOREM SeriesIsExponential == Spec => []ExponentialIsSeries
<1>1. AnswersInv => ExponentialIsSeries
  <2> SUFFICES ASSUME AnswersInv, Answered("expm")
               PROVE  result = MatAdd(MatAdd(Identity(n), A), Scaled(MatMul(A, A, n, n, n), <<1, 2>>))
    BY DEF ExponentialIsSeries
  <2>1. call \in Calls /\ call.fn = "expm" /\ result = Expm(A, n)
    BY DEF AnswersInv, Answered
  <2>2. /\ n \in Nat \ {0} /\ A \in Vector(n * n) /\ Turns >= 3 /\ \A k \in Cells(n * n) : LessEq(Zero, A[k])
        /\ MatMul(A, MatMul(A, A, n, n, n), n, n, n) = Filled(n * n, Zero)
    BY <2>1, CallsAssumption DEF A, n
  <2>3. n \in Nat /\ n # 0 /\ Nilpotent(A, n)
    BY <2>2 DEF Nilpotent
  <2> QED
    BY <2>1, <2>2, <2>3, ExpmIs
<1> QED
  BY <1>1, AnswersInvariance, PTL

\* For every matrix of up to 255 rows: where R is made of numbers, Q is orthogonal, R
\* upper triangular, and their product the matrix; where it is not, some column had
\* nothing left to reflect.
THEOREM ReflectionsFactor == Spec => []QrFactors
<1>1. AnswersInv => QrFactors
  <2> SUFFICES ASSUME AnswersInv, Answered("qr"), MadeOfNumbers(result.R) PROVE QrFactors
    BY DEF QrFactors
  <2> DEFINE h == call.row
             w == call.column
             Q == result.Q
             R == result.R
  <2>1. call \in Calls /\ call.fn = "qr" /\ result = Qr(A, h, w)
    BY DEF AnswersInv, Answered
  <2>2. h \in Nat /\ h # 0 /\ w \in Nat /\ w # 0 /\ A \in Matrices(h, w)
    <3>1. h \in 1 .. 255 /\ w \in Nat \ {0} /\ A \in Vector(h * w)
      BY <2>1, CallsAssumption DEF A
    <3> QED
      BY <3>1 DEF Matrices
  <2>3. MadeOfNumbers(R)
    OBVIOUS
  <2>4. /\ R \in FractionCells(h * w)
        /\ \/ \A r \in Cells(h), c \in Cells(w) : ~IsNumber(At(R, w, r, c))
           \/ /\ result.ok
              /\ MatMul(Q, Transpose(Q, h, h), h, h, h) = Identity(h)
              /\ \A r \in Cells(h), c \in Cells(w) : r > c => At(R, w, r, c) = Zero
              /\ MatMul(Q, R, h, h, w) = A
    BY <2>1, <2>2, QrGives
  <2>5. (DOMAIN R) = Cells(h * w)
    BY <2>4 DEF FractionCells
  <2> HIDE DEF h, w, Q, R
  <2>6. ~ \A r \in Cells(h), c \in Cells(w) : ~IsNumber(At(R, w, r, c))
    <3>1. 0 \in Cells(h) /\ 0 \in Cells(w)
      BY <2>2 DEF Cells
    <3>2. w * 0 + 0 \in Cells(h * w)
      BY <2>2, <3>1, CellOf
    <3>3. IsNumber(At(R, w, 0, 0))
      BY <2>3, <2>5, <3>2 DEF MadeOfNumbers, At
    <3> QED
      BY <3>1, <3>3
  <2>7. \A c \in DOMAIN R : c \div w > c % w => R[c] = Zero
    <3> SUFFICES ASSUME NEW c \in Cells(h * w), c \div w > c % w PROVE R[c] = Zero
      BY <2>5
    <3>1. c \div w \in Cells(h) /\ c % w \in Cells(w) /\ c = w * (c \div w) + (c % w)
      BY <2>2, PartsOf
    <3>2. At(R, w, c \div w, c % w) = Zero
      BY <2>4, <2>6, <3>1
    <3> QED
      BY <3>1, <3>2 DEF At
  <2> QED
    BY <2>4, <2>6, <2>7 DEF QrFactors, h, w, Q, R
<1> QED
  BY <1>1, AnswersInvariance, PTL

-----------------------------------------------------------------------------
(* The factor: the invariant says of what it is the factor.                 *)

\* The factor in result is that of sum, unless the last update stopped.
FollowInv ==
  /\ call \in Calls
  /\ Answered("chol") =>
       /\ sum \in Matrices(n, n)
       /\ ~result.stop => Factor(result.L, sum, n)

\* Every update keeps the factor that of the matrix the updates add up to.
THEOREM FactorInvariance == Spec => []FollowInv
<1>1. Init => FollowInv
  BY DEF Init, FollowInv, Answered
<1>2. FollowInv /\ [Next]_vars => FollowInv'
  <2> SUFFICES ASSUME FollowInv, [Next]_vars PROVE FollowInv'
    OBVIOUS
  <2>1. ASSUME NEW fn, NEW value, Returns(fn, value), fn # "chol" PROVE FollowInv'
    BY <2>1 DEF Returns, FollowInv, Answered
  <2>2. CASE CallChol
    <3>1. call' = call /\ call.fn = "chol" /\ result' = [stop |-> FALSE, L |-> Chol(A, n)] /\ sum' = A /\ call \in Calls
      BY <2>2 DEF CallChol, FollowInv
    <3>2. n \in Nat
      BY <3>1, CallsAssumption DEF n
    <3>3. PICK L \in Roots : L \in Vector(n * n) /\ IsCholeskyFactor(L, n) /\ A = MatMul(L, Transpose(L, n, n), n, n, n)
      BY <3>1, CallsAssumption DEF n, A
    <3>4. A \in Matrices(n, n) /\ Factor(Chol(A, n), A, n)
      BY <3>2, <3>3, CholFactors
    <3> QED
      BY <3>1, <3>4 DEF FollowInv, n
  <2>3. CASE \E x \in Vectors, up \in BOOLEAN : CallCholUpdate(x, up)
    <3>1. PICK x \in Vectors, up \in BOOLEAN : CallCholUpdate(x, up)
      BY <2>3
    <3> DEFINE s == CholUpdate(result.L, x, n, up)
               G == MatAdd(sum, Scaled(Outer(x), SignOf(up)))
    <3>2. /\ call' = call /\ call.fn = "chol" /\ returned /\ ~result.stop /\ DOMAIN x = Cells(n) /\ call \in Calls
          /\ MadeOfNumbers(s.L) /\ result' = [stop |-> s.stop, L |-> s.L] /\ sum' = G
      BY <3>1 DEF CallCholUpdate, SignOf, FollowInv
    <3>3. n \in Nat
      BY <3>2, CallsAssumption DEF n
    <3>4. x \in Vector(n)
      BY <3>2, VectorsAssumption DEF Vector
    <3>5. sum \in Matrices(n, n) /\ Factor(result.L, sum, n)
      BY <3>2 DEF FollowInv, Answered
    <3>6. G \in Matrices(n, n) /\ (~s.stop => Factor(s.L, G, n))
      BY <3>2, <3>3, <3>4, <3>5, UpdateFactors DEF Outer
    <3> HIDE DEF s, G
    <3> QED
      BY <3>2, <3>6 DEF FollowInv, n
  <2>4. CASE (SolverNext /\ UNCHANGED callVars) \/ UNCHANGED vars
    BY <2>4 DEF callVars, vars, FollowInv, Answered, n
  <2>5. CASE \/ CallLinsolveLup \/ CallInv \/ CallDet \/ CallGauss \/ CallCholSolve \/ CallQrSolve \/ CallQr
             \/ CallDlyap \/ CallBalance \/ CallPrepare
    BY <2>1, <2>5 DEF CallLinsolveLup, CallInv, CallDet, CallGauss, CallCholSolve, CallQrSolve, CallQr, CallDlyap,
                      CallBalance, CallPrepare
  <2>6. CASE \/ CallEig \/ CallSvd \/ CallPinv \/ CallSort \/ CallExpm \/ CallHankel \/ CallBlocks
    BY <2>1, <2>6 DEF CallEig, CallSvd, CallPinv, CallSort, CallExpm, CallHankel, CallBlocks
  <2> QED
    BY <2>2, <2>3, <2>4, <2>5, <2>6 DEF Next
<1> QED
  BY <1>1, <1>2, PTL DEF Spec

\* For every matrix with a factor of fractions and any sequence of updates and
\* downdates: the factor stays the Cholesky factor of the updated matrix.
THEOREM FactorIsExact == Spec => []FactorFollowsUpdates
<1>1. FollowInv => FactorFollowsUpdates
  <2> SUFFICES ASSUME FollowInv, Answered("chol"), ~result.stop
               PROVE  IsCholeskyFactor(result.L, n) /\ MatMul(result.L, Transpose(result.L, n, n), n, n, n) = sum
    BY DEF FactorFollowsUpdates
  <2>1. call \in Calls /\ call.fn = "chol" /\ sum \in Matrices(n, n) /\ Factor(result.L, sum, n)
    BY DEF FollowInv, Answered
  <2>2. n \in Nat
    BY <2>1, CallsAssumption DEF n
  <2> QED
    BY <2>1, <2>2, FactorMeans
<1> QED
  BY <1>1, FactorInvariance, PTL

-----------------------------------------------------------------------------
(* smls_nonlinsolve: for every system, number of guesses and stopping rule, *)
(* the best of the points it evaluated, whatever residuals the caller's     *)
(* function gives back, infinities and NaNs among them.                     *)

Finite(residuals) == {i \in DOMAIN residuals : residuals[i] \in Residuals}

\* Point i is the first of the points with the smallest residual.
IsFirstBest(i, residuals) ==
  /\ i \in Finite(residuals)
  /\ \A k \in Finite(residuals) :
       residuals[i] < residuals[k] \/ (residuals[i] = residuals[k] /\ i <= k)

-----------------------------------------------------------------------------
(* The inductive invariant: best_x and best_sqrt_sum_dx belong together at  *)
(* every moment, and the point the next step evaluates is the next new one  *)
(* or one met before, whose residual cannot beat the best any more.         *)

MetInv == met \in Seq(Residual)

BestInv ==
  IF best_sqrt_sum_dx = FltMax
  THEN Finite(met) = {} /\ best_x = 0
  ELSE IsFirstBest(best_x, met) /\ met[best_x] = best_sqrt_sum_dx

PointInv ==
  /\ phase = "descend" => point \in 0 .. Len(met) + 1
  /\ phase = "done" => point = best_x

SolverInv == MetInv /\ BestInv /\ PointInv

-----------------------------------------------------------------------------

\* No finite residual is FLT_MAX.
LEMMA FiniteIsSmall == FltMax \notin Residuals /\ Residuals \subseteq Nat
  BY NonlinAssumption DEF FltMax

\* A point that has not been met before: check_solution keeps the best of the
\* points met and the new one, and the earlier of two equal ones.
LEMMA NewPointChecked ==
  ASSUME MetInv, BestInv, NEW residual \in Residual, NEW number,
         number = Len(met) + 1, Evaluated(number, residual), CheckSolution(number, residual)
  PROVE  /\ MetInv' /\ BestInv'
         /\ Len(met') = Len(met) + 1 /\ best_x' \in 0 .. Len(met')
<1>1. met \in Seq(Residual) /\ Len(met) \in Nat /\ DOMAIN met = 1 .. Len(met)
  BY DEF MetInv
<1>2. met' = Append(met, residual)
  BY <1>1 DEF Evaluated
<1>3. /\ met' \in Seq(Residual) /\ Len(met') = Len(met) + 1
      /\ DOMAIN met' = 1 .. Len(met) + 1
      /\ \A i \in DOMAIN met : met'[i] = met[i]
      /\ met'[number] = residual
  BY <1>1, <1>2, AppendProperties
<1>4. /\ \A i \in Finite(met) : i \in Finite(met') /\ met'[i] = met[i] /\ i < number
      /\ \A i \in Finite(met') : i \in Finite(met) \/ (i = number /\ residual \in Residuals)
      /\ residual \in Residuals => number \in Finite(met')
  BY <1>1, <1>3 DEF Finite
<1>5. \A i \in Finite(met') : met'[i] \in Nat /\ i \in 1 .. Len(met')
  BY <1>3, FiniteIsSmall DEF Finite
<1>6. CASE Improves(best_sqrt_sum_dx, residual)
  <2>1. best_sqrt_sum_dx' = residual /\ best_x' = number /\ residual \in Residuals
    BY <1>6 DEF CheckSolution, Improves
  <2>2. best_sqrt_sum_dx' # FltMax /\ met'[best_x'] = best_sqrt_sum_dx'
    BY <1>3, <2>1, FiniteIsSmall
  <2>3. ASSUME NEW k \in Finite(met'), k # number
        PROVE  residual < met'[k]
    <3>1. k \in Finite(met) /\ met'[k] = met[k] /\ met[k] \in Nat
      BY <1>4, <1>5, <2>3
    <3>2. best_sqrt_sum_dx # FltMax
      BY <3>1 DEF BestInv
    <3>3. /\ best_x \in Finite(met)
          /\ best_sqrt_sum_dx < met[k] \/ best_sqrt_sum_dx = met[k]
      BY <3>1, <3>2 DEF BestInv, IsFirstBest
    <3>4. best_sqrt_sum_dx \in Nat
      BY <3>2, <3>3, FiniteIsSmall DEF BestInv, Finite
    <3>5. residual < best_sqrt_sum_dx /\ residual \in Nat
      BY <1>6, <3>2, FiniteIsSmall DEF Improves
    <3> QED
      BY <3>1, <3>3, <3>4, <3>5
  <2>4. IsFirstBest(best_x', met')
    <3>1. number \in Finite(met') /\ number <= number
      BY <1>1, <1>4, <2>1
    <3> QED
      BY <1>3, <2>1, <2>3, <3>1 DEF IsFirstBest
  <2>5. BestInv'
    BY <2>2, <2>4 DEF BestInv, IsFirstBest, Finite
  <2> QED
    BY <1>1, <1>3, <2>1, <2>5 DEF MetInv
<1>7. CASE ~Improves(best_sqrt_sum_dx, residual)
  <2>1. best_sqrt_sum_dx' = best_sqrt_sum_dx /\ best_x' = best_x
    BY <1>7 DEF CheckSolution
  <2>2. CASE best_sqrt_sum_dx = FltMax
    <3>1. residual \notin Residuals
      BY <1>7, <2>2 DEF Improves
    <3>2. Finite(met) = {} /\ best_x = 0
      BY <2>2 DEF BestInv
    <3>3. Finite(met') = {}
      BY <1>4, <3>1, <3>2
    <3>4. BestInv'
      BY <2>1, <2>2, <3>2, <3>3 DEF BestInv, Finite
    <3> QED
      BY <1>1, <1>3, <2>1, <3>2, <3>4 DEF MetInv
  <2>3. CASE best_sqrt_sum_dx # FltMax
    <3>1. IsFirstBest(best_x, met) /\ met[best_x] = best_sqrt_sum_dx
      BY <2>3 DEF BestInv
    <3>2. /\ best_x \in Finite(met) /\ best_x \in Finite(met')
          /\ met'[best_x] = best_sqrt_sum_dx /\ best_x < number
          /\ best_sqrt_sum_dx \in Nat
      BY <1>4, <1>5, <3>1 DEF IsFirstBest
    <3>3. ASSUME NEW k \in Finite(met')
          PROVE  met'[best_x] < met'[k] \/ (met'[best_x] = met'[k] /\ best_x <= k)
      <4>1. CASE k \in Finite(met)
        <5>1. met'[k] = met[k]
          BY <1>4, <4>1
        <5> QED
          BY <3>1, <3>2, <4>1, <5>1 DEF IsFirstBest
      <4>2. CASE k = number /\ residual \in Residuals
        <5>1. ~(residual < best_sqrt_sum_dx) /\ residual \in Nat
          BY <1>7, <4>2, FiniteIsSmall DEF Improves
        <5>2. best_x \in 1 .. Len(met')
          BY <1>5, <3>2
        <5> QED
          BY <1>1, <1>3, <3>2, <4>2, <5>1, <5>2
      <4> QED
        BY <1>4, <4>1, <4>2
    <3>4. BestInv'
      BY <2>1, <2>3, <3>2, <3>3 DEF BestInv, IsFirstBest, Finite
    <3>5. best_x \in 0 .. Len(met')
      BY <1>5, <3>2
    <3> QED
      BY <1>3, <2>1, <3>4, <3>5 DEF MetInv
  <2> QED
    BY <2>2, <2>3
<1> QED
  BY <1>6, <1>7

\* A point that is evaluated again has the residual it had, which is no
\* improvement.
LEMMA OldPointChecked ==
  ASSUME MetInv, BestInv, NEW residual \in Residual, NEW number \in DOMAIN met,
         Evaluated(number, residual), CheckSolution(number, residual)
  PROVE  /\ met' = met /\ best_x' = best_x /\ best_sqrt_sum_dx' = best_sqrt_sum_dx
         /\ best_x \in 0 .. Len(met)
<1>1. met[number] = residual /\ met' = met
  BY DEF Evaluated
<1>2. ~Improves(best_sqrt_sum_dx, residual)
  <2> SUFFICES ASSUME residual \in Residuals
               PROVE  best_sqrt_sum_dx # FltMax /\ ~(residual < best_sqrt_sum_dx)
    BY DEF Improves
  <2>1. number \in Finite(met)
    BY <1>1 DEF Finite
  <2>2. best_sqrt_sum_dx # FltMax
    BY <2>1 DEF BestInv
  <2>3. /\ best_x \in Finite(met) /\ met[best_x] = best_sqrt_sum_dx
        /\ best_sqrt_sum_dx < residual \/ best_sqrt_sum_dx = residual
    BY <1>1, <2>1, <2>2 DEF BestInv, IsFirstBest
  <2>4. best_sqrt_sum_dx \in Nat /\ residual \in Nat
    BY <2>3, FiniteIsSmall DEF Finite
  <2> QED
    BY <2>2, <2>3, <2>4
<1>3. best_x \in 0 .. Len(met)
  BY DEF BestInv, IsFirstBest, Finite, MetInv
<1> QED
  BY <1>1, <1>2, <1>3 DEF CheckSolution

\* The loops start with no point met.
LEMMA SolverInitInv == SolverInit => SolverInv
<1> SUFFICES ASSUME SolverInit PROVE SolverInv
  OBVIOUS
<1>1. met = <<>> /\ best_x = 0 /\ best_sqrt_sum_dx = FltMax /\ phase \in {"guess", "descend"}
      /\ point \in {0, 1}
  BY DEF SolverInit
<1>2. Finite(met) = {}
  BY <1>1 DEF Finite
<1> QED
  BY <1>1, <1>2 DEF SolverInv, MetInv, BestInv, PointInv

\* A random guess, the last one of its loop included.
LEMMA GuessKeeps ==
  ASSUME SolverInv, Guess
  PROVE  SolverInv'
<1>1. PICK residual \in Residual :
        /\ Evaluated(Len(met) + 1, residual)
        /\ CheckSolution(Len(met) + 1, residual)
  BY DEF Guess
<1>2. /\ MetInv' /\ BestInv'
      /\ Len(met') = Len(met) + 1 /\ best_x' \in 0 .. Len(met')
  BY <1>1, NewPointChecked DEF SolverInv
<1>3. \/ phase' = "guess"
      \/ phase' = "descend" /\ point' = best_x'
  BY DEF Guess
<1>4. PointInv'
  <2>1. Len(met') \in Nat
    BY <1>2 DEF MetInv
  <2> QED
    BY <1>2, <1>3, <2>1 DEF PointInv
<1> QED
  BY <1>2, <1>4 DEF SolverInv

\* A gradient step, the one that ends the descent included.
LEMMA DescendKeeps ==
  ASSUME SolverInv, Descend
  PROVE  SolverInv'
<1> DEFINE number == IF point = 0 THEN Len(met) + 1 ELSE point
<1>1. PICK residual \in Residual :
        Evaluated(number, residual) /\ CheckSolution(number, residual)
  BY DEF Descend
<1>2. Len(met) \in Nat /\ DOMAIN met = 1 .. Len(met) /\ point \in 0 .. Len(met) + 1
  BY DEF SolverInv, MetInv, PointInv, Descend
<1>3. number = Len(met) + 1 \/ number \in DOMAIN met
  BY <1>2
<1>4. MetInv' /\ BestInv'
  <2>1. CASE number = Len(met) + 1
    <3> HIDE DEF number
    <3> QED
      BY <1>1, <2>1, NewPointChecked DEF SolverInv
  <2>2. CASE number \in DOMAIN met
    <3> HIDE DEF number
    <3>1. met' = met /\ best_x' = best_x /\ best_sqrt_sum_dx' = best_sqrt_sum_dx
      BY <1>1, <2>2, OldPointChecked DEF SolverInv
    <3> QED
      BY <3>1 DEF SolverInv, MetInv, BestInv, IsFirstBest, Finite
  <2> QED
    BY <1>3, <2>1, <2>2
<1>5. \/ phase' = "done" /\ point' = best_x'
      \/ phase' = "descend" /\ point' = Len(met') + 1
  BY DEF Descend, Finish
<1>6. PointInv'
  <2>1. Len(met') \in Nat
    BY <1>4 DEF MetInv
  <2> QED
    BY <1>5, <2>1 DEF PointInv
<1> QED
  BY <1>4, <1>6 DEF SolverInv

\* So does every step of the solver.
LEMMA SolverStep == SolverInv /\ [SolverNext]_solverVars => SolverInv'
<1> SUFFICES ASSUME SolverInv, [SolverNext]_solverVars PROVE SolverInv'
  OBVIOUS
<1>1. CASE UNCHANGED solverVars
  BY <1>1 DEF solverVars, SolverInv, MetInv, BestInv, PointInv, IsFirstBest, Finite
<1> QED
  BY <1>1, GuessKeeps, DescendKeeps DEF SolverNext

\* The point returned is the best one.
LEMMA BestReturned == SolverInv => ReturnsBestPointMet
<1> SUFFICES ASSUME SolverInv, phase = "done" PROVE ReturnsBestPointMet
  BY DEF ReturnsBestPointMet
<1>1. point = best_x
  BY DEF SolverInv, PointInv
<1>2. CASE best_sqrt_sum_dx = FltMax
  BY <1>1, <1>2 DEF SolverInv, BestInv, ReturnsBestPointMet, Finite
<1>3. CASE best_sqrt_sum_dx # FltMax
  <2>1. IsFirstBest(point, met)
    BY <1>1, <1>3 DEF SolverInv, BestInv
  <2> QED
    BY <2>1 DEF ReturnsBestPointMet, IsFirstBest, Finite
<1> QED
  BY <1>2, <1>3

\* The invariant holds from the call to the return.
THEOREM SolverInvariance == SolverSpec => []SolverInv
  BY SolverInitInv, SolverStep, PTL DEF SolverSpec

\* When smls_nonlinsolve returns, x is the first of the points with the smallest
\* residual of all it evaluated, and uninitialised only if none was finite.
THEOREM ReturnsBest == SolverSpec => []ReturnsBestPointMet
  BY BestReturned, SolverInvariance, PTL

\* Called or not, the solver has returned the best point it met, or has not returned.
THEOREM ReturnsBestInCalls == Spec => []ReturnsBestPointMet
<1>1. Init => SolverInv
  <2> SUFFICES ASSUME Init, call.fn # "nonlinsolve" PROVE SolverInv
    BY SolverInitInv DEF Init
  <2>1. phase = "done" /\ point = 0 /\ best_x = 0 /\ best_sqrt_sum_dx = FltMax /\ met = <<>>
    BY DEF Init
  <2>2. Finite(met) = {}
    BY <2>1 DEF Finite
  <2> QED
    BY <2>1, <2>2 DEF SolverInv, MetInv, BestInv, PointInv
<1>2. SolverInv /\ [Next]_vars => SolverInv'
  <2>1. [Next]_vars => [SolverNext]_solverVars
    BY DEF Next, vars, Returns, CallLinsolveLup, CallInv, CallDet, CallGauss, CallCholSolve, CallQrSolve,
       CallQr, CallDlyap, CallBalance, CallPrepare, CallEig, CallSvd, CallPinv, CallSort, CallExpm,
       CallHankel, CallBlocks, CallChol, CallCholUpdate
  <2> QED
    BY <2>1, SolverStep
<1> QED
  BY <1>1, <1>2, BestReturned, PTL DEF Spec
=============================================================================
