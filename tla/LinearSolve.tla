---------------------------- MODULE LinearSolve ----------------------------
(***************************************************************************)
(* Factorizations and solvers of smls_math/math_core/linalg, over exact    *)
(* fractions: a test against FLT_EPSILON is a test against zero.           *)
(***************************************************************************)
EXTENDS Matrix

\* Faulty variant: looks for the pivot in the rows as they lie, not as P has them.
PivotUnpermuted(LU, P, n, i) == FirstLargest(i, n - 1, LAMBDA k : Absolute(LU[n * k + i]))

\* The scan for ind_max in column i.
Pivot(LU, P, n, i) == FirstLargest(i, n - 1, LAMBDA k : Absolute(LU[n * P[k] + i]))

\* Column i of the elimination, for the rows that are not pivots yet.
Eliminated(LU, P, n, i) ==
  LET below == {P[j] : j \in i + 1 .. n - 1}
      factor(r) == Div(LU[n * r + i], LU[n * P[i] + i])
  IN  [c \in DOMAIN LU |->
         LET r == c \div n
             k == c % n
         IN  IF r \notin below \/ k < i THEN LU[c]
             ELSE IF k = i THEN factor(r)
             ELSE Sub(LU[c], Mul(LU[n * P[i] + k], factor(r)))]

\* One column of smls_mat_lup: find the pivot, exchange, eliminate.
LupColumn(s, n, i) ==
  LET p == Pivot(s.LU, s.P, n, i)
      P == [s.P EXCEPT ![i] = s.P[p], ![p] = s.P[i]]
  IN  IF ~s.ok THEN s
      ELSE IF s.LU[n * P[i] + i] = Zero THEN [s EXCEPT !.ok = FALSE, !.P = P]
      ELSE [s EXCEPT !.P = P, !.LU = Eliminated(s.LU, P, n, i)]

\* smls_mat_lup: rows stay where they are, P says which comes when. The last
\* pivot is not looked at.
Lup(A, n) ==
  For(0, n - 2, LAMBDA s, i : LupColumn(s, n, i),
      [ok |-> TRUE, LU |-> A, P |-> [i \in Cells(n) |-> i]])

\* The determinant of a factorized matrix: the sign from the number of rows that
\* are not in their place.
Product(f, n) ==
  LET product == For(0, n - 1, LAMBDA d, i : Mul(d, f.LU[n * f.P[i] + i]), One)
      displaced == For(0, n - 1, LAMBDA j, i : IF f.P[i] # i THEN j + 1 ELSE j, 0)
  IN  IF ~f.ok THEN Zero
      ELSE IF displaced # 0 /\ (displaced - 1) % 2 = 1 THEN Neg(product)
      ELSE product

\* smls_mat_det
Det(A, n) == Product(Lup(A, n), n)

\* The inner loop of both substitutions: v less elements lo to hi of row r times x.
Reduced(v, LU, n, r, x, lo, hi) == For(lo, hi, LAMBDA w, j : Sub(w, Mul(LU[n * r + j], x[j])), v)

\* Faulty variant: the right-hand side is read in its own order.
ForwardUnpermuted(LU, P, b, n) ==
  For(0, n - 1, LAMBDA x, i : [x EXCEPT ![i] = Reduced(b[i], LU, n, P[i], x, 0, i - 1)], Filled(n, Unset))

\* "forward substitution with pivoting", in linsolve_lup.c and inv.c
Forward(LU, P, b, n) ==
  For(0, n - 1, LAMBDA x, i : [x EXCEPT ![i] = Reduced(b[P[i]], LU, n, P[i], x, 0, i - 1)], Filled(n, Unset))

BackwardRow(LU, P, n, x, i) ==
  [x EXCEPT ![i] = Div(Reduced(x[i], LU, n, P[i], x, i + 1, n - 1), LU[n * P[i] + i])]

\* "backward substitution with pivoting": rows n-1 down to 0.
Backward(LU, P, y, n) == For(0, n - 1, LAMBDA x, step : BackwardRow(LU, P, n, x, n - 1 - step), y)

\* The solution by the factors f.
Substituted(f, b, n) == Backward(f.LU, f.P, Forward(f.LU, f.P, b, n), n)

\* smls_linsolve_lup; a zero last pivot divides.
LinsolveLup(A, b, n) ==
  LET solved(f) == [ok |-> f.ok, x |-> IF f.ok THEN Substituted(f, b, n) ELSE Filled(n, Unset)]
  IN  solved(Lup(A, n))

\* Faulty variant: the last pivot is not looked at.
SolvableUnchecked(f, n) == f.ok

\* The two places where smls_mat_inv gives up: in lup, and in solve on a pivot
\* that is zero.
Solvable(f, n) == f.ok /\ \A i \in Cells(n) : f.LU[n * f.P[i] + i] # Zero

\* smls_mat_inv: a system for every unit vector, into rows, then transposed.
Inv(A, n) ==
  LET unit(i) == [k \in Cells(n) |-> IF k = i THEN One ELSE Zero]
      rows(f) == For(0, n - 1, LAMBDA Ai, i : Copied(Ai, n * i, Substituted(f, unit(i), n), 0, n), Filled(n * n, Unset))
      inverse(f) == IF Solvable(f, n) THEN [ok |-> TRUE, Ai |-> Transpose(rows(f), n, n)]
                    ELSE [ok |-> FALSE, Ai |-> A]
  IN  inverse(Lup(A, n))

\* Row i solved for x[i], with the sum of its elements lo to hi times x.
RowSum(A, n, i, x, lo, hi) == SumOver(lo, hi, LAMBDA j : Mul(A[i * n + j], x[j]))
SolvedRow(A, b, n, x, i, lo, hi) == [x EXCEPT ![i] = Div(Sub(b[i], RowSum(A, n, i, x, lo, hi)), A[i * n + i])]

\* smls_linsolve_lower_triangular
LowerTriangular(A, b, n) ==
  For(0, n - 1, LAMBDA x, i : SolvedRow(A, b, n, x, i, 0, i - 1), Filled(n, Zero))

\* smls_linsolve_upper_triangular: the sum starts at x[i], which is still zero.
UpperTriangular(A, b, n) ==
  For(0, n - 1, LAMBDA x, step : SolvedRow(A, b, n, x, n - 1 - step, n - 1 - step, n - 1), Filled(n, Zero))

-----------------------------------------------------------------------------

\* Column j of triu. Row i is changed before row i + 1, both by row j, which no
\* longer changes.
TriuColumn(s, n, j) ==
  LET pivot(i) == Div(s.A[i * n + j], s.A[j * n + j])
  IN  [A |-> [c \in Cells(n * n) |->
                IF c \div n > j THEN Sub(s.A[c], Mul(pivot(c \div n), s.A[j * n + (c % n)])) ELSE s.A[c]],
       b |-> [i \in Cells(n) |-> IF i > j THEN Sub(s.b[i], Mul(pivot(i), s.b[j])) ELSE s.b[i]]]

\* triu of linsolve_gauss.c: elimination without row exchanges.
Triu(A, b, n) == For(0, n - 1, LAMBDA s, j : TriuColumn(s, n, j), [A |-> A, b |-> b])

\* tikhonov of linsolve_gauss.c, where row_a <= column_a: with more rows its
\* memset of ATb runs over the end.
Tikhonov(A, b, row_a, column_a, alpha) ==
  LET AT == Transpose(A, row_a, column_a)
  IN  [A |-> MatAdd(MatMul(AT, A, column_a, row_a, column_a), Scaled(Identity(column_a), alpha)),
       b |-> MatMul(AT, b, column_a, row_a, 1)]

\* smls_linsolve_gauss
LinsolveGauss(A, b, row, column, alpha) ==
  LET s == IF LessEq(alpha, Zero) /\ row = column
           THEN Triu(A, b, row)
           ELSE LET t == Tikhonov(A, b, row, column, alpha) IN Triu(t.A, t.b, column)
  IN  UpperTriangular(s.A, s.b, column)

\* smls_mat_chol: a zero diagonal becomes FLT_EPSILON, 2^-23, before it is used.
Chol(A, n) ==
  For(0, n * n - 1,
      LAMBDA L, c :
        LET i == c \div n
            j == c % n
            rest == Sub(A[n * i + j], SumOver(0, j - 1, LAMBDA k : Mul(L[n * i + k], L[n * j + k])))
            diagonal == IF L[n * j + j] = Zero THEN <<1, 8388608>> ELSE L[n * j + j]
        IN  IF j > i THEN L
            ELSE IF i = j THEN [L EXCEPT ![c] = Root(rest)]
            ELSE [L EXCEPT ![n * j + j] = diagonal, ![c] = Mul(Div(One, diagonal), rest)],
      Filled(n * n, Zero))

\* smls_linsolve_chol
LinsolveChol(A, b, n) ==
  LET L == Chol(A, n)
  IN  UpperTriangular(Transpose(L, n, n), LowerTriangular(L, b, n), n)

\* Faulty variant: the rest of x is turned with the element of L from before.
UpdatedColumnLate(s, k, n, sign) ==
  LET Lkk == s.L[k * n + k]
      tmp == Add(Mul(Lkk, Lkk), Mul(sign, Mul(s.x[k], s.x[k])))
      r == Root(tmp)
      c == Div(r, Lkk)
      t == Div(s.x[k], Lkk)
      Lik(i) == Div(Add(s.L[i * n + k], Mul(sign, Mul(t, s.x[i]))), c)
  IN  IF s.stop \/ LessEq(tmp, Zero) THEN [s EXCEPT !.stop = TRUE]
      ELSE [stop |-> FALSE,
            L |-> [e \in DOMAIN s.L |-> IF e % n # k \/ e \div n < k THEN s.L[e]
                                        ELSE IF e \div n = k THEN r ELSE Lik(e \div n)],
            x |-> [i \in Cells(n) |-> IF i <= k THEN s.x[i] ELSE Sub(Mul(c, s.x[i]), Mul(t, s.L[i * n + k]))]]

\* Column k of smls_mat_chol_update: xi_old and Lik_old are those of before.
UpdatedColumn(s, k, n, sign) ==
  LET Lkk == s.L[k * n + k]
      tmp == Add(Mul(Lkk, Lkk), Mul(sign, Mul(s.x[k], s.x[k])))
      r == Root(tmp)
      c == Div(r, Lkk)
      t == Div(s.x[k], Lkk)
      Lik(i) == Div(Add(s.L[i * n + k], Mul(sign, Mul(t, s.x[i]))), c)
  IN  IF s.stop \/ LessEq(tmp, Zero) THEN [s EXCEPT !.stop = TRUE]
      ELSE [stop |-> FALSE,
            L |-> [e \in DOMAIN s.L |-> IF e % n # k \/ e \div n < k THEN s.L[e]
                                        ELSE IF e \div n = k THEN r ELSE Lik(e \div n)],
            x |-> [i \in Cells(n) |-> IF i <= k THEN s.x[i] ELSE Sub(Mul(c, s.x[i]), Mul(t, Lik(i)))]]

\* smls_mat_chol_update: a downdate that meets a pivot that is not positive
\* returns there, with the columns before it already changed.
CholUpdate(L, x, n, rank_one_update) ==
  For(0, n - 1,
      LAMBDA s, k : UpdatedColumn(s, k, n, IF rank_one_update THEN One ELSE Neg(One)),
      [stop |-> FALSE, L |-> L, x |-> x])

\* Faulty variant: the whole column, not only what is left of it.
ColumnNorm(R, k, row, column) == Root(SumOver(0, row - 1, LAMBDA i : Mul(R[i * column + k], R[i * column + k])))

\* "Do L2 norm": of column k from the diagonal on.
TailNorm(R, k, row, column) == Root(SumOver(k, row - 1, LAMBDA i : Mul(R[i * column + k], R[i * column + k])))

\* Faulty variant: s keeps its sign, and Rk + s may cancel to zero.
NormUnsigned(R, k, row, column) == TailNorm(R, k, row, column)

\* "Do sign"
SignedNorm(R, k, row, column) ==
  IF Less(R[k * column + k], Zero) THEN Neg(TailNorm(R, k, row, column)) ELSE TailNorm(R, k, row, column)

\* One Householder reflection of smls_mat_qr. W is v / r with r * r = 2 s (Rk + s),
\* so that W * W' = v * v' / (r * r) takes no root of r.
Reflection(R, k, row, column) ==
  LET s == SignedNorm(R, k, row, column)
      Rks == Add(R[k * column + k], s)
      rr == Mul(Whole(2), Mul(s, Rks))
      v == [i \in Cells(row) |-> IF i < k THEN Zero ELSE IF i = k THEN Rks ELSE R[i * column + k]]
      WW == [c \in Cells(row * row) |-> Div(Mul(v[c \div row], v[c % row]), rr)]
  IN  MatAdd(Scaled(WW, Whole(-2)), Identity(row))

\* smls_mat_qr, with Q
Qr(A, row, column) ==
  LET last == IF row - 1 < column THEN row - 1 ELSE column
      done == For(0, last - 1,
                  LAMBDA s, k : LET Hi == Reflection(s.R, k, row, column)
                                IN  [H |-> MatMul(Hi, s.H, row, row, row), R |-> MatMul(Hi, s.R, row, row, column)],
                  [H |-> Identity(row), R |-> A])
      factors(Q, R) == [ok |-> Q.ok, Q |-> Q.Ai, R |-> R]
      inverted(H, R) == factors(Inv(H, row), R)
  IN  inverted(done.H, done.R)

\* smls_linsolve_qr: the return code of qr is not looked at.
LinsolveQr(A, b, row, column) ==
  LET solved(f) == UpperTriangular(f.R, MatMul(Transpose(f.Q, row, row), b, row, row, 1), column)
  IN  solved(Qr(A, row, column))

\* B = A * A(k, l)
LyapunovBlock(A, n, k, l) == Scaled(A, A[n * k + l])

\* dlyap: M is filled block by block, negated, one added on its diagonal.
Dlyap(A, Q, n) ==
  LET nn == n * n
      M == For(0, nn - 1,
               LAMBDA N, c : Insert(N, LyapunovBlock(A, n, c \div n, c % n), n, n, nn, n * (c \div n), n * (c % n)),
               Filled(nn * nn, Unset))
      I_M == [c \in Cells(nn * nn) |-> IF c \div nn = c % nn THEN Add(Neg(M[c]), One) ELSE Neg(M[c])]
  IN  LinsolveLup(I_M, Q, nn)

=============================================================================
