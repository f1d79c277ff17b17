------------------------------ MODULE Spectral ------------------------------
(***************************************************************************)
(* Eigenvalues, singular values, the pseudo inverse and the exponential,   *)
(* over exact fractions. Where the code iterates until rounding absorbs    *)
(* what is left (the shifted QR of eig.c on a block of three rows or more, *)
(* both reductions of svd_golub_reinsch.c) there is no exact counterpart:  *)
(* only the steps that end an iteration are here.                          *)
(***************************************************************************)
EXTENDS LinearSolve

CONSTANTS Passes,  \* bound of while (last == 0) in smls_mat_balance
          Turns,   \* bound of its two inner loops and of the series of smls_mat_expm
          Sweeps   \* max_iterations of svd_jacobi_one_sided

ASSUME SpectralAssumption == {Passes, Turns, Sweeps} \subseteq Nat \ {0}

Half(q) == Div(q, Whole(2))

\* Row i times 1 / f, column i times f.
Rescaled(A, n, i, f) ==
  [c \in DOMAIN A |-> LET row == IF c \div n = i THEN Div(A[c], f) ELSE A[c]
                      IN  IF c % n = i THEN Mul(row, f) ELSE row]

\* The body of the for loop of smls_mat_balance.
BalancedRow(s, n, i) ==
  LET sum(at(_)) == SumOver(0, n - 1, LAMBDA j : IF j = i THEN Zero ELSE Absolute(s.A[at(j)]))
      c == sum(LAMBDA j : j * n + i)
      r == sum(LAMBDA j : i * n + j)
      up == For(1, Turns, LAMBDA p, k : IF Less(p.c, Half(r))
                                         THEN [f |-> Mul(p.f, Whole(2)), c |-> Mul(p.c, Whole(4))] ELSE p,
                [f |-> One, c |-> c])
      p == For(1, Turns, LAMBDA q, k : IF Less(Mul(r, Whole(2)), q.c)
                                        THEN [f |-> Half(q.f), c |-> Div(q.c, Whole(4))] ELSE q,
               up)
  IN  IF c # Zero /\ r # Zero /\ Less(Div(Add(p.c, r), p.f), Mul(<<19, 20>>, Add(c, r)))
      THEN [last |-> FALSE, A |-> Rescaled(s.A, n, i, p.f)]
      ELSE s

\* smls_mat_balance
Balance(A, n) ==
  For(1, Passes,
      LAMBDA s, pass : IF s.last THEN s ELSE For(0, n - 1, LAMBDA t, i : BalancedRow(t, n, i), [s EXCEPT !.last = TRUE]),
      [last |-> FALSE, A |-> A]).A

\* The two swaps of prepare: rows i and m from column m - 1 on, then columns i and m.
Exchanged(A, n, m, i) ==
  LET other(k) == IF k = i THEN m ELSE IF k = m THEN i ELSE k
      rows == [c \in DOMAIN A |-> IF c % n >= m - 1 THEN A[other(c \div n) * n + (c % n)] ELSE A[c]]
  IN  [c \in DOMAIN A |-> rows[(c \div n) * n + other(c % n)]]

\* Faulty variant: the rows are combined, the columns are not.
ShearedRows(A, n, m, i, x) ==
  LET y == Div(A[n * i + m - 1], x)
  IN  [c \in DOMAIN A |-> IF c = n * i + m - 1 THEN y
                          ELSE IF c \div n = i /\ c % n >= m THEN Sub(A[c], Mul(y, A[n * m + (c % n)]))
                          ELSE A[c]]

\* One row of the elimination of prepare: y is left where the zero would be.
Sheared(A, n, m, i, x) ==
  LET y == Div(A[n * i + m - 1], x)
      rows == [c \in DOMAIN A |-> IF c = n * i + m - 1 THEN y
                                  ELSE IF c \div n = i /\ c % n >= m THEN Sub(A[c], Mul(y, A[n * m + (c % n)]))
                                  ELSE A[c]]
  IN  IF y = Zero THEN A
      ELSE [c \in DOMAIN A |-> IF c % n = m THEN Add(rows[c], Mul(y, rows[n * (c \div n) + i])) ELSE rows[c]]

\* prepare of eig.c: to Hessenberg form by elimination.
Prepare(A, n) ==
  For(1, n - 1,
      LAMBDA B, m :
        LET i == FirstLargest(m, n - 1, LAMBDA j : Absolute(B[n * j + m - 1]))
            x == B[n * i + m - 1]
        IN  IF x = Zero THEN B
            ELSE For(m + 1, n - 1, LAMBDA C, r : Sheared(C, n, m, r, x), Exchanged(B, n, m, i)),
      A)

\* The roots of the last two rows that qr_shift_algorithm splits off.
LastPair(A, n, nn) ==
  LET x == A[n * nn + nn]
      y == A[n * (nn - 1) + nn - 1]
      w == Mul(A[n * nn + nn - 1], A[n * (nn - 1) + nn])
      p == Half(Sub(y, x))
      q == Add(Mul(p, p), w)
      root == Root(Absolute(q))
      z == IF LessEq(Zero, p) THEN Add(p, root) ELSE Sub(p, root)
  IN  IF LessEq(Zero, q)
      THEN [re |-> <<Add(x, z), IF z = Zero THEN Add(x, z) ELSE Sub(x, Div(w, z))>>, im |-> <<Zero, Zero>>]
      ELSE [re |-> <<Add(x, p), Add(x, p)>>, im |-> <<Neg(root), root>>]

\* qr_shift_algorithm where every block of A has one or two rows, so that no
\* shift is taken (t = 0).
SplitOff(A, n) ==
  LET start(nn) == CHOOSE l \in 0 .. nn : /\ l = 0 \/ A[n * l + l - 1] = Zero
                                          /\ \A k \in l + 1 .. nn : A[n * k + k - 1] # Zero
      single(s) == [nn |-> s.nn - 1, wr |-> [s.wr EXCEPT ![s.nn] = A[n * s.nn + s.nn]],
                                     wi |-> [s.wi EXCEPT ![s.nn] = Zero]]
      two(s, pair) == [nn |-> s.nn - 2, wr |-> [s.wr EXCEPT ![s.nn - 1] = pair.re[1], ![s.nn] = pair.re[2]],
                                        wi |-> [s.wi EXCEPT ![s.nn - 1] = pair.im[1], ![s.nn] = pair.im[2]]]
      split(s, l) == IF l = s.nn THEN single(s) ELSE two(s, LastPair(A, n, s.nn))
  IN  For(1, n, LAMBDA s, k : IF s.nn < 0 THEN s ELSE split(s, start(s.nn)),
          [nn |-> n - 1, wr |-> Filled(n, Zero), wi |-> Filled(n, Zero)])

\* smls_mat_eig
Eig(A, n) == SplitOff(Prepare(Balance(A, n), n), n)

-----------------------------------------------------------------------------

\* The angle of a Jacobi rotation. With c zero l is 0 / 0 where the columns are
\* equally long, and otherwise an infinity, which gives t = 0.
Angle(al, b, c) ==
  LET tangent(l, sign) == Div(sign, Add(Mul(sign, l), Root(Add(One, Mul(l, l)))))
      of(l) == tangent(l, IF Less(l, Zero) THEN Neg(One) ELSE One)
      angle(cs, t) == [cs |-> cs, sn |-> Mul(cs, t)]
      by(t) == angle(Div(One, Root(Add(One, Mul(t, t)))), t)
  IN  by(IF c # Zero THEN of(Div(Sub(b, al), Mul(Whole(2), c))) ELSE IF al = b THEN NaN ELSE Zero)

\* Change columns i and j only.
Turned(M, n, i, j, a) ==
  [c \in DOMAIN M |->
     LET row == n * (c \div n)
     IN  IF c % n = i THEN Sub(Mul(a.cs, M[row + i]), Mul(a.sn, M[row + j]))
         ELSE IF c % n = j THEN Add(Mul(a.sn, M[row + i]), Mul(a.cs, M[row + j]))
         ELSE M[c]]

ColumnsSwapped(M, column, i, j) ==
  [c \in DOMAIN M |-> IF c % column = i THEN M[c - i + j] ELSE IF c % column = j THEN M[c - j + i] ELSE M[c]]

SwappedAt(v, i, j) == [v EXCEPT ![i] = v[j], ![j] = v[i]]

\* One visit of the pair (i, j) of columns.
Rotated(s, n, i, j) ==
  LET dot(a, b) == SumOver(0, n - 1, LAMBDA k : Mul(s.A[n * k + a], s.A[n * k + b]))
      both(angle) == [A |-> Turned(s.A, n, i, j, angle), V |-> Turned(s.V, n, i, j, angle)]
  IN  both(Angle(dot(i, i), dot(j, j), dot(i, j)))

\* Faulty variant: V keeps its order.
BubbledAlone(s, n, j) ==
  IF ~Less(s.S[j], s.S[j + 1]) THEN s
  ELSE [S |-> SwappedAt(s.S, j, j + 1), V |-> s.V, A |-> ColumnsSwapped(s.A, n, j, j + 1)]

\* The exchange of the bubble sort of svd_jacobi_one_sided.
Bubbled(s, n, j) ==
  IF ~Less(s.S[j], s.S[j + 1]) THEN s
  ELSE [S |-> SwappedAt(s.S, j, j + 1), V |-> ColumnsSwapped(s.V, n, j, j + 1), A |-> ColumnsSwapped(s.A, n, j, j + 1)]

\* svd_jacobi_one_sided
SvdJacobi(A, n) ==
  LET pairs(s) == For(0, n - 1, LAMBDA t, i : For(i + 1, n - 1, LAMBDA u, j : Rotated(u, n, i, j), t), s)
      lengths(M) == [j \in Cells(n) |-> Root(SumOver(0, n - 1, LAMBDA i : Mul(M[n * i + j], M[n * i + j])))]
      sorted(s) == For(0, n - 2, LAMBDA t, p : For(0, n - p - 2, LAMBDA u, j : Bubbled(u, n, j), t),
                       [S |-> lengths(s.A), V |-> s.V, A |-> s.A])
      factors(s) == [U |-> [c \in DOMAIN A |-> Div(s.A[c], s.S[c % n])], S |-> s.S, V |-> s.V]
  IN  factors(sorted(For(1, Sweeps, LAMBDA s, p : pairs(s), [A |-> A, V |-> Identity(n)])))

\* Sort_by_Decreasing_Singular_Values
SortByDecreasing(S, U, V, ncols) ==
  For(0, ncols - 2,
      LAMBDA s, i :
        LET max_index == FirstLargest(i, ncols - 1, LAMBDA j : s.S[j])
        IN  [S |-> SwappedAt(s.S, i, max_index),
             U |-> ColumnsSwapped(s.U, ncols, i, max_index),
             V |-> ColumnsSwapped(s.V, ncols, i, max_index)],
      [S |-> S, U |-> U, V |-> V])

\* smls_mat_pinv of a square matrix
Pinv(A, n) ==
  LET scaled(S, UT) == [c \in DOMAIN UT |-> Mul(Div(One, S[c \div n]), UT[c])]
      inverse(f) == MatMul(f.V, scaled(f.S, Transpose(f.U, n, n)), n, n, n)
  IN  inverse(SvdJacobi(A, n))

\* Faulty variant: the first power is divided by two.
SeriesLate(A, n) ==
  For(1, Turns,
      LAMBDA s, k :
        LET F == Scaled(MatMul(A, s.F, n, n, n), <<1, k + 1>>)
        IN  IF ~Less(Zero, Norm1(s.T, n, n)) THEN s ELSE [E |-> MatAdd(s.E, s.F), F |-> F, T |-> F],
      [E |-> Filled(n * n, Zero), F |-> Identity(n), T |-> Identity(n)])

\* The loop of smls_mat_expm; without rounding E + F - E is F.
Series(A, n) ==
  For(1, Turns,
      LAMBDA s, k :
        LET F == Scaled(MatMul(A, s.F, n, n, n), Div(One, Whole(k)))
        IN  IF ~Less(Zero, Norm1(s.T, n, n)) THEN s ELSE [E |-> MatAdd(s.E, s.F), F |-> F, T |-> F],
      [E |-> Filled(n * n, Zero), F |-> Identity(n), T |-> Identity(n)])

\* smls_mat_expm
Expm(A, n) == Series(A, n).E

=============================================================================
